----------------------------- MODULE DocGuides -----------------------------
(***************************************************************************)
(* The generated guides of internals/docs and internals/user_docs: a       *)
(* build.py renders the chapters of its tables into ch01.html, ... and     *)
(* then index.html, one file after the other, in the checkout from which   *)
(* the documentation server lists and serves them.                         *)
(*                                                                         *)
(* A chapter is what its links can tell: the sections its table announces, *)
(* the headings its body has, the pages and sections the body links to and *)
(* cites ("N.M" and "chapter N"), and the marks a renderer must replace.   *)
(* An author may leave a chapter out of the tables. The bodies stay as     *)
(* they are: what the others say of it is still in them. An edition is     *)
(* named by the chapter its tables leave out, 0 for none.                  *)
(***************************************************************************)
EXTENDS Integers, Sequences

CONSTANTS
    Guides,     \* the guides: see GuideData
    None,       \* no such file; no version badge
    Empty       \* a file that is opened for writing and not written

ASSUME GuidesAssumption ==
    /\ \A g \in Guides : Len(g.chapters) \in Nat \ {0} /\ DOMAIN g.chapters = 1 .. Len(g.chapters)
    /\ \A g \in Guides : g.spares \subseteq 1 .. Len(g.chapters)
    /\ None \notin Nat /\ Empty \notin Nat /\ None # Empty

VARIABLES
    guide,      \* the guide being looked at
    edition,    \* the edition of the tables
    loaded,     \* the edition a running build has imported, None when none runs
    at,         \* the row of the tables it writes next; the index after the last
    file,       \* per page, 0 being index.html: the edition it was built from
    whole,      \* history: the last build ran to its end, on this edition
    listed      \* what the server's front page says of the guide

vars == <<guide, edition, loaded, at, file, whole, listed>>

All == Len(guide.chapters)
Unlisted == [version |-> None, kind |-> "absent"]

Init ==
    /\ guide \in Guides
    /\ edition = 0
    /\ loaded = None /\ at = 1
    /\ file = [p \in 0..All |-> None]
    /\ whole = FALSE
    /\ listed = Unlisted

-----------------------------------------------------------------------------
(* The tables of edition x, row by row                                      *)

Count(x) == IF x = 0 THEN All ELSE All - 1

\* The chapter of row i
Row(x, i) == IF x = 0 \/ i < x THEN i ELSE i + 1

\* The number of its page, and of the body that goes there: a chapter has its number and
\* its body in the row, or the position is the number and the index of the body.
Num(x, i) == IF guide.paging = "position" THEN i ELSE Row(x, i)

Nums(x) == {Num(x, i) : i \in 1..Count(x)}

-----------------------------------------------------------------------------
(* What a page of edition x holds.  A target is <<chapter>>, <<chapter,     *)
(* section>> or deeper.                                                     *)

ChapterOf(c) == guide.chapters[c]

\* build_sidebar / sidebar: each row of the table, and its sections
Sidebar(x) == [i \in 1..Count(x) |-> [page     |-> <<Num(x, i)>>,
                                      sections |-> ChapterOf(Row(x, i)).sections]]

\* Mutant: the neighbours are the numbers on both sides, without a look at the table.
PagerUnchecked(x, i) ==
    LET n == Num(x, i)
    IN  [prev |-> IF i > 1 THEN {<<n - 1>>} ELSE {},
         next |-> IF i < Count(x) THEN {<<n + 1>>} ELSE {}]

\* The neighbours in the table
PagerByRow(x, i) ==
    [prev |-> {<<Num(x, j)>> : j \in {i - 1} \cap (1..Count(x))},
     next |-> {<<Num(x, j)>> : j \in {i + 1} \cap (1..Count(x))}]

\* The chapters of the numbers on both sides, if the table has them
PagerByNumber(x, i) ==
    LET n == Num(x, i)
    IN  [prev |-> {<<m>> : m \in {n - 1} \cap Nums(x)},
         next |-> {<<m>> : m \in {n + 1} \cap Nums(x)}]

Pager(x, i) == IF guide.paging = "number" THEN PagerByNumber(x, i) ELSE PagerByRow(x, i)

\* str.replace, mark after mark: a mark the template or an earlier value brought in is
\* gone when a later step replaces it.
Remaining(steps, template, brings) ==
    {m \in template : \A j \in DOMAIN steps : steps[j] # m}
    \cup UNION {{m \in brings[j] : \A l \in (j + 1)..Len(steps) : steps[l] # m} :
                    j \in DOMAIN steps}

\* The render step of row i: what the body links to and cites stays, also when the tables
\* leave that chapter out.
Page(x, i) ==
    LET body == ChapterOf(Num(x, i)).body
    IN  [anchors |-> body.anchors,
         heads   |-> body.heads,
         sidebar |-> Sidebar(x),
         pager   |-> Pager(x, i),
         links   |-> body.links,
         cites   |-> body.cites,
         marks   |-> Remaining(guide.steps, guide.template,
                               [j \in DOMAIN guide.steps |->
                                   IF guide.steps[j] = "CHAPTER_BODY" THEN body.marks ELSE {}])]

\* The render step of index.html
Index(x) == [cards |-> [i \in 1..Count(x) |-> <<Num(x, i)>>], sidebar |-> Sidebar(x)]

-----------------------------------------------------------------------------
(* The author and the builds *)

Revise ==
    /\ edition' \in ({0} \cup guide.spares) \ {edition}
    /\ whole' = FALSE
    /\ UNCHANGED <<guide, loaded, at, file, listed>>

StartBuild ==
    /\ loaded = None
    /\ loaded' = edition
    /\ at' = 1
    /\ whole' = FALSE
    /\ UNCHANGED <<guide, edition, file, listed>>

Running == loaded # None
AtChapter == Running /\ at <= Count(loaded)
AtIndex == Running /\ at = Count(loaded) + 1
Target == Num(loaded, at)

\* open(..., "w") truncates what was there
OpenPage ==
    /\ AtChapter
    /\ file[Target] # Empty
    /\ file' = [file EXCEPT ![Target] = Empty]
    /\ UNCHANGED <<guide, edition, loaded, at, whole, listed>>

WritePage ==
    /\ AtChapter
    /\ file[Target] = Empty
    /\ file' = [file EXCEPT ![Target] = loaded]
    /\ at' = at + 1
    /\ UNCHANGED <<guide, edition, loaded, whole, listed>>

\* Mutant: the index is written before the chapters.
OpenIndexEarly ==
    /\ Running
    /\ file' = [file EXCEPT ![0] = loaded]
    /\ UNCHANGED <<guide, edition, loaded, at, whole, listed>>

OpenIndex ==
    /\ AtIndex
    /\ file[0] # Empty
    /\ file' = [file EXCEPT ![0] = Empty]
    /\ UNCHANGED <<guide, edition, loaded, at, whole, listed>>

WriteIndex ==
    /\ AtIndex
    /\ file[0] = Empty
    /\ file' = [file EXCEPT ![0] = loaded]
    /\ loaded' = None /\ at' = 1
    /\ whole' = (loaded = edition)
    /\ UNCHANGED <<guide, edition, listed>>

\* Mutant: a build that died leaves its place for the next.
BuildDiesThere ==
    /\ Running
    /\ loaded' = None
    /\ UNCHANGED <<guide, edition, at, file, whole, listed>>

\* The build is interrupted, or an exception ends it.
BuildDies ==
    /\ Running
    /\ loaded' = None /\ at' = 1
    /\ UNCHANGED <<guide, edition, file, whole, listed>>

-----------------------------------------------------------------------------
(* The server *)

\* _doc_meta: version badge and kind, as far as index.html has them
DocMeta == IF file[0] = Empty THEN [version |-> None, kind |-> "internal"]
           ELSE [version |-> file[0], kind |-> guide.kind]

\* scan_docs: a directory is a topic when it has an index.html
ScanDocs ==
    /\ listed' = IF file[0] = None THEN Unlisted ELSE DocMeta
    /\ listed' # listed
    /\ UNCHANGED <<guide, edition, loaded, at, file, whole>>

Next ==
    \/ Revise \/ StartBuild
    \/ OpenPage \/ WritePage \/ OpenIndex \/ WriteIndex \/ BuildDies
    \/ ScanDocs

Spec == Init /\ [][Next]_vars

-----------------------------------------------------------------------------
(* What the authors of a guide owe it; MCDocGuides says that the guides of  *)
(* the repository have it.                                                  *)

\* Each chapter or section a body links to or cites is one that the guide has.
TargetsThere(g) ==
    \A c \in DOMAIN g.chapters :
        \A t \in g.chapters[c].body.links \cup g.chapters[c].body.cites :
            /\ t[1] \in DOMAIN g.chapters
            /\ t = <<t[1]>> \/ t \in g.chapters[t[1]].body.anchors

\* Each mark of the template is replaced, and each one in a body after the body is put in.
MarksReplaced(g) ==
    /\ \A m \in g.template : \E j \in DOMAIN g.steps : g.steps[j] = m
    /\ \A c \in DOMAIN g.chapters, j \in DOMAIN g.steps :
          g.steps[j] = "CHAPTER_BODY" =>
              \A m \in g.chapters[c].body.marks : \E l \in (j + 1)..Len(g.steps) : g.steps[l] = m

\* The tables announce the sections that the bodies have.
TablesMatch(g) ==
    \A c \in DOMAIN g.chapters : g.chapters[c].sections = g.chapters[c].body.heads

-----------------------------------------------------------------------------
\* Type invariant.
TypeOK ==
    /\ guide \in Guides
    /\ edition \in 0..All /\ loaded \in (0..All) \cup {None}
    /\ at \in 1..(IF Running THEN Count(loaded) + 1 ELSE 1)
    /\ file \in [0..All -> (0..All) \cup {None, Empty}]
    /\ whole \in BOOLEAN
    /\ listed.version \in (0..All) \cup {None}

\* Every chapter that the index announces of a topic the front page shows with a version
\* has a page, also while a build runs (which may have emptied it for a moment), and
\* after builds that were interrupted: build() writes index.html last and removes no page.
ListedHasPages ==
    listed.version # None =>
        \A i \in 1..Count(listed.version) : file[Num(listed.version, i)] # None

Rows == 1..Count(edition)

\* The page on disk of row i of the tables
OnDisk(i) == Page(file[Num(edition, i)], i)

Pages == {<<Num(edition, i)>> : i \in Rows}
Anchors == UNION {OnDisk(i).anchors : i \in Rows}

\* The tables and the bodies go together: not so where the position is the number and a
\* chapter before the last was left out of the tables alone.
Aligned == \A i \in Rows : Row(edition, i) = Num(edition, i)

\* After a build of the current tables the cards and the pagers lead to pages of this
\* edition, whatever editions the pages beside them are of; what a body links to or cites
\* of a chapter that has a page is in that page (a chapter the tables leave out has none,
\* or one of an earlier build, and the bodies still name it); the sidebar of each page has
\* per chapter the headings of its page, in their order (tables and bodies are written
\* apart), if tables and bodies go together; and no mark of a template is left.
LinksLead ==
    whole =>
        /\ file[0] = edition
        /\ \A i \in Rows :
              /\ file[Num(edition, i)] = edition
              /\ Index(file[0]).cards[i] \in Pages
              /\ OnDisk(i).pager.prev \cup OnDisk(i).pager.next \subseteq Pages
              /\ \A t \in OnDisk(i).links \cup OnDisk(i).cites :
                    <<t[1]>> \in Pages => t \in Pages \cup Anchors
              /\ Aligned => \A j \in Rows :
                    OnDisk(i).sidebar[j] = [page |-> <<Num(edition, j)>>, sections |-> OnDisk(j).heads]
              /\ OnDisk(i).marks = {}
=============================================================================
