-------------------------- MODULE DocGuides_proofs --------------------------
(***************************************************************************)
(* What the front page lists has its pages, for every set of guides: the   *)
(* index is opened when every chapter of its edition has been written, and *)
(* nothing takes a page away. And when a build has run to its end, what is *)
(* on disk leads to pages of this build, for every guide whose tables and  *)
(* texts agree.                                                            *)
(***************************************************************************)
EXTENDS DocGuides, TLAPS

\* The rows of an edition have numbers of their own, and the guide has these chapters.
LEMMA Numbers ==
    ASSUME guide \in Guides, NEW x \in 0..All
    PROVE  /\ All \in Nat \ {0} /\ Count(x) \in 0..All
           /\ \A i \in 1..Count(x) : Num(x, i) \in 1..All
           /\ \A i, j \in 1..Count(x) : i # j => Num(x, i) # Num(x, j)
<1>1. All \in Nat \ {0}
    BY GuidesAssumption DEF All
<1> QED
    BY <1>1 DEF Count, Num, Row

\* A build has written the pages it is past.
PassedPages == Running => \A i \in 1..(at - 1) : file[Num(loaded, i)] # None

\* The index that is there announces pages that are there.
IndexHasPages ==
    file[0] \in Nat => \A i \in 1..Count(file[0]) : file[Num(file[0], i)] # None

IInv == TypeOK /\ PassedPages /\ IndexHasPages /\ ListedHasPages

\* At first nothing is built and nothing listed.
LEMMA InitIInv == Init => IInv
<1> SUFFICES ASSUME Init PROVE IInv
    OBVIOUS
<1>1. All \in Nat \ {0}
    BY GuidesAssumption DEF Init, All
<1>2. file[0] \notin Nat /\ ~Running
    BY <1>1, GuidesAssumption DEF Init, Running
<1>3. TypeOK
  <2>1. file \in [0..All -> (0..All) \cup {None, Empty}]
      BY DEF Init
  <2>2. edition \in 0..All /\ loaded \in (0..All) \cup {None} /\ at = 1
      BY <1>1 DEF Init
  <2>3. at \in 1..(IF Running THEN Count(loaded) + 1 ELSE 1)
      BY <1>2, <2>2
  <2>4. guide \in Guides /\ whole \in BOOLEAN /\ listed.version \in (0..All) \cup {None}
      BY DEF Init, Unlisted
  <2> QED
      BY <2>1, <2>2, <2>3, <2>4 DEF TypeOK
<1> QED
    BY <1>2, <1>3 DEF Init, IInv, PassedPages, IndexHasPages, ListedHasPages, Unlisted

\* The guide stays, and with it the numbers of every edition: what holds of them after
\* the step.
LEMMA SameNumbers ==
    ASSUME guide' = guide
    PROVE  /\ All' = All
           /\ IndexHasPages' <=> (file'[0] \in Nat =>
                 \A i \in 1..Count(file'[0]) : file'[Num(file'[0], i)] # None)
           /\ ListedHasPages' <=> (listed'.version # None =>
                 \A i \in 1..Count(listed'.version) : file'[Num(listed'.version, i)] # None)
           /\ PassedPages' <=> (loaded' # None =>
                 \A i \in 1..(at' - 1) : file'[Num(loaded', i)] # None)
           /\ TypeOK' <=>
                 /\ guide \in Guides
                 /\ edition' \in 0..All /\ loaded' \in (0..All) \cup {None}
                 /\ at' \in 1..(IF loaded' # None THEN Count(loaded') + 1 ELSE 1)
                 /\ file' \in [0..All -> (0..All) \cup {None, Empty}]
                 /\ whole' \in BOOLEAN
                 /\ listed'.version \in (0..All) \cup {None}
<1>1. All' = All
    BY DEF All
<1>2. IndexHasPages' <=> (file'[0] \in Nat =>
          \A i \in 1..Count(file'[0]) : file'[Num(file'[0], i)] # None)
    BY DEF IndexHasPages, All, Count, Num, Row
<1>3. ListedHasPages' <=> (listed'.version # None =>
          \A i \in 1..Count(listed'.version) : file'[Num(listed'.version, i)] # None)
    BY DEF ListedHasPages, All, Count, Num, Row
<1>4. PassedPages' <=> (loaded' # None => \A i \in 1..(at' - 1) : file'[Num(loaded', i)] # None)
    BY DEF PassedPages, Running, All, Num, Row
<1>5. TypeOK' <=>
          /\ guide \in Guides
          /\ edition' \in 0..All /\ loaded' \in (0..All) \cup {None}
          /\ at' \in 1..(IF loaded' # None THEN Count(loaded') + 1 ELSE 1)
          /\ file' \in [0..All -> (0..All) \cup {None, Empty}]
          /\ whole' \in BOOLEAN
          /\ listed'.version \in (0..All) \cup {None}
    BY <1>1 DEF TypeOK, Running, Count, All
<1> QED
    BY <1>1, <1>2, <1>3, <1>4, <1>5

\* A step that takes no page away and announces nothing keeps what was announced.
LEMMA StepKeepsPages ==
    ASSUME TypeOK, guide' = guide, file'[0] = file[0] \/ file'[0] = Empty,
           \A c \in 1..All : file[c] # None => file'[c] # None
    PROVE  /\ IndexHasPages => IndexHasPages'
           /\ listed' = listed /\ ListedHasPages => ListedHasPages'
<1>1. \A x \in 0..All : \A i \in 1..Count(x) : Num(x, i) \in 1..All
    BY Numbers DEF TypeOK
<1>2. ASSUME IndexHasPages PROVE IndexHasPages'
  <2> SUFFICES ASSUME file'[0] \in Nat, NEW i \in 1..Count(file'[0])
               PROVE  file'[Num(file'[0], i)] # None
      BY SameNumbers
  <2>1. file'[0] = file[0] /\ file[0] \in 0..All
    <3>1. All \in Nat
        BY Numbers DEF TypeOK
    <3> QED
        BY <3>1, GuidesAssumption DEF TypeOK
  <2> QED
      BY <1>1, <1>2, <2>1 DEF IndexHasPages
<1>3. ASSUME listed' = listed, ListedHasPages PROVE ListedHasPages'
  <2> SUFFICES ASSUME listed.version # None, NEW i \in 1..Count(listed.version)
               PROVE  file'[Num(listed.version, i)] # None
      BY <1>3, SameNumbers
  <2> QED
      BY <1>1, <1>3 DEF ListedHasPages, TypeOK
<1> QED
    BY <1>2, <1>3

\* Where a running build writes.
LEMMA TargetThere ==
    ASSUME TypeOK, AtChapter
    PROVE  /\ Target \in 1..All /\ loaded \in 0..All /\ at \in 1..Count(loaded)
           /\ \A i \in 1..(at - 1) : Num(loaded, i) \in 1..All /\ Num(loaded, i) # Target
<1>1. loaded \in 0..All /\ loaded # None /\ at \in 1..Count(loaded)
    BY Numbers DEF TypeOK, AtChapter, Running
<1>2. Count(loaded) \in Nat /\ \A i \in 1..(at - 1) : i \in 1..Count(loaded) /\ i # at
    BY <1>1, Numbers DEF TypeOK
<1> QED
    BY <1>1, <1>2, Numbers DEF TypeOK, Target

\* Every step of the author, of a build and of the server keeps it.
LEMMA StepIInv == IInv /\ [Next]_vars => IInv'
<1> SUFFICES ASSUME IInv, [Next]_vars PROVE IInv'
    OBVIOUS
<1> USE DEF IInv
<1>0. All \in Nat \ {0} /\ guide' = guide
  <2>1. guide' = guide
      BY DEF Next, vars, Revise, StartBuild, OpenPage, WritePage, OpenIndex, WriteIndex, BuildDies, ScanDocs
  <2> QED
      BY <2>1, Numbers DEF TypeOK
<1>1. SUFFICES TypeOK' /\ PassedPages' /\ IndexHasPages' /\ ListedHasPages'
    OBVIOUS
<1>2. CASE Revise
  <2>1. edition' \in 0..All
      BY <1>0, <1>2, GuidesAssumption DEF Revise, TypeOK, All
  <2>2. IndexHasPages' /\ ListedHasPages'
      BY <1>0, <1>2, StepKeepsPages DEF Revise
  <2>3. TypeOK'
      BY <1>0, <1>2, <2>1, SameNumbers DEF Revise, TypeOK, Running
  <2>4. PassedPages'
      BY <1>0, <1>2, SameNumbers DEF Revise, PassedPages, Running
  <2> QED
      BY <2>2, <2>3, <2>4
<1>3. CASE StartBuild
  <2>1. loaded' \in 0..All /\ at' = 1 /\ Count(loaded') \in Nat
    <3>1. loaded' = edition /\ edition \in 0..All /\ at' = 1
        BY <1>3 DEF StartBuild, TypeOK
    <3>2. Count(edition) \in 0..All
        BY Numbers DEF TypeOK
    <3> QED
        BY <1>0, <3>1, <3>2
  <2>2. IndexHasPages' /\ ListedHasPages'
      BY <1>0, <1>3, StepKeepsPages DEF StartBuild
  <2>3. TypeOK'
    <3>1. at' \in 1..(IF loaded' # None THEN Count(loaded') + 1 ELSE 1)
        BY <2>1
    <3>2. whole' \in BOOLEAN /\ edition' = edition /\ file' = file /\ listed' = listed
        BY <1>3 DEF StartBuild
    <3> QED
        BY <1>0, <2>1, <3>1, <3>2, SameNumbers DEF TypeOK
  <2>4. PassedPages'
      BY <1>0, <2>1, SameNumbers
  <2> QED
      BY <2>2, <2>3, <2>4
<1>4. CASE OpenPage
  <2>1. Target \in 1..All /\ file' = [file EXCEPT ![Target] = Empty]
        /\ \A i \in 1..(at - 1) : Num(loaded, i) \in 1..All /\ Num(loaded, i) # Target
      BY <1>4, TargetThere DEF OpenPage
  <2>2. file'[0] = file[0] /\ \A c \in 1..All : file[c] # None => file'[c] # None
      BY <1>0, <2>1, GuidesAssumption DEF TypeOK
  <2>3. TypeOK'
      BY <1>0, <1>4, <2>1, SameNumbers DEF OpenPage, TypeOK, Running
  <2>4. PassedPages'
      BY <1>0, <1>4, <2>1, <2>2, SameNumbers DEF OpenPage, PassedPages, Running
  <2> QED
      BY <1>0, <1>4, <2>2, <2>3, <2>4, StepKeepsPages DEF OpenPage
<1>5. CASE WritePage
  <2>1. /\ Target \in 1..All /\ loaded \in 0..All /\ at \in 1..Count(loaded)
        /\ file' = [file EXCEPT ![Target] = loaded] /\ at' = at + 1 /\ loaded' = loaded
        /\ \A i \in 1..(at - 1) : Num(loaded, i) \in 1..All /\ Num(loaded, i) # Target
        /\ loaded # None /\ Count(loaded) \in Nat
    <3>1. AtChapter
        BY <1>5 DEF WritePage
    <3>2. /\ Target \in 1..All /\ loaded \in 0..All /\ at \in 1..Count(loaded)
          /\ \A i \in 1..(at - 1) : Num(loaded, i) \in 1..All /\ Num(loaded, i) # Target
        BY <3>1, TargetThere
    <3>3. Count(loaded) \in Nat
        BY <3>2, Numbers DEF TypeOK
    <3>4. loaded # None
        BY <3>1 DEF AtChapter, Running
    <3> QED
        BY <1>5, <3>2, <3>3, <3>4 DEF WritePage
  <2>2. /\ file'[0] = file[0] /\ file'[Target] # None
        /\ \A c \in 1..All : file[c] # None => file'[c] # None
      BY <1>0, <2>1, GuidesAssumption DEF TypeOK
  <2>3. TypeOK'
      BY <1>0, <1>5, <2>1, SameNumbers DEF WritePage, TypeOK
  <2>4. PassedPages'
    <3>1. \A i \in 1..at : i = at \/ i \in 1..(at - 1)
        BY <2>1
    <3>2. \A i \in 1..at : file'[Num(loaded, i)] # None
        BY <2>1, <2>2, <3>1 DEF PassedPages, Running, Target
    <3> QED
        BY <1>0, <2>1, <3>2, SameNumbers
  <2> QED
      BY <1>0, <1>5, <2>2, <2>3, <2>4, StepKeepsPages DEF WritePage
<1>6. CASE OpenIndex
  <2>1. file'[0] = Empty /\ \A c \in 1..All : file'[c] = file[c]
      BY <1>0, <1>6 DEF OpenIndex, TypeOK
  <2>2. TypeOK'
      BY <1>0, <1>6, SameNumbers DEF OpenIndex, TypeOK, Running
  <2>3. PassedPages'
    <3>1. loaded \in 0..All /\ at = Count(loaded) + 1 /\ Count(loaded) \in Nat
        BY <1>6, Numbers DEF OpenIndex, AtIndex, Running, TypeOK
    <3>2. \A i \in 1..(at - 1) : Num(loaded, i) \in 1..All
        BY <3>1, Numbers DEF TypeOK
    <3> QED
        BY <1>0, <1>6, <2>1, <3>2, SameNumbers DEF OpenIndex, PassedPages, Running
  <2> QED
      BY <1>0, <1>6, <2>1, <2>2, <2>3, StepKeepsPages DEF OpenIndex
<1>7. CASE WriteIndex
  <2>1. loaded \in 0..All /\ at - 1 = Count(loaded) /\ Count(loaded) \in Nat /\ loaded # None
      BY <1>7, Numbers DEF WriteIndex, AtIndex, Running, TypeOK
  <2>2. file' = [file EXCEPT ![0] = loaded] /\ loaded' = None /\ at' = 1 /\ listed' = listed
      BY <1>7 DEF WriteIndex
  <2>3. file'[0] = loaded /\ \A c \in 1..All : file'[c] = file[c]
      BY <1>0, <2>2 DEF TypeOK
  <2>4. TypeOK'
      BY <1>0, <1>7, <2>1, <2>2, SameNumbers DEF WriteIndex, TypeOK
  <2>5. PassedPages'
      BY <1>0, <2>2, SameNumbers
  <2>6. \A x \in 0..All : \A i \in 1..Count(x) : Num(x, i) \in 1..All
      BY Numbers DEF TypeOK
  <2>7. IndexHasPages'
      BY <1>0, <2>1, <2>3, <2>6, SameNumbers DEF PassedPages, Running
  <2>8. ListedHasPages'
      BY <1>0, <2>2, <2>3, <2>6, SameNumbers DEF ListedHasPages, TypeOK
  <2> QED
      BY <2>4, <2>5, <2>7, <2>8
<1>8. CASE BuildDies
  <2>1. loaded' = None /\ at' = 1
      BY <1>8 DEF BuildDies
  <2>2. TypeOK'
      BY <1>0, <1>8, <2>1, SameNumbers DEF BuildDies, TypeOK
  <2>3. PassedPages'
      BY <1>0, <2>1, SameNumbers
  <2> QED
      BY <1>0, <1>8, <2>2, <2>3, StepKeepsPages DEF BuildDies
<1>9. CASE ScanDocs
  <2>1. /\ listed'.version \in (0..All) \cup {None}
        /\ listed'.version # None => listed'.version = file[0] /\ file[0] \in 0..All
      BY <1>0, <1>9, GuidesAssumption DEF ScanDocs, DocMeta, Unlisted, TypeOK
  <2>2. TypeOK'
      BY <1>0, <1>9, <2>1, SameNumbers DEF ScanDocs, TypeOK, Running
  <2>3. PassedPages'
      BY <1>0, <1>9, SameNumbers DEF ScanDocs, PassedPages, Running
  <2>4. IndexHasPages'
      BY <1>0, <1>9, StepKeepsPages DEF ScanDocs
  <2>5. ListedHasPages'
      BY <1>0, <1>9, <2>1, SameNumbers DEF ScanDocs, IndexHasPages
  <2> QED
      BY <2>2, <2>3, <2>4, <2>5
<1>10. CASE UNCHANGED vars
  <2>1. TypeOK' /\ PassedPages'
      BY <1>0, <1>10, SameNumbers DEF vars, TypeOK, PassedPages, Running
  <2> QED
      BY <1>0, <1>10, <2>1, StepKeepsPages DEF vars
<1> QED
    BY <1>2, <1>3, <1>4, <1>5, <1>6, <1>7, <1>8, <1>9, <1>10 DEF Next

\* Whatever guides there are, however often they are revised and built and wherever a
\* build is interrupted, every chapter of a listed topic has a page.
THEOREM ListedGuidesHavePages == Spec => []ListedHasPages
<1>1. IInv => ListedHasPages
    BY DEF IInv
<1> QED
    BY InitIInv, StepIInv, <1>1, PTL DEF Spec

\* The variables keep their types.
THEOREM GuidesTypeCorrect == Spec => []TypeOK
<1>1. IInv => TypeOK
    BY DEF IInv
<1> QED
    BY InitIInv, StepIInv, <1>1, PTL DEF Spec
-----------------------------------------------------------------------------
\* A build has written the pages it is past from the tables it read.
PassedOfEdition == Running => \A i \in 1..(at - 1) : file[Num(loaded, i)] = loaded

\* A build that ran to its end left the pages of one edition, and nothing has begun since.
WholeOfEdition ==
    whole => /\ loaded = None /\ file[0] = edition
             /\ \A i \in 1..Count(edition) : file[Num(edition, i)] = edition

WholeInv == TypeOK /\ PassedOfEdition /\ WholeOfEdition

LEMMA WholeInit == Init => WholeInv
<1> SUFFICES ASSUME Init PROVE WholeInv
    OBVIOUS
<1>1. TypeOK
    BY InitIInv DEF IInv
<1> QED
    BY <1>1 DEF Init, WholeInv, PassedOfEdition, WholeOfEdition, Running

\* What these say after a step, which leaves the guide as it is.
LEMMA SameRows ==
    ASSUME guide' = guide
    PROVE  /\ PassedOfEdition' <=> (loaded' # None =>
                 \A i \in 1..(at' - 1) : file'[Num(loaded', i)] = loaded')
           /\ WholeOfEdition' <=> (whole' =>
                 /\ loaded' = None /\ file'[0] = edition'
                 /\ \A i \in 1..Count(edition') : file'[Num(edition', i)] = edition')
<1>1. PassedOfEdition' <=> (loaded' # None =>
          \A i \in 1..(at' - 1) : file'[Num(loaded', i)] = loaded')
    BY DEF PassedOfEdition, Running, All, Num, Row
<1>2. WholeOfEdition' <=> (whole' =>
          /\ loaded' = None /\ file'[0] = edition'
          /\ \A i \in 1..Count(edition') : file'[Num(edition', i)] = edition')
    BY DEF WholeOfEdition, All, Count, Num, Row
<1> QED
    BY <1>1, <1>2

\* Every step of the author, of a build and of the server keeps it.
LEMMA WholeStep == IInv /\ WholeInv /\ [Next]_vars => WholeInv'
<1> SUFFICES ASSUME IInv, WholeInv, [Next]_vars PROVE WholeInv'
    OBVIOUS
<1>0. TypeOK /\ TypeOK' /\ guide' = guide
  <2>1. guide' = guide
      BY DEF Next, vars, Revise, StartBuild, OpenPage, WritePage, OpenIndex, WriteIndex, BuildDies, ScanDocs
  <2> QED
      BY <2>1, StepIInv DEF IInv
<1> SUFFICES PassedOfEdition' /\ WholeOfEdition'
    BY <1>0 DEF WholeInv
<1>1. All \in Nat \ {0}
    BY <1>0, Numbers DEF TypeOK
<1>2. CASE Revise
    BY <1>0, <1>2, SameRows DEF Revise, WholeInv, PassedOfEdition, Running
<1>3. CASE StartBuild
  <2>1. at' = 1 /\ whole' = FALSE
      BY <1>3 DEF StartBuild
  <2> QED
      BY <1>0, <2>1, SameRows
<1>4. CASE OpenPage
  <2>1. /\ Target \in 1..All /\ loaded # None
        /\ \A i \in 1..(at - 1) : Num(loaded, i) \in 1..All /\ Num(loaded, i) # Target
      BY <1>0, <1>4, TargetThere DEF OpenPage, AtChapter, Running
  <2>2. file' = [file EXCEPT ![Target] = Empty] /\ loaded' = loaded /\ at' = at /\ whole' = whole
      BY <1>4 DEF OpenPage
  <2>3. \A i \in 1..(at - 1) : file'[Num(loaded, i)] = loaded
      BY <1>0, <2>1, <2>2 DEF TypeOK, WholeInv, PassedOfEdition, Running
  <2> QED
      BY <1>0, <2>1, <2>2, <2>3, SameRows DEF WholeInv, WholeOfEdition
<1>5. CASE WritePage
  <2>1. /\ Target \in 1..All /\ loaded # None /\ at \in 1..Count(loaded) /\ loaded \in 0..All
        /\ \A i \in 1..(at - 1) : Num(loaded, i) \in 1..All /\ Num(loaded, i) # Target
      BY <1>0, <1>5, TargetThere DEF WritePage, AtChapter, Running
  <2>2. file' = [file EXCEPT ![Target] = loaded] /\ loaded' = loaded /\ at' = at + 1 /\ whole' = whole
      BY <1>5 DEF WritePage
  <2>3. \A i \in 1..(at - 1) : file'[Num(loaded, i)] = loaded
      BY <1>0, <2>1, <2>2 DEF TypeOK, WholeInv, PassedOfEdition, Running
  <2>4. file'[Num(loaded, at)] = loaded
      BY <1>0, <1>1, <2>1, <2>2 DEF TypeOK, Target
  <2>5. Count(loaded) \in Nat
      BY <1>0, <2>1, Numbers DEF TypeOK
  <2>6. \A i \in 1..(at' - 1) : i = at \/ i \in 1..(at - 1)
      BY <2>1, <2>2, <2>5
  <2> QED
      BY <1>0, <2>1, <2>2, <2>3, <2>4, <2>6, SameRows DEF WholeInv, WholeOfEdition
<1>6. CASE OpenIndex
  <2>1. /\ loaded \in 0..All /\ loaded # None /\ at = Count(loaded) + 1
      BY <1>0, <1>6 DEF OpenIndex, AtIndex, Running, TypeOK
  <2>2. Count(loaded) \in Nat /\ \A i \in 1..(at - 1) : Num(loaded, i) \in 1..All
      BY <1>0, <2>1, Numbers DEF TypeOK
  <2>3. file' = [file EXCEPT ![0] = Empty] /\ loaded' = loaded /\ at' = at /\ whole' = whole
      BY <1>6 DEF OpenIndex
  <2>4. \A i \in 1..(at - 1) : file'[Num(loaded, i)] = loaded
      BY <1>0, <1>1, <2>1, <2>2, <2>3 DEF TypeOK, WholeInv, PassedOfEdition, Running
  <2> QED
      BY <1>0, <2>1, <2>3, <2>4, SameRows DEF WholeInv, WholeOfEdition
<1>7. CASE WriteIndex
  <2>1. /\ loaded \in 0..All /\ loaded # None /\ at = Count(loaded) + 1
      BY <1>0, <1>7 DEF WriteIndex, AtIndex, Running, TypeOK
  <2>2. /\ Count(loaded) \in Nat /\ at - 1 = Count(loaded)
        /\ \A i \in 1..Count(loaded) : Num(loaded, i) \in 1..All
    <3>1. Count(loaded) \in Nat /\ \A i \in 1..Count(loaded) : Num(loaded, i) \in 1..All
        BY <1>0, <2>1, Numbers DEF TypeOK
    <3> QED
        BY <2>1, <3>1
  <2>3. /\ file' = [file EXCEPT ![0] = loaded] /\ loaded' = None
        /\ whole' = (loaded = edition) /\ edition' = edition
      BY <1>7 DEF WriteIndex
  <2>4. file'[0] = loaded /\ \A i \in 1..Count(loaded) : file'[Num(loaded, i)] = loaded
      BY <1>0, <1>1, <2>1, <2>2, <2>3 DEF TypeOK, WholeInv, PassedOfEdition, Running
  <2> QED
      BY <1>0, <2>1, <2>3, <2>4, SameRows
<1>8. CASE BuildDies
  <2>1. loaded # None /\ loaded' = None /\ UNCHANGED <<guide, edition, file, whole, listed>>
      BY <1>8 DEF BuildDies, Running
  <2> QED
      BY <1>0, <2>1, SameRows DEF WholeInv, WholeOfEdition
<1>9. CASE ScanDocs
    BY <1>0, <1>9, SameRows DEF ScanDocs, WholeInv, PassedOfEdition, WholeOfEdition, Running
<1>10. CASE UNCHANGED vars
    BY <1>0, <1>10, SameRows DEF vars, WholeInv, PassedOfEdition, WholeOfEdition, Running
<1> QED
    BY <1>2, <1>3, <1>4, <1>5, <1>6, <1>7, <1>8, <1>9, <1>10 DEF Next

\* What a page has, field by field.
LEMMA PageFields ==
    ASSUME NEW x, NEW i
    PROVE  LET body == ChapterOf(Num(x, i)).body
           IN  /\ Page(x, i).anchors = body.anchors
               /\ Page(x, i).heads = body.heads
               /\ Page(x, i).sidebar = Sidebar(x)
               /\ Page(x, i).pager = Pager(x, i)
               /\ Page(x, i).links = body.links
               /\ Page(x, i).cites = body.cites
               /\ Page(x, i).marks =
                     Remaining(guide.steps, guide.template,
                               [j \in DOMAIN guide.steps |->
                                   IF guide.steps[j] = "CHAPTER_BODY" THEN body.marks ELSE {}])
<1> DEFINE body == ChapterOf(Num(x, i)).body
           left == Remaining(guide.steps, guide.template,
                             [j \in DOMAIN guide.steps |->
                                 IF guide.steps[j] = "CHAPTER_BODY" THEN body.marks ELSE {}])
<1>1. Page(x, i) = [anchors |-> body.anchors, heads |-> body.heads, sidebar |-> Sidebar(x),
                    pager |-> Pager(x, i), links |-> body.links, cites |-> body.cites,
                    marks |-> left]
    BY DEF Page
<1> HIDE DEF body, left
<1>2. /\ Page(x, i).anchors = body.anchors /\ Page(x, i).heads = body.heads
      /\ Page(x, i).sidebar = Sidebar(x) /\ Page(x, i).pager = Pager(x, i)
      /\ Page(x, i).links = body.links /\ Page(x, i).cites = body.cites
      /\ Page(x, i).marks = left
    BY <1>1
<1> QED
    BY <1>2 DEF body, left

\* The pager of a page leads to chapters of its edition.
LEMMA PagerStays ==
    ASSUME NEW x, NEW i
    PROVE  Pager(x, i).prev \cup Pager(x, i).next \subseteq {<<Num(x, j)>> : j \in 1..Count(x)}
<1>1. CASE guide.paging = "number"
  <2>1. /\ Pager(x, i).prev = {<<m>> : m \in {Num(x, i) - 1} \cap Nums(x)}
        /\ Pager(x, i).next = {<<m>> : m \in {Num(x, i) + 1} \cap Nums(x)}
      BY <1>1 DEF Pager, PagerByNumber
  <2> QED
      BY <2>1 DEF Nums
<1>2. CASE guide.paging # "number"
  <2>1. /\ Pager(x, i).prev = {<<Num(x, j)>> : j \in {i - 1} \cap (1..Count(x))}
        /\ Pager(x, i).next = {<<Num(x, j)>> : j \in {i + 1} \cap (1..Count(x))}
      BY <1>2 DEF Pager, PagerByRow
  <2> QED
      BY <2>1
<1> QED
    BY <1>1, <1>2

\* For every set of guides whose bodies name only chapters and headings that the guide has
\* and bring no mark that stays, and whose tables announce the sections of the bodies:
\* after a build of the current tables the cards, the pagers and the sidebars lead to pages
\* and headings of this build, and so does what the bodies say of a chapter that has a page,
\* whichever chapter the tables leave out and whichever builds before were interrupted or
\* read other tables.
THEOREM LinksOfWholeBuildsLead ==
    ASSUME \A g \in Guides : TargetsThere(g) /\ MarksReplaced(g) /\ TablesMatch(g)
    PROVE  Spec => []LinksLead
<1>1. WholeInv => LinksLead
  <2> SUFFICES ASSUME WholeInv, whole
               PROVE  /\ file[0] = edition
                      /\ \A i \in Rows :
                            /\ file[Num(edition, i)] = edition
                            /\ Index(file[0]).cards[i] \in Pages
                            /\ OnDisk(i).pager.prev \cup OnDisk(i).pager.next \subseteq Pages
                            /\ \A t \in OnDisk(i).links \cup OnDisk(i).cites :
                                  <<t[1]>> \in Pages => t \in Pages \cup Anchors
                            /\ Aligned => \A j \in Rows :
                                  OnDisk(i).sidebar[j] = [page |-> <<Num(edition, j)>>,
                                                          sections |-> OnDisk(j).heads]
                            /\ OnDisk(i).marks = {}
      BY DEF LinksLead
  <2>0. file[0] = edition /\ \A i \in Rows : file[Num(edition, i)] = edition
      BY DEF WholeInv, WholeOfEdition, Rows
  <2>1. \A i \in Rows : OnDisk(i) = Page(edition, i)
      BY <2>0 DEF OnDisk
  <2>2. guide \in Guides /\ \A i \in Rows : Num(edition, i) \in DOMAIN guide.chapters
      BY Numbers, GuidesAssumption DEF WholeInv, TypeOK, Rows, All
  <2>3. SUFFICES ASSUME NEW i \in Rows
                 PROVE  /\ Index(edition).cards[i] \in Pages
                        /\ OnDisk(i).pager.prev \cup OnDisk(i).pager.next \subseteq Pages
                        /\ \A t \in OnDisk(i).links \cup OnDisk(i).cites :
                              <<t[1]>> \in Pages => t \in Pages \cup Anchors
                        /\ Aligned => \A j \in Rows :
                              OnDisk(i).sidebar[j] = [page |-> <<Num(edition, j)>>,
                                                      sections |-> OnDisk(j).heads]
                        /\ OnDisk(i).marks = {}
      BY <2>0
  <2> DEFINE body == ChapterOf(Num(edition, i)).body
  <2>4. Index(edition).cards[i] \in Pages
      BY DEF Index, Pages, Rows
  <2>5. OnDisk(i).pager.prev \cup OnDisk(i).pager.next \subseteq Pages
    <3>1. OnDisk(i).pager = Pager(edition, i)
        BY <2>1, PageFields
    <3>2. Pager(edition, i).prev \cup Pager(edition, i).next
              \subseteq {<<Num(edition, j)>> : j \in 1..Count(edition)}
        BY PagerStays
    <3> QED
        BY <3>1, <3>2 DEF Pages, Rows
  <2>6. ASSUME NEW t \in OnDisk(i).links \cup OnDisk(i).cites, <<t[1]>> \in Pages
        PROVE  t \in Pages \cup Anchors
    <3>1. t \in body.links \cup body.cites
        BY <2>1, <2>6, PageFields
    <3>2. t = <<t[1]>> \/ t \in ChapterOf(t[1]).body.anchors
        BY <2>2, <3>1 DEF TargetsThere, ChapterOf
    <3>3. PICK j \in Rows : <<t[1]>> = <<Num(edition, j)>>
        BY <2>6 DEF Pages
    <3>4. t[1] = Num(edition, j)
        BY <3>3
    <3>5. OnDisk(j).anchors = ChapterOf(t[1]).body.anchors
      <4>1. Page(edition, j).anchors = ChapterOf(Num(edition, j)).body.anchors
          BY PageFields
      <4> QED
          BY <2>1, <3>4, <4>1
    <3> QED
        BY <2>6, <3>2, <3>5 DEF Anchors
  <2>7. ASSUME Aligned, NEW j \in Rows
        PROVE  OnDisk(i).sidebar[j] = [page |-> <<Num(edition, j)>>, sections |-> OnDisk(j).heads]
    <3>1. OnDisk(i).sidebar = Sidebar(edition)
        BY <2>1, PageFields
    <3>2. Sidebar(edition)[j] = [page     |-> <<Num(edition, j)>>,
                                 sections |-> ChapterOf(Row(edition, j)).sections]
        BY DEF Sidebar, Rows
    <3>3. Row(edition, j) = Num(edition, j)
        BY <2>7 DEF Aligned
    <3>4. ChapterOf(Num(edition, j)).sections = ChapterOf(Num(edition, j)).body.heads
        BY <2>2 DEF TablesMatch, ChapterOf
    <3>5. OnDisk(j).heads = ChapterOf(Num(edition, j)).body.heads
        BY <2>1, PageFields
    <3> QED
        BY <3>1, <3>2, <3>3, <3>4, <3>5
  <2>8. OnDisk(i).marks = {}
    <3> DEFINE steps == guide.steps
               brings == [j \in DOMAIN steps |-> IF steps[j] = "CHAPTER_BODY" THEN body.marks ELSE {}]
    <3>1. OnDisk(i).marks = Remaining(steps, guide.template, brings)
        BY <2>1, PageFields
    <3>2. \A m \in guide.template : \E j \in DOMAIN steps : steps[j] = m
        BY <2>2 DEF MarksReplaced
    <3>3. \A j \in DOMAIN steps : \A m \in brings[j] : \E l \in (j + 1)..Len(steps) : steps[l] = m
        BY <2>2 DEF MarksReplaced, ChapterOf
    <3> HIDE DEF brings, steps
    <3>4. Remaining(steps, guide.template, brings) = {}
        BY <3>2, <3>3 DEF Remaining
    <3> QED
        BY <3>1, <3>4
  <2> QED
      BY <2>4, <2>5, <2>6, <2>7, <2>8
<1> QED
    BY InitIInv, StepIInv, WholeInit, WholeStep, <1>1, PTL DEF Spec
=============================================================================
