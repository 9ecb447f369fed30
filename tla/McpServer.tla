------------------------------ MODULE McpServer ------------------------------
(***************************************************************************)
(* The MCP server's tools (mcp/mcp-server/src/server.py and db.py) and an  *)
(* agent that calls them, over the tables the ingester is committing to:   *)
(* each query sees what is committed when it runs.  The agent walks        *)
(* through a search page by page, or opens a thread, whose header and      *)
(* whose messages are two queries.                                         *)
(***************************************************************************)
EXTENDS Ingester

CONSTANTS
    Matches,        \* messages the agent's search finds
    Rank,           \* their rank and date, the larger the earlier: equal ones tie
    Length,         \* characters of each body
    MaxPage,        \* 50: more results are never on a page
    Limits,         \* limits the agent asks for
    BodyMax, BodyRecent, BodyMin, BodyShort,   \* 12000, 2000, 200 and 100 characters
    Budget          \* characters of bodies _THREAD_BUDGET leaves room for

ASSUME ReaderAssumption ==
    /\ Matches \subseteq Msgs /\ Rank \in [Matches -> Int] /\ Length \in [Msgs -> Nat]
    /\ MaxPage \in Nat \ {0} /\ Limits \subseteq Int
    /\ {BodyMax, BodyRecent, BodyMin, BodyShort, Budget} \subseteq Nat

VARIABLES
    call,     \* "none", "search" between pages, "thread" between its two queries
    page,     \* the limit and the offset of the next page
    known,    \* history: matching messages that were stored when the search began
    shown,    \* message ids the agent has seen
    header,   \* what get_thread_info returned
    view,     \* the messages of the last get_thread, in order, as the agent gets them
    opened,   \* the answer to the last get_message
    done      \* history: the agent has read all it wanted

readerVars == <<call, page, known, shown, header, view, opened, done>>

NoHeader == [thread |-> NoMsg, count |-> 0, status |-> "discussion"]
Unopened == [id |-> NoMsg, kept |-> 0, truncated |-> FALSE]
FirstPage == [limit |-> 1, offset |-> 0]

ReaderInit ==
    /\ call = "none" /\ page = FirstPage /\ known = {} /\ shown = {}
    /\ header = NoHeader /\ view = <<>> /\ opened = Unopened /\ done = FALSE

-----------------------------------------------------------------------------
(* search_messages *)

\* _clamp_pagination
Clamp(limit, offset) == [limit |-> Max({1, Min({MaxPage, limit})}), offset |-> Max({0, offset})]

Found == Matches \cap Stored(db)

\* ORDER BY rank DESC, sent_at DESC: any order among ties
\* Mutant: the rows come in any order.
Unordered == SetToSeqs(Found)
Orderings == {s \in SetToSeqs(Found) :
                 \A i, j \in DOMAIN s : i < j => Rank[s[i]] >= Rank[s[j]]}

BeginSearch ==
    /\ setting.reader /\ call = "none" /\ ~done
    /\ \E limit \in Limits, offset \in {-1, 0} : page' = Clamp(limit, offset)
    /\ known' = Found
    /\ call' = "search"
    /\ shown' = {}
    /\ UNCHANGED <<header, view, opened, done>>

\* One page; the agent asks for the next from where this one ended.
SearchPage ==
    /\ call = "search"
    /\ \E rows \in Orderings :
          LET results == SubSeq(rows, page.offset + 1, Min({Len(rows), page.offset + page.limit}))
          IN /\ shown' = shown \cup ToSet(results)
             /\ page' = [page EXCEPT !.offset = @ + Len(results)]
             /\ call' = IF results = <<>> THEN "none" ELSE "search"
             /\ done' = (results = <<>>)
    /\ UNCHANGED <<known, header, view, opened>>

-----------------------------------------------------------------------------
(* get_thread *)

\* get_thread_info: of a thread the agent knows from a message
ThreadInfo ==
    /\ setting.reader /\ call = "none" /\ ~done
    /\ \E t \in db.threads :
          header' = [thread |-> t, count |-> Cardinality(InThread(db, t)), status |-> db.status[t]]
    /\ call' = "thread"
    /\ UNCHANGED <<page, known, shown, view, opened, done>>

\* ORDER BY sent_at ASC, messages without a date last: any order among equal dates
Dated(m, n) == Sent[m] # 0 /\ (Sent[n] = 0 \/ Sent[m] < Sent[n])

\* Mutant: messages without a date are left out.
ByDateOnly(S) ==
    {s \in SetToSeqs({m \in S : Sent[m] # 0}) : \A i, j \in DOMAIN s : i < j => ~Dated(s[j], s[i])}

\* get_thread_messages
ByDate(S) == {s \in SetToSeqs(S) : \A i, j \in DOMAIN s : i < j => ~Dated(s[j], s[i])}

Recent(i, total) == i > total - Max({3, total \div 5})
Cut(n, limit) == Min({n, limit})

\* The first rendering, and the second when the first is too long
Rendered(rows) ==
    [i \in DOMAIN rows |->
        LET limit == IF Recent(i, Len(rows)) THEN BodyRecent ELSE BodyMin
        IN [id |-> rows[i], kept |-> Cut(Length[rows[i]], limit), truncated |-> Length[rows[i]] > limit]]
TooLong(rendered) == SumFunction([i \in DOMAIN rendered |-> rendered[i].kept]) > Budget
Shortened(rendered) ==
    [i \in DOMAIN rendered |->
        IF Recent(i, Len(rendered)) THEN rendered[i]
        ELSE [rendered[i] EXCEPT !.kept = Cut(@, BodyShort), !.truncated = TRUE]]

\* A thread without messages is sent with a count of 0.
ThreadMessages ==
    /\ call = "thread"
    /\ \E rows \in ByDate(InThread(db, header.thread)) :
       LET rendered == Rendered(rows)
       IN /\ view' = IF TooLong(rendered) THEN Shortened(rendered) ELSE rendered
          /\ header' = IF rendered = <<>> THEN [header EXCEPT !.count = 0] ELSE header
    /\ call' = "none" /\ done' = TRUE
    /\ UNCHANGED <<page, known, shown, opened>>

-----------------------------------------------------------------------------
(* get_message *)

\* get_message_by_id
MessageRows(m) == IF m \in Stored(db) THEN {m} ELSE {}

\* The agent opens a message that a search has shown it.
OpenMessage ==
    /\ setting.reader /\ call = "none" /\ done
    /\ \E m \in shown :
          opened' = IF MessageRows(m) = {} THEN [Unopened EXCEPT !.truncated = TRUE]
                    ELSE [id |-> m, kept |-> Cut(Length[m], BodyMax), truncated |-> Length[m] > BodyMax]
    /\ opened' # opened
    /\ UNCHANGED <<call, page, known, shown, header, view, done>>

Read == BeginSearch \/ SearchPage \/ ThreadInfo \/ ThreadMessages \/ OpenMessage

ArchiveInit == Init /\ ReaderInit
ArchiveNext == \/ Next /\ UNCHANGED readerVars
               \/ Read /\ UNCHANGED vars
ArchiveSpec == ArchiveInit /\ [][ArchiveNext]_<<vars, readerVars>>

\* The batch starts the ingester every day, and a run that lives gets on.
FairArchiveSpec == ArchiveSpec /\ WF_vars(Run) /\ WF_vars(StartRun)

-----------------------------------------------------------------------------
ArchiveTypeOK ==
    /\ TypeOK
    /\ call \in {"none", "search", "thread"}
    /\ page.limit \in 1..MaxPage /\ page.offset \in Nat
    /\ known \subseteq Matches /\ shown \subseteq Matches

\* A search that starts at the first result and is walked to an empty page shows every
\* message that was found when it began, although the archive grows under it and more
\* may be asked for than a page holds, except one that ties with another: nothing orders
\* those, and a page may repeat one and lose the other.
WalkSkipsNothing ==
    call = "none" /\ done /\ header = NoHeader =>
        \A m \in known \ shown : \E n \in Matches \ {m} : Rank[n] = Rank[m]

\* What an agent is told of a thread or a message is so, although an ingest commits
\* between the two queries: the header, read first, never counts more messages than come; a
\* body that is not whole says so, and the newest three keep BodyRecent characters of
\* theirs, whichever rendering was sent; and the thread_id shown with a message is one
\* get_thread knows ("use get_thread with the thread_id").
AnswersAreTrue ==
    /\ done /\ header # NoHeader => header.count <= Len(view)
    /\ \A i \in DOMAIN view :
        /\ view[i].kept < Length[view[i].id] => view[i].truncated
        /\ i > Len(view) - 3 => view[i].kept = Min({Length[view[i].id], BodyRecent})
    /\ opened # Unopened => opened.id \in shown /\ db.thread[opened.id] \in db.threads
    /\ opened.id # NoMsg /\ opened.kept < Length[opened.id] => opened.truncated
=============================================================================
