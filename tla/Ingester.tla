------------------------------ MODULE Ingester ------------------------------
(***************************************************************************)
(* The mailing-list ingester (mcp/ingester/src/main.py, db.py) against the *)
(* mbox files a download may replace at any time, and PostgreSQL's         *)
(* transactions: a run reads the ingestion log, processes the files that   *)
(* are new or newer than their entry, and may die between any two steps.   *)
(*                                                                         *)
(* `db' is what is committed, `work' what the run's open transaction sees. *)
(* psycopg opens a transaction with the first statement; conn.transaction()*)
(* is a savepoint inside an open one and BEGIN ... COMMIT otherwise.  A    *)
(* statement the server rejects aborts the transaction: what follows is    *)
(* rejected too, COMMIT rolls back without an error, and RELEASE raises.   *)
(* Authors, subjects, dates and bodies are left out.                       *)
(***************************************************************************)
EXTENDS ThreadResolver, Sequences, FiniteSetsExt, SequencesExt

CONSTANTS
    Settings,     \* what the lists hold and what goes wrong: see the operators below
    Carries,      \* how many patches each message carries
    DownloadGap   \* seconds between two downloads of a file

NoFile == 0
NotLogged == -1

Conclusions == {"committed", "withdrawn", "returned"}
Statuses == Conclusions \cup {"patch_proposed", "discussion"}

VARIABLE setting

\* Contents[f]: the message sets file f holds, one download after the other; files are
\* numbered in the order of their names.
Contents == setting.contents
Files == DOMAIN Contents
\* In-Reply-To and first Reference of each message; what its unquoted text concludes,
\* if anything; its date, 0 when parse_date found none
Parent == setting.parent
Ref == setting.ref
Concludes == setting.concludes
Sent == setting.sent
\* What is wrong with each message, in every run: a header decode_header raises on; a
\* statement of it that psycopg refuses to send, so that it never starts (a NUL or a
\* surrogate: of the message, of its id, of a patch); one the server rejects (too long for a
\* tsvector or an index: the message, its id, a patch).
Faults == {"none", "undecodable", "unencodable", "rejected", "nul id", "long id",
           "patch unencodable", "patch rejected"}
With(faults) == {m \in Msgs : setting.fault[m] \in faults}

HasPatch == {m \in Msgs : Carries[m] > 0}
Undecodable == With({"undecodable"})
Unencodable == {m \in Msgs : setting.fault[m] = "unencodable"
                             \/ {m, Parent[m]} \cap With({"nul id"}) # {}}
PatchesCut == HasPatch \cap With({"patch unencodable"})
PatchRejected == HasPatch \cap With({"patch rejected"})
Rejected == {m \in Msgs : setting.fault[m] = "rejected" \/ m \in PatchRejected
                          \/ {m, Parent[m]} \cap With({"long id"}) # {}}
\* ids no thread can have
Unnamable == With({"nul id", "long id"})

ASSUME SettingsAssumption ==
    /\ \A s \in Settings :
          /\ \A f \in DOMAIN s.contents : s.contents[f] \in Seq(SUBSET Msgs)
          /\ \A f \in DOMAIN s.contents : \A v, w \in DOMAIN s.contents[f] :
                v <= w => s.contents[f][v] \subseteq s.contents[f][w]
          /\ s.fault \in [Msgs -> Faults]
          /\ s.parent \in [Msgs -> Msgs \cup {NoMsg}] /\ s.ref \in [Msgs -> Msgs \cup {NoMsg}]
          /\ s.sent \in [Msgs -> Nat] /\ s.concludes \in [Msgs -> Conclusions \cup {"none"}]
          /\ s.crashes \in Nat
    /\ Carries \in [Msgs -> Nat] /\ DownloadGap \in Nat

VARIABLES
    disk,      \* disk[f]: how often f has been downloaded, 0: not there
    db, work,  \* committed tables, and the tables inside the transaction
    tx,        \* state of the connection: "idle", "open", "aborted"
    nested,    \* conn.transaction() is a savepoint
    pc,        \* next step of the run
    pending,   \* files to process, each with its mtime when it was listed
    file,      \* the file being processed
    mtime,     \* its mtime when it was listed
    batch,     \* messages parsed from it
    todo,      \* those not inserted yet
    inserted,  \* insert_batch's count
    affected,  \* threads_seen
    crashes

vars == <<setting, disk, db, work, tx, nested, pc, pending, file, mtime, batch, todo,
          inserted, affected, crashes>>
current == <<file, mtime, batch>>
locals == <<file, mtime, batch, todo, inserted, affected>>

Content(f) == IF disk[f] = 0 THEN {} ELSE Contents[f][disk[f]]
Mtime(f) == disk[f] * DownloadGap

\* log[f]: mtime of the logged version.  thread[m]: the stored message's thread.
\* status[t]: as the column's default or the classifier has it.  patches[m]: rows.
EmptyTables ==
    [log     |-> [f \in Files |-> NotLogged],
     threads |-> {},
     thread  |-> [m \in Msgs |-> NoMsg],
     status  |-> [t \in Msgs |-> "discussion"],
     patches |-> [m \in Msgs |-> 0]]
Stored(d) == {m \in Msgs : d.thread[m] # NoMsg}
InThread(d, t) == {m \in Msgs : d.thread[m] = t}

Init ==
    /\ setting \in Settings
    /\ disk = [f \in Files |-> 0]
    /\ db = EmptyTables /\ work = EmptyTables
    /\ tx = "idle" /\ nested = FALSE
    /\ pc = "off" /\ pending = {}
    /\ file = NoFile /\ mtime = NotLogged
    /\ batch = {} /\ todo = {} /\ inserted = 0 /\ affected = {}
    /\ crashes = 0

\* The process is gone; the server rolls back what it left open.
Exit ==
    /\ work' = db /\ tx' = "idle" /\ nested' = FALSE
    /\ pc' = "off" /\ pending' = {}
    /\ file' = NoFile /\ mtime' = NotLogged
    /\ batch' = {} /\ todo' = {} /\ inserted' = 0 /\ affected' = {}

Forget ==
    /\ file' = NoFile /\ mtime' = NotLogged
    /\ batch' = {} /\ todo' = {} /\ inserted' = 0 /\ affected' = {}

-----------------------------------------------------------------------------
\* download_mbox.sh moves a new version of f into place.
Download(f) ==
    /\ disk[f] < Len(Contents[f])
    /\ disk' = [disk EXCEPT ![f] = disk[f] + 1]
    /\ UNCHANGED <<setting, db, work, tx, nested, pc, pending, locals, crashes>>

\* Mutant: a file in the log is never looked at again.
NeedsWorkOnce(f) == db.log[f] = NotLogged

\* not in the log, or newer than its entry by more than a second
NeedsWork(f) == db.log[f] = NotLogged \/ Mtime(f) > db.log[f] + 1

\* main up to the loop.  get_ingested_files leaves a transaction open: nothing
\* commits after its SELECT.
StartRun ==
    /\ pc = "off"
    /\ \E f \in Files : disk[f] # 0
    /\ pending' = {<<f, Mtime(f)>> : f \in {g \in Files : disk[g] # 0 /\ NeedsWork(g)}}
    /\ tx' = "open"
    /\ pc' = "next"
    /\ UNCHANGED <<setting, disk, db, work, nested, locals, crashes>>

\* for mbox_path, list_name, mtime in pending, by name: parse_mbox, resolve_threads
ParseFile ==
    /\ pc = "next"
    /\ \E next \in pending :
          /\ \A other \in pending : next[1] <= other[1]
          /\ file' = next[1]
          /\ mtime' = next[2]
          /\ pending' = pending \ {next}
          /\ batch' = Content(next[1])
    /\ batch' \cap Undecodable = {}
    /\ pc' = IF batch' = {} THEN "record" ELSE "upsert"
    /\ UNCHANGED <<setting, disk, db, work, tx, nested, todo, inserted, affected, crashes>>

\* parse_mbox catches what it reads, not what it decodes: main ends
ParseRaises ==
    /\ pc = "next"
    /\ \E next \in pending :
          /\ \A other \in pending : next[1] <= other[1]
          /\ Content(next[1]) \cap Undecodable # {}
    /\ Exit
    /\ UNCHANGED <<setting, disk, db, crashes>>

EndRun ==
    /\ pc = "next"
    /\ pending = {}
    /\ Exit
    /\ UNCHANGED <<setting, disk, db, crashes>>

-----------------------------------------------------------------------------
(* insert_batch *)

ThreadOf(m) == FindThreadRoot(m, batch, Parent, Ref)

\* with conn.transaction(): the thread of every message is upserted first
UpsertThreads ==
    /\ pc = "upsert"
    /\ nested' = (tx = "open")
    /\ tx' = "open"
    /\ affected' = {ThreadOf(m) : m \in batch}
    /\ affected' \cap Unnamable = {}
    /\ work' = [work EXCEPT !.threads = @ \cup affected']
    /\ todo' = batch
    /\ inserted' = 0
    /\ pc' = "insert"
    /\ UNCHANGED <<setting, disk, db, pending, current, crashes>>

\* ... outside the try of the messages, and its id is not stripped of NULs: main ends
UpsertRaises ==
    /\ pc = "upsert"
    /\ \E m \in batch : ThreadOf(m) \in Unnamable
    /\ Exit
    /\ UNCHANGED <<setting, disk, db, crashes>>

\* How many of its patches are stored with a new message: each is a statement of its own,
\* and the first that cannot be sent ends them, with the message's row already there.
PatchesSent(m) == IF m \in PatchesCut THEN 0 .. Carries[m] - 1 ELSE {Carries[m]}

\* Mutant: the patches of a message are inserted whether or not it is new.
InsertKnownAddsPatches(m) ==
    /\ pc = "insert" /\ m \in todo
    /\ tx = "open" /\ m \notin Unencodable \cup Rejected
    /\ work.thread[m] # NoMsg
    /\ \E n \in PatchesSent(m) : work' = [work EXCEPT !.patches[m] = @ + n]
    /\ todo' = todo \ {m}
    /\ UNCHANGED <<setting, disk, db, tx, nested, pc, pending, current, inserted, affected, crashes>>

\* Mutant: the patches of a message are counted as messages.
InsertMessageCountsPatches(m) ==
    /\ pc = "insert" /\ m \in todo
    /\ tx = "open" /\ m \notin Unencodable \cup Rejected
    /\ work.thread[m] = NoMsg
    /\ \E n \in PatchesSent(m) :
          /\ work' = [work EXCEPT !.thread[m] = ThreadOf(m), !.patches[m] = @ + n]
          /\ inserted' = inserted + 1 + n
    /\ todo' = todo \ {m}
    /\ UNCHANGED <<setting, disk, db, tx, nested, pc, pending, current, affected, crashes>>

\* INSERT ... ON CONFLICT DO NOTHING, and the patches of a message that is new.  Nothing is
\* committed between these statements, so a crash there is one before or after them.
InsertMessage(m) ==
    /\ pc = "insert" /\ m \in todo
    /\ tx = "open" /\ m \notin Unencodable \cup Rejected
    /\ work.thread[m] = NoMsg
    /\ \E n \in PatchesSent(m) :
          work' = [work EXCEPT !.thread[m] = ThreadOf(m), !.patches[m] = @ + n]
    /\ inserted' = inserted + 1
    /\ todo' = todo \ {m}
    /\ UNCHANGED <<setting, disk, db, tx, nested, pc, pending, current, affected, crashes>>

InsertKnown(m) ==
    /\ pc = "insert" /\ m \in todo
    /\ tx = "open" /\ m \notin Unencodable \cup Rejected
    /\ work.thread[m] # NoMsg
    /\ todo' = todo \ {m}
    /\ UNCHANGED <<setting, disk, db, work, tx, nested, pc, pending, current, inserted,
                   affected, crashes>>

\* except Exception: the error is logged and the loop goes on.  A statement that never
\* reached the server leaves what is there; one the server rejects aborts the transaction,
\* a patch's after its message was counted.
InsertFails(m) ==
    /\ pc = "insert" /\ m \in todo
    /\ tx = "aborted" \/ m \in Unencodable \cup Rejected
    /\ tx' = IF m \in Rejected \ Unencodable THEN "aborted" ELSE tx
    /\ inserted' = inserted + (IF tx = "open" /\ m \in PatchRejected \ Unencodable THEN 1 ELSE 0)
    /\ todo' = todo \ {m}
    /\ UNCHANGED <<setting, disk, db, work, nested, pc, pending, current, affected, crashes>>

\* The with block ends: RELEASE inside the open transaction ...
ReleaseSavepoint ==
    /\ pc = "insert" /\ todo = {} /\ nested /\ tx = "open"
    /\ pc' = "record"
    /\ UNCHANGED <<setting, disk, db, work, tx, nested, pending, locals, crashes>>

\* ... which raises when the transaction is aborted: main ends
ReleaseRaises ==
    /\ pc = "insert" /\ todo = {} /\ nested /\ tx = "aborted"
    /\ Exit
    /\ UNCHANGED <<setting, disk, db, crashes>>

\* ... or COMMIT, which rolls an aborted transaction back and reports no error
CommitBatch ==
    /\ pc = "insert" /\ todo = {} /\ ~nested
    /\ IF tx = "open" THEN db' = work /\ UNCHANGED work
                      ELSE work' = db /\ UNCHANGED db
    /\ tx' = "idle"
    /\ pc' = "record"
    /\ UNCHANGED <<setting, disk, nested, pending, locals, crashes>>

-----------------------------------------------------------------------------
\* Mutant: the log gets the mtime the file has now, not when it was listed.
RecordCurrentMtime ==
    /\ pc = "record"
    /\ db' = [work EXCEPT !.log[file] = Mtime(file)]
    /\ work' = db'
    /\ tx' = "idle" /\ nested' = FALSE
    /\ pc' = IF batch = {} THEN "next" ELSE "classify"
    /\ UNCHANGED <<setting, disk, pending, locals, crashes>>

\* record_ingestion commits; an empty file is done with it, another is classified
RecordIngestion ==
    /\ pc = "record"
    /\ db' = [work EXCEPT !.log[file] = mtime]
    /\ work' = db'
    /\ tx' = "idle" /\ nested' = FALSE
    /\ pc' = IF batch = {} THEN "next" ELSE "classify"
    /\ UNCHANGED <<setting, disk, pending, locals, crashes>>

\* SELECT ... ORDER BY sent_at ASC NULLS FIRST: any order among equal dates
Chronological(S) ==
    {s \in SetToSeqs(S) : \A i, j \in DOMAIN s : i < j => Sent[s[i]] <= Sent[s[j]]}

\* Mutant: the latter half of a thread is rounded the other way, without a minimum.
LatterHalf(total) == (total + 1) \div 2

\* latter_start = max(0, total - max(total // 2, 2))
LatterStart(total) == Max({0, total - Max({total \div 2, 2})})

\* classify_thread: the newest message of the latter half that concludes decides
Classify(bodies, hasPatches) ==
    LET latter == {i \in (LatterStart(Len(bodies)) + 1)..Len(bodies) : Concludes[bodies[i]] # "none"}
    IN IF latter # {} THEN Concludes[bodies[Max(latter)]]
       ELSE IF hasPatches THEN "patch_proposed" ELSE "discussion"

\* What the classifier may make of a thread of tables d
StatusesOf(d, t) ==
    {Classify(bodies, \E m \in InThread(d, t) : d.patches[m] > 0) :
        bodies \in Chronological(InThread(d, t))}

\* The status of the threads of T, each from all its messages
Classified(T) ==
    \E status \in [T -> UNION {StatusesOf(db, t) : t \in T}] :
        /\ \A t \in T : status[t] \in StatusesOf(db, t)
        /\ db' = [db EXCEPT !.status = [t \in Msgs |-> IF t \in T THEN status[t] ELSE @[t]]]

\* Mutant: only the threads whose first message is in the file.
ClassifyOwnThreads ==
    /\ pc = "classify"
    /\ Classified(affected \cap batch)
    /\ work' = db'
    /\ pc' = "next"
    /\ Forget
    /\ UNCHANGED <<setting, disk, tx, nested, pending, crashes>>

\* classify_threads: every affected thread
ClassifyThreads ==
    /\ pc = "classify"
    /\ Classified(affected)
    /\ work' = db'
    /\ pc' = "next"
    /\ Forget
    /\ UNCHANGED <<setting, disk, tx, nested, pending, crashes>>

\* The process or the connection dies.
Crash ==
    /\ pc # "off"
    /\ crashes < setting.crashes
    /\ crashes' = crashes + 1
    /\ Exit
    /\ UNCHANGED <<setting, disk, db>>

Run ==
    \/ ParseFile \/ ParseRaises \/ EndRun \/ UpsertThreads \/ UpsertRaises
    \/ (\E m \in Msgs : InsertMessage(m) \/ InsertKnown(m) \/ InsertFails(m))
    \/ ReleaseSavepoint \/ ReleaseRaises \/ CommitBatch
    \/ RecordIngestion \/ ClassifyThreads

Next == Run \/ StartRun \/ Crash \/ \E f \in Files : Download(f)

Spec == Init /\ [][Next]_vars

\* The batch starts the ingester every day, and a run that lives gets on.
FairSpec == Spec /\ WF_vars(Run) /\ WF_vars(StartRun)

-----------------------------------------------------------------------------
TypeOK ==
    /\ disk \in [Files -> Nat]
    /\ \A d \in {db, work} :
          /\ d.log \in [Files -> Nat \cup {NotLogged}]
          /\ d.threads \subseteq Msgs
          /\ d.thread \in [Msgs -> Msgs \cup {NoMsg}]
          /\ d.status \in [Msgs -> Statuses]
          /\ d.patches \in [Msgs -> Nat]
    /\ tx \in {"idle", "open", "aborted"} /\ nested \in BOOLEAN
    /\ pc \in {"off", "next", "upsert", "insert", "record", "classify"}
    /\ file \in Files \cup {NoFile}
    /\ batch \subseteq Msgs /\ todo \subseteq batch /\ affected \subseteq Msgs
    /\ inserted \in 0 .. Cardinality(batch)

\* A file the log calls up to date is in the archive: whatever downloads, crashes and
\* reruns came between, a message is skipped only because it cannot be stored.
RecordedIsStored ==
    \A f \in Files :
        disk[f] # 0 /\ ~NeedsWork(f) =>
            Content(f) \ (Unencodable \cup Rejected) \subseteq Stored(db)

\* The part of it the code keeps: a message the server rejects may cost its own file
\* (see RecordedIsStored), never another file's messages.
GoodFilesStored ==
    \A f \in Files :
        disk[f] # 0 /\ ~NeedsWork(f) /\ Content(f) \cap Rejected = {} =>
            Content(f) \ Unencodable \subseteq Stored(db)

\* Every stored message hangs in a thread that exists (the foreign key holds); its patches
\* are stored with it and each once, however often and in however many files it comes, and
\* only a patch that cannot be sent costs itself and those after it; and insert_batch counts
\* messages that are there ("count of newly inserted messages"), unless the server rolled
\* them all back.
RowsConsistent ==
    /\ \A d \in {db, work}, m \in Msgs :
          /\ m \in Stored(d) => d.thread[m] \in d.threads
          /\ d.patches[m] <= IF m \in Stored(d) THEN Carries[m] ELSE 0
          /\ m \in Stored(d) \ PatchesCut => d.patches[m] = Carries[m]
    /\ pc = "record" /\ batch \cap Rejected = {} => inserted <= Cardinality(batch \cap Stored(work))

\* A stored message stays, in the thread it was first given ("idempotent re-runs").
NeverRethreaded ==
    [][\A m \in Msgs : m \in Stored(db) => db'.thread[m] = db.thread[m]]_vars

Settled == pc = "off" /\ crashes = 0 /\ \A f \in Files : disk[f] # 0 => ~NeedsWork(f)

\* Between runs, once every file is up to date and if no run died, the status of a
\* thread is what the classifier makes of all the messages and patches it has, whichever
\* files and runs brought them.
StatusCurrent == Settled => \A t \in db.threads : db.status[t] \in StatusesOf(db, t)

\* Then too, a conclusion in one of the two newest messages of a thread shows in its
\* status, and without any conclusion, when all its patches could be sent, the status tells
\* only whether there are any ("focus on the latter half of the thread").
ConclusionsShow ==
    Settled => \A t \in db.threads :
        LET messages == InThread(db, t)
        IN /\ (\E m \in messages : /\ Concludes[m] # "none"
                                   /\ Cardinality({n \in messages : Sent[n] >= Sent[m]}) <= 2)
                 => db.status[t] \in Conclusions
           /\ messages \cap PatchesCut = {} /\ (\A m \in messages : Concludes[m] = "none") =>
                 (db.status[t] = "patch_proposed") = (messages \cap HasPatch # {})

-----------------------------------------------------------------------------
(* The threads resolve_threads finds in a file *)

\* The messages the reply chain of m leads through: the least set that holds m's
\* parent and the parent of each of its members that is in the file.
Ancestors(m) ==
    LET Closed(S) == /\ Parent[m] # NoMsg => Parent[m] \in S
                     /\ \A a \in S \cap batch : Parent[a] # NoMsg => Parent[a] \in S
    IN {a \in Msgs : \A S \in SUBSET Msgs : Closed(S) => a \in S}

\* An ancestor the file says nothing older about.
Oldest(a) == a \notin batch \/ Parent[a] = NoMsg

Acyclic == \A m \in batch : m \notin Ancestors(m)

\* Without References and without reply cycles the thread of a reply is the oldest
\* ancestor known, which exists and is unique; and a reply is stored in the thread of what
\* it answers, whatever the order they come in, unless one of the two was stored before,
\* from another file or version.
ThreadIsOldestAncestor ==
    pc = "insert" /\ Acyclic =>
        /\ \A m \in batch : Ref[m] = NoMsg =>
              IF Parent[m] = NoMsg THEN ThreadOf(m) = m
              ELSE {a \in Ancestors(m) : Oldest(a)} = {ThreadOf(m)}
        /\ (\A m \in batch : Ref[m] = NoMsg) =>
              \A m \in batch \cap Stored(work) :
                  Parent[m] \in (batch \cap Stored(work)) /\ {m, Parent[m]} \cap Stored(db) = {} =>
                      work.thread[m] = work.thread[Parent[m]]

\* A run does not get past content S.
Ends(S) == \/ S \cap Undecodable # {}
           \/ \E m \in S : FindThreadRoot(m, S, Parent, Ref) \in Unnamable

\* Every message of a file that is downloaded no more is stored in the end, whatever
\* runs died, when the server rejects none; a header that cannot be decoded and a thread
\* whose id cannot be sent hold up their own file and the files after it, no file before
\* it, and until a later version is without them.
EventuallyStored ==
    \A m \in Msgs :
        (/\ m \notin Stored(db) \cup Unencodable
         /\ Rejected = {}
         /\ \E f \in Files :
               /\ disk[f] = Len(Contents[f]) /\ m \in Content(f)
               /\ \A g \in 1..f : \A v \in DOMAIN Contents[g] :
                     v >= disk[g] => ~Ends(Contents[g][v]))
        ~> m \in Stored(db)
=============================================================================
