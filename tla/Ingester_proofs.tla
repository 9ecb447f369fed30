-------------------------- MODULE Ingester_proofs --------------------------
(***************************************************************************)
(* What the ingester's tables keep for every finite set of messages, any   *)
(* files, and however headers, faults, downloads and crashes fall: a       *)
(* stored message stays in its thread, which is that of its oldest         *)
(* ancestor and exists; a file whose log entry is up to date is stored;    *)
(* patches come with their message, once; statuses are what the bodies     *)
(* say. And what an agent is told that reads the tables while they grow.   *)
(* The walk of ThreadResolver is a recursive function: that it ends, and   *)
(* where, is shown by induction over the messages it has not been at       *)
(* (WalkInduction).                                                        *)
(***************************************************************************)
EXTENDS McpServer, FiniteSetTheorems, SequenceTheorems, TLAPS

\* A record of tables, whose columns of messages have a value for each.
Tables(d) ==
    /\ d = [log |-> d.log, threads |-> d.threads, thread |-> d.thread, status |-> d.status,
            patches |-> d.patches]
    /\ d.thread = [m \in Msgs |-> d.thread[m]]
    /\ d.patches = [m \in Msgs |-> d.patches[m]]

\* What one set of tables knows of the stored messages, another one knows too.
Extends(e, d) ==
    /\ \A m \in Stored(d) : e.thread[m] = d.thread[m] /\ e.patches[m] = d.patches[m]
    /\ d.threads \subseteq e.threads

\* The foreign key: a stored message hangs in a thread that exists.
ThreadExists(d) == \A m \in Stored(d) : d.thread[m] \in d.threads

\* While messages are inserted the threads of the whole file have been upserted, unless the
\* transaction is lost.
Upserted ==
    pc = "insert" => /\ todo \subseteq batch
                     /\ \A m \in batch : ThreadOf(m) \in work.threads

RowsInv ==
    /\ Tables(db) /\ Tables(work)
    /\ Extends(work, db)
    /\ ThreadExists(db) /\ ThreadExists(work)
    /\ Upserted

-----------------------------------------------------------------------------
\* What is wrong with a message stays wrong with it.
LEMMA FaultsStay ==
    ASSUME setting' = setting
    PROVE  /\ Unencodable' = Unencodable /\ Rejected' = Rejected /\ PatchRejected' = PatchRejected
           /\ PatchesCut' = PatchesCut /\ \A m \in Msgs : PatchesSent(m)' = PatchesSent(m)
<1>1. \A faults : With(faults)' = With(faults)
  BY DEF With
<1>2. Parent' = Parent
  BY DEF Parent
<1>3. PatchesCut' = PatchesCut /\ PatchRejected' = PatchRejected
  BY <1>1 DEF PatchesCut, PatchRejected, HasPatch
<1> QED BY <1>1, <1>2, <1>3 DEF Unencodable, Rejected, PatchesSent

LEMMA SettingStays == [Next]_vars => setting' = setting
BY DEF Next, Run, vars, StartRun, Crash, Download, ParseFile, ParseRaises, EndRun, UpsertThreads,
       UpsertRaises, InsertMessage, InsertKnown, InsertFails, ReleaseSavepoint, ReleaseRaises,
       CommitBatch, RecordIngestion, ClassifyThreads

\* The empty tables satisfy it.
LEMMA RowsInit == Init => RowsInv
BY NoMsgAssumption
   DEF Init, EmptyTables, RowsInv, Tables, Extends, ThreadExists, Upserted, Stored

\* A run that ends leaves what is committed.
LEMMA ExitRows == ASSUME RowsInv, Exit, UNCHANGED db PROVE RowsInv'
BY DEF RowsInv, Exit, Tables, Extends, ThreadExists, Upserted, Stored

\* Upserting threads only adds threads.
LEMMA UpsertRows == ASSUME RowsInv, UpsertThreads PROVE RowsInv'
<1>1. work' = [work EXCEPT !.threads = @ \cup {ThreadOf(m) : m \in batch}]
      /\ UNCHANGED <<setting, db, batch>> /\ todo' = batch
  BY DEF UpsertThreads, current
<1>2. /\ work'.thread = work.thread /\ work'.threads = work.threads \cup {ThreadOf(m) : m \in batch}
      /\ work'.patches = work.patches
      /\ Tables(work')
  BY <1>1 DEF RowsInv, Tables
<1>3. Extends(work', db) /\ ThreadExists(work')
  BY <1>2 DEF RowsInv, Extends, ThreadExists, Stored
<1>4. \A m \in batch : ThreadOf(m)' = ThreadOf(m)
  BY <1>1 DEF ThreadOf, Parent, Ref
<1>5. Upserted'
  BY <1>1, <1>2, <1>4 DEF Upserted
<1> QED BY <1>1, <1>2, <1>3, <1>5 DEF RowsInv, Extends, ThreadExists, Stored, Tables

\* INSERT ... ON CONFLICT DO NOTHING gives a message a thread when it has none.
LEMMA InsertRows == ASSUME RowsInv, NEW m \in Msgs, InsertMessage(m) PROVE RowsInv'
<1>1. PICK n \in PatchesSent(m) :
          work' = [work EXCEPT !.thread[m] = ThreadOf(m), !.patches[m] = @ + n]
  BY DEF InsertMessage
<1>a. /\ work.thread[m] = NoMsg /\ m \in todo /\ todo' = todo \ {m}
      /\ pc = "insert" /\ UNCHANGED <<setting, db, pc, batch>>
  BY DEF InsertMessage, current
<1>2. /\ work'.thread = [work.thread EXCEPT ![m] = ThreadOf(m)]
      /\ work'.patches = [work.patches EXCEPT ![m] = @ + n]
      /\ work'.threads = work.threads
      /\ Tables(work')
  BY <1>1 DEF RowsInv, Tables
<1>3. /\ work'.thread[m] = ThreadOf(m)
      /\ \A o \in Msgs \ {m} : work'.thread[o] = work.thread[o] /\ work'.patches[o] = work.patches[o]
  BY <1>2 DEF RowsInv, Tables
<1>4. ThreadOf(m) \in work.threads
  BY <1>a DEF RowsInv, Upserted
<1>5. Extends(work', db)
  <2>1. m \notin Stored(db) BY <1>a DEF RowsInv, Extends, Stored
  <2> QED BY <2>1, <1>2, <1>3 DEF RowsInv, Extends, Stored
<1>6. ThreadExists(work')
  BY <1>2, <1>3, <1>4 DEF RowsInv, ThreadExists, Stored
<1>7. \A o \in batch : ThreadOf(o)' = ThreadOf(o)
  BY <1>a DEF ThreadOf, Parent, Ref
<1>8. Upserted'
  BY <1>a, <1>2, <1>7 DEF RowsInv, Upserted
<1> QED BY <1>a, <1>2, <1>5, <1>6, <1>8 DEF RowsInv, Extends, ThreadExists, Stored, Tables

\* COMMIT publishes the open transaction, or the server has rolled it back.
LEMMA CommitRows == ASSUME RowsInv, CommitBatch PROVE RowsInv'
<1>1. pc' = "record" BY DEF CommitBatch
<1>2. CASE db' = work /\ work' = work
  BY <1>1, <1>2 DEF RowsInv, Extends, ThreadExists, Stored, Tables, Upserted
<1>3. CASE work' = db /\ db' = db
  BY <1>1, <1>3 DEF RowsInv, Extends, ThreadExists, Stored, Tables, Upserted
<1> QED BY <1>2, <1>3 DEF CommitBatch

\* The log and the statuses are other columns.
LEMMA RecordRows == ASSUME RowsInv, RecordIngestion \/ ClassifyThreads PROVE RowsInv'
<1>1. PICK d \in {db, work} : /\ db'.thread = d.thread /\ db'.threads = d.threads
                              /\ db'.patches = d.patches
                              /\ Tables(db') /\ work' = db'
  <2>1. CASE RecordIngestion BY <2>1 DEF RecordIngestion, RowsInv, Tables
  <2>2. CASE ClassifyThreads BY <2>2 DEF ClassifyThreads, Classified, RowsInv, Tables
  <2> QED BY <2>1, <2>2
<1>2. ThreadExists(db') /\ Extends(work', db')
  BY <1>1 DEF RowsInv, ThreadExists, Extends, Stored
<1>3. pc' # "insert" BY DEF RecordIngestion, ClassifyThreads
<1> QED BY <1>1, <1>2, <1>3 DEF RowsInv, ThreadExists, Extends, Stored, Tables, Upserted

\* Every statement, commit, rollback and crash keeps it.
LEMMA RowsNext == RowsInv /\ [Next]_vars => RowsInv'
<1> SUFFICES ASSUME RowsInv, [Next]_vars PROVE RowsInv' OBVIOUS
<1>1. ASSUME UNCHANGED <<db, work>>, pc' # "insert" PROVE RowsInv'
  BY <1>1 DEF RowsInv, Extends, ThreadExists, Stored, Tables, Upserted
<1>2. ASSUME UNCHANGED <<setting, db, work, batch, pc>>, todo' \subseteq todo PROVE RowsInv'
  BY <1>2 DEF RowsInv, Extends, ThreadExists, Stored, Tables, Upserted, ThreadOf, Parent, Ref
<1>3. ASSUME NEW m \in Msgs, InsertMessage(m) \/ InsertKnown(m) \/ InsertFails(m) PROVE RowsInv'
  BY <1>2, <1>3, InsertRows DEF InsertKnown, InsertFails, current
<1>4. CASE ParseFile BY <1>1, <1>4 DEF ParseFile
<1>5. CASE ReleaseSavepoint BY <1>1, <1>5 DEF ReleaseSavepoint
<1>6. CASE ParseRaises \/ EndRun \/ UpsertRaises \/ ReleaseRaises \/ Crash
  BY <1>6, ExitRows DEF ParseRaises, EndRun, UpsertRaises, ReleaseRaises, Crash
<1>7. CASE StartRun BY <1>1, <1>7 DEF StartRun
<1>8. ASSUME NEW f \in Files, Download(f) PROVE RowsInv'
  BY <1>2, <1>8 DEF Download, locals
<1>9. CASE UNCHANGED vars BY <1>2, <1>9 DEF vars
<1> QED BY <1>3, <1>4, <1>5, <1>6, <1>7, <1>8, <1>9, UpsertRows, CommitRows, RecordRows
        DEF Next, Run

ForeignKeyHolds == ThreadExists(db) /\ ThreadExists(work)

\* The thread column refers to threads that exist, committed or not: the file's threads
\* are upserted in the transaction that inserts its messages.
THEOREM ThreadsExist == Spec => []ForeignKeyHolds
<1>1. RowsInv => ForeignKeyHolds BY DEF RowsInv, ForeignKeyHolds
<1> QED BY RowsInit, RowsNext, <1>1, PTL DEF Spec

\* No step takes a stored message out of its thread.
LEMMA ThreadsStay ==
    ASSUME RowsInv, [Next]_vars, NEW m \in Msgs, m \in Stored(db)
    PROVE  db'.thread[m] = db.thread[m]
<1>1. CASE RecordIngestion
  BY <1>1 DEF RecordIngestion, RowsInv, Tables, Extends
<1>2. CASE ClassifyThreads
  BY <1>2 DEF ClassifyThreads, Classified, RowsInv, Tables
<1>3. CASE CommitBatch
  BY <1>3 DEF CommitBatch, RowsInv, Extends
<1>4. CASE UNCHANGED db BY <1>4
<1> QED BY <1>1, <1>2, <1>3, <1>4
        DEF Next, Run, vars, StartRun, Crash, Download, ParseFile, ParseRaises, EndRun,
            UpsertThreads, InsertMessage, InsertKnown, InsertFails, ReleaseSavepoint,
            UpsertRaises, ReleaseRaises

\* A message that is stored stays, in the thread it was first given, whichever files are
\* ingested again, cross-posted or resolved otherwise.
THEOREM StoredStays == Spec => NeverRethreaded
<1>1. RowsInv /\ [Next]_vars
        => [\A m \in Msgs : m \in Stored(db) => db'.thread[m] = db.thread[m]]_vars
  BY ThreadsStay
<1> QED BY RowsInit, RowsNext, <1>1, PTL DEF Spec, NeverRethreaded

-----------------------------------------------------------------------------
(* The walk over the headers of a file *)

\* A set of finite sets that is not empty has a smallest one: what the proofs below use
\* for induction.
LEMMA LeastSet ==
    ASSUME NEW S, NEW T \in SUBSET FiniteSubsetsOf(S), T # {}
    PROVE  \E x \in T : \A y \in T : y \subseteq x => y = x
<1>1. IsWellFoundedOn(StrictSubsetOrdering(S), FiniteSubsetsOf(S))
  BY FS_StrictSubsetOrderingWellFounded
<1>2. \E x \in T : \A y \in T : ~(<<y, x>> \in StrictSubsetOrdering(S))
  BY <1>1, WFMin, Zenon
<1> QED BY <1>2 DEF StrictSubsetOrdering, FiniteSubsetsOf

\* Induction over the naturals, for a set of them.
LEMMA AllNaturals ==
    ASSUME NEW S \in SUBSET Nat, 0 \in S, \A n \in S : n + 1 \in S
    PROVE  S = Nat
<1> SUFFICES ASSUME Nat \ S # {} PROVE FALSE
    OBVIOUS
<1> DEFINE T == {1 .. n : n \in Nat \ S}
<1>1. T \in SUBSET FiniteSubsetsOf(Int) /\ T # {}
  <2>1. ASSUME NEW n \in Nat \ S PROVE 1 .. n \in FiniteSubsetsOf(Int)
    <3>1. 1 \in Int /\ n \in Int /\ 1 .. n \subseteq Int
      OBVIOUS
    <3>2. IsFiniteSet(1 .. n)
      BY <3>1, FS_Interval
    <3> QED BY <3>1, <3>2 DEF FiniteSubsetsOf
  <2> QED BY <2>1
<1>2. PICK x \in T : \A y \in T : y \subseteq x => y = x
  <2> HIDE DEF T
  <2> QED BY <1>1, LeastSet
<1>3. PICK n \in Nat \ S : x = 1 .. n
  OBVIOUS
<1>4. n - 1 \in Nat
  BY <1>3
<1>5. n - 1 \notin S
  <2>1. n - 1 + 1 = n
    BY <1>4
  <2> QED BY <1>3, <2>1
<1>6. 1 .. n - 1 = 1 .. n
  <2>1. 1 .. n - 1 \in T
    BY <1>4, <1>5
  <2>2. 1 .. n - 1 \subseteq 1 .. n
    BY <1>3, <1>4
  <2> QED BY <1>2, <1>3, <2>1, <2>2
<1>7. n \in 1 .. n /\ n \notin 1 .. n - 1
  BY <1>3, <1>4
<1> QED BY <1>6, <1>7

\* What one more step of the walk makes of a function that gives the rest.
Stepped(B, parent, f, v, c) ==
    IF c \in B \ v /\ parent[c] # NoMsg THEN f[v \cup {c}][parent[c]] ELSE c

\* The recursion of the walk has a solution: each step visits one more message, and there
\* are finitely many.
LEMMA WalkUnfolds ==
    ASSUME IsFiniteSet(Msgs), NEW B \in SUBSET Msgs, NEW parent \in [Msgs -> Msgs \cup {NoMsg}]
    PROVE  \A v \in SUBSET Msgs, c \in Msgs :
               Walk(B, parent)[v][c] = Stepped(B, parent, Walk(B, parent), v, c)
<1> DEFINE Left(v) == Cardinality(Msgs \ v)
           From(f) == [v \in SUBSET Msgs |-> [c \in Msgs |-> Stepped(B, parent, f, v, c)]]
           Upto(f, n) == \A v \in SUBSET Msgs, c \in Msgs :
                             Left(v) <= n => f[v][c] = Stepped(B, parent, f, v, c)
           Good == {n \in Nat : \E f : Upto(f, n)}
<1>1. \A v \in SUBSET Msgs : Left(v) \in Nat /\ Left(v) <= Cardinality(Msgs)
  <2> SUFFICES ASSUME NEW v \in SUBSET Msgs PROVE Left(v) \in Nat /\ Left(v) <= Cardinality(Msgs)
      OBVIOUS
  <2>1. Msgs \ v \in SUBSET Msgs
    OBVIOUS
  <2>2. IsFiniteSet(Msgs \ v) /\ Cardinality(Msgs \ v) <= Cardinality(Msgs)
    BY <2>1, FS_Subset
  <2> QED BY <2>2, FS_CardinalityType
<1>2. ASSUME NEW v \in SUBSET Msgs, NEW c \in Msgs, c \notin v
      PROVE  v \cup {c} \in SUBSET Msgs /\ Left(v \cup {c}) = Left(v) - 1
  <2>1. Msgs \ (v \cup {c}) = (Msgs \ v) \ {c} /\ c \in Msgs \ v
    BY <1>2
  <2>2. IsFiniteSet(Msgs \ v)
    <3> Msgs \ v \in SUBSET Msgs
      OBVIOUS
    <3> QED BY FS_Subset
  <2>3. Cardinality((Msgs \ v) \ {c}) = Cardinality(Msgs \ v) - 1
    BY <2>1, <2>2, FS_RemoveElement
  <2> QED BY <2>1, <2>3
<1> HIDE DEF Left
<1>3. 0 \in Good
  <2> DEFINE f == [v \in SUBSET Msgs |-> [c \in Msgs |-> c]]
  <2>1. ASSUME NEW v \in SUBSET Msgs, NEW c \in Msgs, Left(v) <= 0
        PROVE  f[v][c] = Stepped(B, parent, f, v, c)
    <3>1. c \in v
      <4>1. ASSUME c \notin v PROVE FALSE
        <5>1. v \cup {c} \in SUBSET Msgs /\ Left(v \cup {c}) = Left(v) - 1
          BY <1>2, <4>1
        <5> QED BY <1>1, <2>1, <5>1
      <4> QED BY <4>1
    <3> QED BY <3>1 DEF Stepped
  <2> QED BY <2>1
<1>4. ASSUME NEW n \in Good PROVE n + 1 \in Good
  <2>1. PICK f : Upto(f, n)
    OBVIOUS
  <2> DEFINE g == [v \in SUBSET Msgs |-> [c \in Msgs |->
                      IF Left(v) <= n THEN f[v][c] ELSE Stepped(B, parent, f, v, c)]]
  <2>2. ASSUME NEW v \in SUBSET Msgs, NEW c \in Msgs, Left(v) <= n + 1
        PROVE  g[v][c] = Stepped(B, parent, g, v, c)
    <3>1. g[v][c] = Stepped(B, parent, f, v, c)
      BY <2>1
    <3>2. CASE c \in B \ v /\ parent[c] # NoMsg
      <4>1. v \cup {c} \in SUBSET Msgs /\ parent[c] \in Msgs /\ Left(v \cup {c}) <= n
        BY <1>1, <1>2, <1>4, <2>2, <3>2
      <4>2. g[v \cup {c}][parent[c]] = f[v \cup {c}][parent[c]]
        BY <4>1
      <4> HIDE DEF g
      <4> QED BY <3>1, <3>2, <4>2 DEF Stepped
    <3>3. CASE ~(c \in B \ v /\ parent[c] # NoMsg)
      <4> HIDE DEF g
      <4> QED BY <3>1, <3>3 DEF Stepped
    <3> QED BY <3>2, <3>3
  <2> HIDE DEF g
  <2>3. Upto(g, n + 1)
    BY <2>2
  <2> QED BY <2>3
<1>5. Good = Nat
  <2> HIDE DEF Good
  <2>1. Good \in SUBSET Nat
    BY DEF Good
  <2> QED BY <1>3, <1>4, <2>1, AllNaturals
<1>6. \E f : f = From(f)
  <2>1. Cardinality(Msgs) \in Good
    BY <1>5, FS_CardinalityType
  <2>2. PICK g : Upto(g, Cardinality(Msgs))
    BY <2>1
  <2> DEFINE f == [v \in SUBSET Msgs |-> [c \in Msgs |-> g[v][c]]]
  <2>3. ASSUME NEW v \in SUBSET Msgs, NEW c \in Msgs
        PROVE  g[v][c] = Stepped(B, parent, f, v, c)
    <3>1. g[v][c] = Stepped(B, parent, g, v, c)
      BY <1>1, <2>2
    <3>2. CASE c \in B \ v /\ parent[c] # NoMsg
      <4>1. v \cup {c} \in SUBSET Msgs /\ parent[c] \in Msgs
        BY <3>2
      <4>2. f[v \cup {c}][parent[c]] = g[v \cup {c}][parent[c]]
        BY <4>1
      <4> HIDE DEF f
      <4> QED BY <3>1, <3>2, <4>2 DEF Stepped
    <3>3. CASE ~(c \in B \ v /\ parent[c] # NoMsg)
      <4> HIDE DEF f
      <4> QED BY <3>1, <3>3 DEF Stepped
    <3> QED BY <3>2, <3>3
  <2>4. f = From(f)
    BY <2>3
  <2> QED BY <2>4
<1>7. Walk(B, parent) = CHOOSE f : f = From(f)
  BY DEF Walk, Stepped
<1>8. Walk(B, parent) = From(Walk(B, parent))
  BY <1>6, <1>7
<1> QED BY <1>8

\* What each unvisited message inherits from the one the walk leads to, and the message
\* where it stops has, every start has.
LEMMA WalkInduction ==
    ASSUME IsFiniteSet(Msgs), NEW B \in SUBSET Msgs, NEW parent \in [Msgs -> Msgs \cup {NoMsg}],
           NEW G,
           \A v \in SUBSET Msgs, c \in Msgs :
               ~(c \in B \ v /\ parent[c] # NoMsg) => <<v, c>> \in G,
           \A v \in SUBSET Msgs, c \in Msgs :
               c \in B \ v /\ parent[c] # NoMsg /\ <<v \cup {c}, parent[c]>> \in G => <<v, c>> \in G
    PROVE  \A v \in SUBSET Msgs, c \in Msgs : <<v, c>> \in G
<1> SUFFICES ASSUME NEW v0 \in SUBSET Msgs, NEW c0 \in Msgs, <<v0, c0>> \notin G PROVE FALSE
    OBVIOUS
<1> DEFINE T == {x \in SUBSET Msgs : \E c \in Msgs : <<Msgs \ x, c>> \notin G}
<1>1. T \in SUBSET FiniteSubsetsOf(Msgs)
  <2> SUFFICES ASSUME NEW x \in SUBSET Msgs PROVE IsFiniteSet(x)
      BY DEF FiniteSubsetsOf
  <2> QED BY FS_Subset
<1>2. T # {}
  <2>1. Msgs \ (Msgs \ v0) = v0
    OBVIOUS
  <2> QED BY <2>1
<1>3. PICK x \in T : \A y \in T : y \subseteq x => y = x
  <2> HIDE DEF T
  <2> QED BY <1>1, <1>2, LeastSet
<1>4. PICK c \in Msgs : <<Msgs \ x, c>> \notin G
  OBVIOUS
<1> DEFINE v == Msgs \ x
<1>5. c \in B \ v /\ parent[c] \in Msgs /\ <<v \cup {c}, parent[c]>> \notin G
  BY <1>4
<1>6. x \ {c} \in T
  <2>1. Msgs \ (x \ {c}) = v \cup {c} /\ x \ {c} \in SUBSET Msgs
    OBVIOUS
  <2> HIDE DEF v
  <2> QED BY <1>5, <2>1
<1>7. c \in x
  BY <1>5
<1> QED BY <1>3, <1>6, <1>7

\* The walk ends at a message, whatever replies the file claims.
LEMMA WalkEnds ==
    ASSUME IsFiniteSet(Msgs), NEW B \in SUBSET Msgs, NEW parent \in [Msgs -> Msgs \cup {NoMsg}]
    PROVE  \A v \in SUBSET Msgs, c \in Msgs : Walk(B, parent)[v][c] \in Msgs
<1> DEFINE W == Walk(B, parent)
           G == {p \in (SUBSET Msgs) \X Msgs : W[p[1]][p[2]] \in Msgs}
<1>1. \A v \in SUBSET Msgs, c \in Msgs : W[v][c] = Stepped(B, parent, W, v, c)
  BY WalkUnfolds
<1> HIDE DEF W
<1>2. \A v \in SUBSET Msgs, c \in Msgs : <<v, c>> \in G <=> W[v][c] \in Msgs
  OBVIOUS
<1> HIDE DEF G
<1>3. ASSUME NEW v \in SUBSET Msgs, NEW c \in Msgs, ~(c \in B \ v /\ parent[c] # NoMsg)
      PROVE  <<v, c>> \in G
  BY <1>1, <1>2, <1>3 DEF Stepped
<1>4. ASSUME NEW v \in SUBSET Msgs, NEW c \in Msgs, c \in B \ v, parent[c] # NoMsg,
             <<v \cup {c}, parent[c]>> \in G
      PROVE  <<v, c>> \in G
  <2>1. v \cup {c} \in SUBSET Msgs /\ parent[c] \in Msgs
    BY <1>4
  <2>2. W[v][c] = W[v \cup {c}][parent[c]]
    BY <1>1, <1>4 DEF Stepped
  <2> QED BY <1>2, <1>4, <2>1, <2>2
<1>5. \A v \in SUBSET Msgs, c \in Msgs : <<v, c>> \in G
  BY <1>3, <1>4, WalkInduction
<1> QED BY <1>2, <1>5 DEF W

\* find_thread_root gives every message of a file a thread.
LEMMA RootsAreMessages ==
    ASSUME IsFiniteSet(Msgs), setting \in Settings, batch \in SUBSET Msgs, NEW m \in batch
    PROVE  ThreadOf(m) \in Msgs
<1>1. Parent \in [Msgs -> Msgs \cup {NoMsg}] /\ Ref \in [Msgs -> Msgs \cup {NoMsg}]
  BY SettingsAssumption DEF Parent, Ref
<1>2. \A c \in Msgs : Walk(batch, Parent)[{}][c] \in Msgs
  BY <1>1, WalkEnds
<1> QED BY <1>1, <1>2 DEF ThreadOf, FindThreadRoot

-----------------------------------------------------------------------------
(* Files and their log entries *)

\* The version of f that had mtime t.
VersionAt(f, t, v) == v \in 1 .. disk[f] /\ t = v * DownloadGap

\* What is on disk, and what the log knows of it, unless the transaction is lost.
FilesTyped ==
    /\ setting \in Settings
    /\ disk \in [Files -> Nat] /\ \A f \in Files : disk[f] <= Len(Contents[f])
    /\ db.log = [f \in Files |-> db.log[f]] /\ work.log = db.log
    /\ batch \subseteq Msgs

\* A run lists versions that are or were there, and reads one that is at least as new; when
\* it is the newest that is listed, it is the one that is read.
Reads ==
    /\ \A next \in pending : next[1] \in Files /\ \E v \in Int : VersionAt(next[1], next[2], v)
    /\ pc \in {"upsert", "insert", "record", "classify"} =>
          /\ file \in Files
          /\ \E v \in Int : /\ VersionAt(file, mtime, v)
                            /\ v = disk[file] => batch = Content(file)

\* Good files are stored: by the statements of an open transaction, by a transaction that
\* ended, and of an entry in the log.
Inserts ==
    pc = "insert" =>
        /\ todo \subseteq batch
        /\ tx = "open" => batch \ (todo \cup Unencodable) \subseteq Stored(work)
        /\ tx # "open" => batch \cap Rejected # {}
Records == pc = "record" /\ batch \cap Rejected = {} => batch \ Unencodable \subseteq Stored(work)
Logged(f) ==
    db.log[f] # NotLogged =>
        \E v \in Int :
           /\ VersionAt(f, db.log[f], v)
           /\ v = disk[f] /\ Content(f) \cap Rejected = {} =>
                 Content(f) \ Unencodable \subseteq Stored(db)

FilesInv ==
    RowsInv /\ FilesTyped /\ Reads /\ Inserts /\ Records /\ \A f \in Files : Logged(f)

\* Nothing is listed, read or logged at first.
LEMMA FilesInit == Init => FilesInv
BY RowsInit DEF Init, EmptyTables, FilesInv, FilesTyped, Reads, Inserts, Records, Logged, Stored, Files, Contents

\* The content of a file is a set of messages.
LEMMA ContentType == ASSUME FilesTyped, NEW f \in Files PROVE Content(f) \subseteq Msgs
<1>1. Contents[f] \in Seq(SUBSET Msgs)
  BY SettingsAssumption DEF FilesTyped, Files, Contents
<1>2. disk[f] # 0 => disk[f] \in 1 .. Len(Contents[f])
  BY DEF FilesTyped
<1> QED BY <1>1, <1>2 DEF Content

\* Steps that change neither files nor rows keep what is logged.
LEMMA LoggedStays ==
    ASSUME NEW f \in Files, Logged(f), UNCHANGED <<setting, disk>>,
           db'.log[f] = db.log[f], Stored(db) \subseteq Stored(db')
    PROVE  Logged(f)'
BY FaultsStay DEF Logged, VersionAt, Content, Contents, Stored

\* A run that ends keeps what is committed.
LEMMA ExitFiles == ASSUME FilesInv, Exit, UNCHANGED <<setting, disk, db>> PROVE FilesInv'
<1>1. RowsInv' BY ExitRows DEF FilesInv
<1>2. \A f \in Files : Logged(f)' BY LoggedStays DEF FilesInv
<1>3. FilesTyped' BY DEF FilesInv, FilesTyped, Exit, Files, Contents
<1>4. Reads' /\ Inserts' /\ Records' BY DEF Exit, Reads, Inserts, Records
<1> QED BY <1>1, <1>2, <1>3, <1>4 DEF FilesInv, Files, Contents

\* A download makes the entries of its file old.
LEMMA DownloadFiles == ASSUME FilesInv, RowsInv', NEW g \in Files, Download(g) PROVE FilesInv'
<1>1. /\ disk' = [disk EXCEPT ![g] = disk[g] + 1] /\ disk[g] < Len(Contents[g])
      /\ UNCHANGED <<setting, db, work, tx, nested, pc, pending, file, mtime, batch, todo>>
  BY DEF Download, locals
<1>2. /\ disk \in [Files -> Nat] /\ disk'[g] = disk[g] + 1
      /\ \A f \in Files \ {g} : disk'[f] = disk[f]
  BY <1>1 DEF FilesInv, FilesTyped
<1>3. FilesTyped'
  <2>1. Contents[g] \in Seq(SUBSET Msgs)
    BY SettingsAssumption DEF FilesInv, FilesTyped, Files, Contents
  <2>2. Len(Contents[g]) \in Nat
    BY <2>1
  <2>3. disk' \in [Files -> Nat] /\ \A f \in Files : disk'[f] <= Len(Contents[f])
    BY <1>1, <1>2, <2>2 DEF FilesInv, FilesTyped
  <2> QED BY <1>1, <2>3 DEF FilesInv, FilesTyped, Files, Contents
<1>4. ASSUME NEW f \in Files, NEW t, NEW v \in Int, VersionAt(f, t, v)
      PROVE VersionAt(f, t, v)' /\ (v = disk'[f] => f # g)
  BY <1>2, <1>4 DEF VersionAt
<1>5. \A f \in Files \ {g} : Content(f)' = Content(f)
  BY <1>1, <1>2 DEF Content, Contents
<1>6. Reads'
  <2>1. ASSUME NEW next \in pending
        PROVE next[1] \in Files /\ \E v \in Int : VersionAt(next[1], next[2], v)'
    BY <1>4 DEF FilesInv, Reads
  <2>2. ASSUME pc \in {"upsert", "insert", "record", "classify"}
        PROVE  /\ file \in Files
               /\ \E v \in Int : /\ VersionAt(file, mtime, v)'
                                 /\ v = disk'[file] => batch = Content(file)'
    <3>1. PICK v \in Int : VersionAt(file, mtime, v) /\ (v = disk[file] => batch = Content(file))
      BY <2>2 DEF FilesInv, Reads
    <3>2. file \in Files
      BY <2>2 DEF FilesInv, Reads
    <3>3. VersionAt(file, mtime, v)' /\ (v = disk'[file] => file # g)
      BY <1>1, <1>4, <3>1, <3>2 DEF VersionAt
    <3>4. file # g => disk'[file] = disk[file] /\ Content(file)' = Content(file)
      BY <1>1, <1>2, <3>2 DEF Content, Contents
    <3> QED BY <3>1, <3>2, <3>3, <3>4
  <2> QED BY <1>1, <2>1, <2>2 DEF Reads, Files, Contents, VersionAt
<1>7. Inserts' /\ Records'
  BY <1>1, FaultsStay DEF FilesInv, Inserts, Records, Stored
<1>8. ASSUME NEW f \in Files PROVE Logged(f)'
  <2>1. SUFFICES ASSUME db.log[f] # NotLogged PROVE Logged(f)'
    BY <1>1 DEF Logged
  <2>2. PICK v \in Int :
           /\ VersionAt(f, db.log[f], v)
           /\ v = disk[f] /\ Content(f) \cap Rejected = {} =>
                 Content(f) \ Unencodable \subseteq Stored(db)
    BY <2>1 DEF FilesInv, Logged
  <2>3. VersionAt(f, db.log[f], v)' /\ (v = disk'[f] => f # g)
    BY <1>1, <1>4, <2>2 DEF VersionAt
  <2> QED BY <1>1, <1>2, <1>5, <2>2, <2>3, FaultsStay DEF Logged, Stored
<1> QED BY <1>1, <1>3, <1>6, <1>7, <1>8 DEF FilesInv, Files, Contents

\* The run lists what is there ...
LEMMA ListFiles == ASSUME FilesInv, RowsInv', StartRun PROVE FilesInv'
<1>1. /\ pending' = {<<f, Mtime(f)>> : f \in {g \in Files : disk[g] # 0 /\ NeedsWork(g)}}
      /\ pc' = "next" /\ UNCHANGED <<setting, disk, db, work, batch>>
  BY DEF StartRun, locals
<1>2. \A f \in Files : disk[f] # 0 => VersionAt(f, Mtime(f), disk[f])
  BY DEF FilesInv, FilesTyped, VersionAt, Mtime
<1>3. Reads'
  <2>1. ASSUME NEW next \in pending'
        PROVE next[1] \in Files /\ \E v \in Int : VersionAt(next[1], next[2], v)
    <3>1. PICK f \in Files : disk[f] # 0 /\ next = <<f, Mtime(f)>>
      BY <1>1, <2>1
    <3>2. disk[f] \in Int /\ VersionAt(next[1], next[2], disk[f])
      BY <1>2, <3>1 DEF FilesInv, FilesTyped
    <3> QED BY <3>1, <3>2
  <2> QED BY <1>1, <2>1 DEF Reads, Files, Contents, VersionAt
<1>4. \A f \in Files : Logged(f)'
  BY <1>1, LoggedStays DEF FilesInv
<1> QED BY <1>1, <1>3, <1>4 DEF FilesInv, FilesTyped, Inserts, Records, Files, Contents

\* ... and reads what is there then.
LEMMA ReadFiles == ASSUME FilesInv, RowsInv', ParseFile PROVE FilesInv'
<1>1. PICK next \in pending :
          /\ file' = next[1] /\ mtime' = next[2] /\ pending' = pending \ {next}
          /\ batch' = Content(next[1])
  BY DEF ParseFile
<1>2. /\ UNCHANGED <<setting, disk, db, work>>
      /\ pc' = IF batch' = {} THEN "record" ELSE "upsert"
  BY DEF ParseFile
<1>3. next[1] \in Files /\ batch' \subseteq Msgs
  BY <1>1, ContentType DEF FilesInv, Reads
<1>4. Reads'
  BY <1>1, <1>2, <1>3 DEF FilesInv, Reads, VersionAt, Content, Files, Contents
<1>5. \A f \in Files : Logged(f)'
  BY <1>2, LoggedStays DEF FilesInv
<1>6. Inserts' /\ Records'
  BY <1>2 DEF Inserts, Records
<1> QED BY <1>2, <1>3, <1>4, <1>5, <1>6 DEF FilesInv, FilesTyped, Files, Contents

\* The statements of insert_batch: what one stores, and what one that fails leaves behind.
LEMMA InsertFiles ==
    ASSUME IsFiniteSet(Msgs), FilesInv, RowsInv',
           UpsertThreads \/ \E m \in Msgs : InsertMessage(m) \/ InsertKnown(m) \/ InsertFails(m)
    PROVE  FilesInv'
<1>1. UNCHANGED <<setting, disk, db, pending, file, mtime, batch>> /\ pc' = "insert"
  BY DEF UpsertThreads, InsertMessage, InsertKnown, InsertFails, current
<1>2. Reads' /\ Records'
  BY <1>1 DEF FilesInv, Reads, Records, VersionAt, Content, Files, Contents,
              UpsertThreads, InsertMessage, InsertKnown, InsertFails
<1>3. \A f \in Files : Logged(f)'
  BY <1>1, LoggedStays DEF FilesInv
<1>4. work'.log = work.log
  <2>1. CASE UpsertThreads BY <2>1 DEF UpsertThreads, FilesInv, RowsInv, Tables
  <2>2. ASSUME NEW m \in Msgs, InsertMessage(m) PROVE work'.log = work.log
    BY <2>2 DEF InsertMessage, FilesInv, RowsInv, Tables
  <2> QED BY <2>1, <2>2 DEF InsertKnown, InsertFails
<1>5. Inserts'
  <2>1. CASE UpsertThreads
    BY <1>1, <2>1 DEF UpsertThreads, Inserts
  <2>2. ASSUME NEW m \in Msgs, InsertMessage(m) PROVE Inserts'
    <3>1. /\ \E n : work' = [work EXCEPT !.thread[m] = ThreadOf(m), !.patches[m] = @ + n]
          /\ m \in todo /\ todo' = todo \ {m} /\ pc = "insert" /\ tx = "open"
          /\ UNCHANGED <<setting, tx, batch>>
      BY <2>2 DEF InsertMessage, current
    <3>2. ThreadOf(m) # NoMsg
      BY <3>1, RootsAreMessages, NoMsgAssumption DEF FilesInv, FilesTyped, Inserts
    <3>3. work'.thread[m] = ThreadOf(m) /\ \A n \in Msgs \ {m} : work'.thread[n] = work.thread[n]
      BY <3>1 DEF FilesInv, RowsInv, Tables
    <3>4. m \in Stored(work') /\ Stored(work) \subseteq Stored(work')
      BY <3>2, <3>3 DEF Stored
    <3>5. pc' = "insert" /\ Unencodable' = Unencodable
      BY <1>1, <3>1, FaultsStay
    <3> QED BY <3>1, <3>4, <3>5 DEF FilesInv, Inserts
  <2>3. ASSUME NEW m \in Msgs, InsertKnown(m) PROVE Inserts'
    BY <2>3, FaultsStay DEF InsertKnown, current, FilesInv, Inserts, Stored
  <2>4. ASSUME NEW m \in Msgs, InsertFails(m) PROVE Inserts'
    BY <2>4, FaultsStay DEF InsertFails, current, FilesInv, Inserts, Stored
  <2> QED BY <2>1, <2>2, <2>3, <2>4
<1> QED BY <1>1, <1>2, <1>3, <1>4, <1>5 DEF FilesInv, FilesTyped, Files, Contents

\* RELEASE or COMMIT: a transaction that is lost had a rejected message.
LEMMA CommitFiles ==
    ASSUME FilesInv, RowsInv', ReleaseSavepoint \/ CommitBatch
    PROVE  FilesInv'
<1>1. /\ UNCHANGED <<setting, disk, pending, file, mtime, batch>>
      /\ pc = "insert" /\ pc' = "record" /\ todo = {}
      /\ db' \in {db, work} /\ work' \in {db, work}
      /\ tx = "open" => work' = work
  BY DEF ReleaseSavepoint, CommitBatch, locals
<1>2. Reads' /\ Inserts'
  BY <1>1 DEF FilesInv, Reads, Inserts, VersionAt, Content, Files, Contents
<1>3. Records'
  BY <1>1, FaultsStay DEF FilesInv, Inserts, Records, Stored
<1>4. Stored(db) \subseteq Stored(db') /\ db'.log = db.log /\ work'.log = db.log
  BY <1>1 DEF FilesInv, RowsInv, Extends, Stored, FilesTyped
<1>5. \A f \in Files : Logged(f)'
  BY <1>1, <1>4, LoggedStays DEF FilesInv
<1> QED BY <1>1, <1>2, <1>3, <1>4, <1>5 DEF FilesInv, FilesTyped, Files, Contents

\* record_ingestion logs the mtime that was listed, once the file's messages are in.
LEMMA RecordFiles == ASSUME FilesInv, RowsInv', RecordIngestion PROVE FilesInv'
<1>1. /\ db' = [work EXCEPT !.log[file] = mtime] /\ work' = db' /\ pc = "record"
      /\ pc' \in {"next", "classify"} /\ pc' # "insert" /\ pc' # "record" /\ pc' # "upsert"
      /\ UNCHANGED <<setting, disk, pending, file, mtime, batch>>
  BY DEF RecordIngestion, locals
<1>2. file \in Files
  BY <1>1 DEF FilesInv, Reads
<1>3. /\ db'.log = [db.log EXCEPT ![file] = mtime] /\ db'.thread = work.thread
  BY <1>1 DEF FilesInv, RowsInv, Tables, FilesTyped
<1>4. db'.log = [f \in Files |-> db'.log[f]] /\ db'.log[file] = mtime
      /\ \A f \in Files \ {file} : db'.log[f] = db.log[f]
  BY <1>2, <1>3 DEF FilesInv, FilesTyped
<1>5. Stored(db) \subseteq Stored(db') /\ Stored(db') = Stored(work)
  BY <1>3 DEF FilesInv, RowsInv, Extends, Stored
<1>6. ASSUME NEW f \in Files PROVE Logged(f)'
  <2>1. CASE f # file
    BY <1>1, <1>4, <1>5, <2>1, LoggedStays DEF FilesInv
  <2>2. CASE f = file
    <3>1. PICK v \in Int : VersionAt(file, mtime, v) /\ (v = disk[file] => batch = Content(file))
      BY <1>1 DEF FilesInv, Reads
    <3>2. batch \cap Rejected = {} => batch \ Unencodable \subseteq Stored(db')
      BY <1>1, <1>5 DEF FilesInv, Records
    <3>3. VersionAt(file, mtime, v)' /\ Content(file)' = Content(file)
          /\ Rejected' = Rejected /\ Unencodable' = Unencodable
      BY <1>1, <3>1, FaultsStay DEF VersionAt, Content, Contents
    <3> QED BY <1>1, <1>4, <2>2, <3>1, <3>2, <3>3 DEF Logged, Stored
  <2> QED BY <2>1, <2>2
<1>7. Reads' /\ Inserts' /\ Records'
  BY <1>1 DEF FilesInv, Reads, Inserts, Records, VersionAt, Content, Files, Contents
<1> QED BY <1>1, <1>4, <1>6, <1>7 DEF FilesInv, FilesTyped, Files, Contents

\* Statuses are another column.
LEMMA ClassifyFiles == ASSUME FilesInv, RowsInv', ClassifyThreads PROVE FilesInv'
<1>1. /\ db'.log = db.log /\ db'.thread = db.thread /\ work' = db'
      /\ UNCHANGED <<setting, disk, pending>> /\ pc' = "next" /\ batch' = {}
  BY DEF ClassifyThreads, Classified, Forget, FilesInv, RowsInv, Tables
<1>2. Reads' /\ Inserts' /\ Records'
  BY <1>1 DEF FilesInv, Reads, Inserts, Records, VersionAt, Content, Files, Contents
<1>3. \A f \in Files : Logged(f)'
  BY <1>1, LoggedStays DEF FilesInv, Stored
<1> QED BY <1>1, <1>2, <1>3 DEF FilesInv, FilesTyped, Files, Contents

\* Every step of a run, every crash and every download keeps it.
LEMMA FilesNext == ASSUME IsFiniteSet(Msgs), FilesInv, [Next]_vars PROVE FilesInv'
<1>1. RowsInv'
  BY RowsNext DEF FilesInv
<1>2. CASE UNCHANGED vars
  <2>1. UNCHANGED <<setting, disk, db, work, tx, pc, pending, file, mtime, batch, todo>>
    BY <1>2 DEF vars
  <2>2. \A f \in Files : Logged(f)'
    BY <2>1, LoggedStays DEF FilesInv
  <2> QED BY <1>1, <2>1, <2>2, FaultsStay DEF FilesInv, FilesTyped, Reads, Inserts, Records, VersionAt,
             Content, Files, Contents, Stored
<1>3. CASE ParseRaises \/ EndRun \/ UpsertRaises \/ ReleaseRaises \/ Crash
  BY <1>3, ExitFiles DEF ParseRaises, EndRun, UpsertRaises, ReleaseRaises, Crash
<1> QED BY <1>1, <1>2, <1>3, DownloadFiles, ListFiles, ReadFiles, InsertFiles, CommitFiles,
           RecordFiles, ClassifyFiles DEF Next, Run

\* However downloads, runs and crashes fall, a file whose log entry is up to date and in which
\* the server rejects nothing is in the archive, when downloads are more than a second apart.
THEOREM GoodFilesAreStored ==
    ASSUME DownloadGap >= 2, IsFiniteSet(Msgs)
    PROVE  Spec => []GoodFilesStored
<1>1. FilesInv => GoodFilesStored
  <2> SUFFICES ASSUME FilesInv, NEW f \in Files, disk[f] # 0, ~NeedsWork(f), Content(f) \cap Rejected = {}
               PROVE  Content(f) \ Unencodable \subseteq Stored(db)
      BY DEF GoodFilesStored
  <2>1. db.log[f] # NotLogged /\ ~(disk[f] * DownloadGap > db.log[f] + 1)
    BY DEF NeedsWork, Mtime
  <2>2. PICK v \in Int : /\ VersionAt(f, db.log[f], v)
                         /\ v = disk[f] => Content(f) \ Unencodable \subseteq Stored(db)
    BY <2>1 DEF FilesInv, Logged
  <2>3. v <= disk[f] /\ disk[f] \in Nat /\ v \in Nat /\ DownloadGap \in Nat
    BY <2>2, SettingsAssumption DEF VersionAt, FilesInv, FilesTyped
  <2>4. disk[f] * DownloadGap <= v * DownloadGap + 1
    BY <2>1, <2>2, <2>3 DEF VersionAt
  <2>5. CASE v < disk[f]
    <3> DEFINE d == disk[f] - v - 1
               G == DownloadGap
    <3>1. d \in Nat /\ disk[f] = v + 1 + d /\ G \in Nat
      BY <2>3, <2>5
    <3> HIDE DEF d, G
    <3>2. (v + 1 + d) * G = v * G + G + d * G /\ d * G >= 0 /\ v * G \in Int /\ d * G \in Int
      BY <2>3, <3>1
    <3> QED BY <2>3, <2>4, <3>1, <3>2 DEF G
  <2> QED BY <2>2, <2>3, <2>5
<1>2. FilesInv /\ [Next]_vars => FilesInv'
  BY FilesNext
<1> QED BY FilesInit, <1>1, <1>2, PTL DEF Spec

-----------------------------------------------------------------------------
(* Patches and counts *)

\* The patches of a message that could be sent are there with it, once.
PatchesOnce(d) == \A m \in Msgs : d.patches[m] \in IF m \in Stored(d) THEN PatchesSent(m) ELSE {0}

\* insert_batch counts messages that are there, unless the transaction is lost.
Counted ==
    /\ inserted \in Nat
    /\ pc \in {"upsert", "insert"} => batch # {}
    /\ pc \in {"off", "next"} \/ (pc = "record" /\ batch = {}) => inserted = 0
    /\ pc = "insert" /\ tx = "open" => inserted <= Cardinality((batch \ todo) \cap Stored(work))
    /\ pc = "record" /\ batch \cap Rejected = {} => inserted <= Cardinality(batch \cap Stored(work))

CountInv == FilesInv /\ PatchesOnce(db) /\ PatchesOnce(work) /\ Counted

\* Patches are counted by the columns of messages and patches alone.
LEMMA SamePatches ==
    ASSUME setting' = setting, NEW d, NEW e, e.thread = d.thread, e.patches = d.patches, PatchesOnce(d)
    PROVE  \A m \in Msgs : e.patches[m] \in IF m \in Stored(e) THEN PatchesSent(m)' ELSE {0}
BY FaultsStay DEF PatchesOnce, Stored

\* How many patches a message brings.
LEMMA SentType ==
    ASSUME NEW m \in Msgs
    PROVE  /\ PatchesSent(m) \subseteq 0 .. Carries[m] /\ Carries[m] \in Nat
           /\ m \notin PatchesCut => PatchesSent(m) = {Carries[m]}
BY SettingsAssumption DEF PatchesSent

\* A new message comes with its patches; one that is known brings none.
LEMMA InsertPatches ==
    ASSUME CountInv, NEW m \in Msgs, InsertMessage(m), IsFiniteSet(Msgs)
    PROVE  PatchesOnce(work)' /\ Counted'
<1>0. PICK n \in PatchesSent(m) :
          work' = [work EXCEPT !.thread[m] = ThreadOf(m), !.patches[m] = @ + n]
  BY DEF InsertMessage
<1>1. /\ m \in todo /\ todo' = todo \ {m} /\ pc = "insert" /\ tx = "open" /\ work.thread[m] = NoMsg
      /\ inserted' = inserted + 1 /\ UNCHANGED <<setting, pc, tx, batch>>
  BY DEF InsertMessage, current
<1>2. todo \subseteq batch /\ batch \subseteq Msgs
  BY <1>1 DEF CountInv, FilesInv, Inserts, FilesTyped
<1>3. ThreadOf(m) # NoMsg
  BY <1>1, <1>2, RootsAreMessages, NoMsgAssumption DEF CountInv, FilesInv, FilesTyped
<1>4. /\ work'.thread[m] = ThreadOf(m) /\ work'.patches[m] = work.patches[m] + n
      /\ \A o \in Msgs \ {m} : work'.thread[o] = work.thread[o] /\ work'.patches[o] = work.patches[o]
  BY <1>0 DEF CountInv, FilesInv, RowsInv, Tables
<1>5. Stored(work') = Stored(work) \cup {m} /\ m \notin Stored(work)
  BY <1>1, <1>3, <1>4 DEF Stored
<1>6. PatchesOnce(work)'
  <2>1. n \in Nat /\ work.patches[m] = 0
    BY <1>5, SentType DEF CountInv, PatchesOnce
  <2>2. \A o \in Msgs : work'.patches[o] \in IF o \in Stored(work') THEN PatchesSent(o) ELSE {0}
    BY <1>4, <1>5, <2>1 DEF CountInv, PatchesOnce
  <2> QED BY <1>1, <2>2, FaultsStay DEF PatchesOnce, Stored
<1>7. inserted + 1 <= Cardinality((batch \ todo') \cap Stored(work'))
  <2> DEFINE S == (batch \ todo) \cap Stored(work)
  <2>1. (batch \ todo') \cap Stored(work') = S \cup {m} /\ m \notin S
    BY <1>1, <1>2, <1>5
  <2>2. IsFiniteSet(S) /\ Cardinality(S) \in Nat
    BY <1>2, FS_Subset, FS_CardinalityType
  <2>3. Cardinality(S \cup {m}) = Cardinality(S) + 1
    BY <2>1, <2>2, FS_AddElement
  <2>4. inserted <= Cardinality(S) /\ inserted \in Nat
    BY <1>1 DEF CountInv, Counted
  <2>5. Cardinality((batch \ todo') \cap Stored(work')) = Cardinality(S) + 1
    BY <2>1, <2>3
  <2> HIDE DEF S
  <2> QED BY <2>2, <2>4, <2>5
<1>8. Counted'
  BY <1>1, <1>7 DEF CountInv, Counted
<1> QED BY <1>6, <1>8

\* Every other step keeps it too.
LEMMA CountNext == ASSUME IsFiniteSet(Msgs), CountInv, [Next]_vars PROVE CountInv'
<1>1. FilesInv'
  BY FilesNext DEF CountInv
<1>0. setting' = setting
  BY SettingStays
<1>2. ASSUME NEW d \in {db, work}, NEW e \in {db, work},
             db'.thread = d.thread, db'.patches = d.patches, work'.thread = e.thread, work'.patches = e.patches
      PROVE  PatchesOnce(db)' /\ PatchesOnce(work)'
  BY <1>0, <1>2, SamePatches DEF CountInv, PatchesOnce, Stored
<1>3. ASSUME Exit, UNCHANGED <<setting, db>> PROVE CountInv'
  BY <1>1, <1>2, <1>3 DEF CountInv, Exit, Counted
<1>4. ASSUME UNCHANGED <<setting, db, work, tx, pc, batch, todo, inserted>> PROVE CountInv'
  BY <1>1, <1>2, <1>4, FaultsStay DEF CountInv, Counted, Stored
<1>5. ASSUME NEW m \in Msgs, InsertMessage(m) PROVE CountInv'
  <2>1. db' = db
    BY <1>5 DEF InsertMessage
  <2>2. PatchesOnce(db)'
    BY <1>0, <2>1, FaultsStay DEF CountInv, PatchesOnce, Stored
  <2> QED BY <1>1, <1>5, <2>2, InsertPatches DEF CountInv
<1>6. ASSUME NEW m \in Msgs, InsertKnown(m) \/ InsertFails(m) PROVE CountInv'
  <2>1. /\ UNCHANGED <<setting, db, work, pc, batch>> /\ pc = "insert"
        /\ todo' = todo \ {m} /\ inserted' \in {inserted, inserted + 1}
        /\ tx' = "open" => tx = "open" /\ inserted' = inserted
    <3>1. PatchRejected \subseteq Rejected
      BY DEF PatchRejected, Rejected, With
    <3>2. inserted \in Nat
      BY DEF CountInv, Counted
    <3>3. CASE InsertKnown(m)
      BY <3>2, <3>3 DEF InsertKnown, current
    <3>4. CASE InsertFails(m)
      <4>1. CASE m \in Rejected \ Unencodable
        BY <3>2, <3>4, <4>1 DEF InsertFails, current
      <4>2. CASE m \notin Rejected \ Unencodable
        BY <3>1, <3>2, <3>4, <4>2 DEF InsertFails, current
      <4> QED BY <4>1, <4>2
    <3> QED BY <1>6, <3>3, <3>4
  <2>2. tx' = "open" => Cardinality((batch \ todo) \cap Stored(work))
                          <= Cardinality((batch \ todo') \cap Stored(work))
    <3>1. (batch \ todo) \cap Stored(work) \subseteq (batch \ todo') \cap Stored(work)
      BY <1>6 DEF InsertKnown, InsertFails
    <3>2. IsFiniteSet((batch \ todo') \cap Stored(work))
      BY FS_Subset DEF CountInv, FilesInv, FilesTyped
    <3> QED BY <3>1, <3>2, FS_Subset
  <2>3. /\ Cardinality((batch \ todo) \cap Stored(work)) \in Nat
        /\ Cardinality((batch \ todo') \cap Stored(work)) \in Nat
    BY FS_Subset, FS_CardinalityType DEF CountInv, FilesInv, FilesTyped
  <2>4. Counted'
    BY <1>6, <2>1, <2>2, <2>3 DEF CountInv, Counted, Stored
  <2> QED BY <1>1, <1>2, <2>1, <2>4 DEF CountInv
<1>7. CASE UpsertThreads
  <2>1. /\ work'.thread = work.thread /\ work'.patches = work.patches /\ db' = db
        /\ inserted' = 0 /\ pc = "upsert" /\ pc' = "insert" /\ batch' = batch
    BY <1>7 DEF UpsertThreads, current, CountInv, FilesInv, RowsInv, Tables
  <2>2. Cardinality((batch' \ todo') \cap Stored(work')) \in Nat
    BY <1>1, FS_Subset, FS_CardinalityType DEF FilesInv, FilesTyped
  <2>3. Counted'
    BY <2>1, <2>2 DEF CountInv, Counted
  <2> QED BY <1>1, <1>2, <2>1, <2>3 DEF CountInv
<1>8. CASE ParseFile
  <2>1. UNCHANGED <<db, work, inserted>> /\ pc = "next" /\ pc' = IF batch' = {} THEN "record" ELSE "upsert"
    BY <1>8 DEF ParseFile
  <2>2. Cardinality(batch' \cap Stored(work')) \in Nat
    BY <1>1, FS_Subset, FS_CardinalityType DEF FilesInv, FilesTyped
  <2>3. Counted'
    BY <2>1, <2>2 DEF CountInv, Counted
  <2> QED BY <1>1, <1>2, <2>1, <2>3 DEF CountInv
<1>9. CASE StartRun
  BY <1>1, <1>2, <1>9 DEF StartRun, locals, CountInv, Counted
<1>10. CASE ReleaseSavepoint \/ CommitBatch
  <2>1. /\ UNCHANGED <<setting, batch, inserted>> /\ pc = "insert" /\ pc' = "record" /\ todo = {}
        /\ db' \in {db, work} /\ work' \in {db, work}
        /\ tx = "open" => work' = work
    BY <1>10 DEF ReleaseSavepoint, CommitBatch, locals
  <2>2. PatchesOnce(db)' /\ PatchesOnce(work)'
    BY <1>2, <2>1
  <2>3. batch \cap Rejected = {} => tx = "open"
    BY <2>1 DEF CountInv, FilesInv, Inserts
  <2>4. batch # {}
    BY <2>1 DEF CountInv, Counted
  <2>5. Counted'
    BY <2>1, <2>3, <2>4, FaultsStay DEF CountInv, Counted, Stored
  <2> QED BY <1>1, <2>2, <2>5 DEF CountInv
<1>11. CASE RecordIngestion
  <2>1. /\ db'.thread = work.thread /\ db'.patches = work.patches /\ work' = db'
        /\ UNCHANGED <<batch, inserted>> /\ pc = "record"
        /\ pc' = IF batch = {} THEN "next" ELSE "classify"
    BY <1>11 DEF RecordIngestion, locals, CountInv, FilesInv, RowsInv, Tables
  <2>2. PatchesOnce(db)' /\ PatchesOnce(work)'
    BY <1>2, <2>1
  <2>3. Counted'
    BY <2>1 DEF CountInv, Counted
  <2> QED BY <1>1, <2>2, <2>3 DEF CountInv
<1>12. CASE ClassifyThreads
  <2>1. /\ db'.thread = db.thread /\ db'.patches = db.patches /\ work' = db'
        /\ inserted' = 0 /\ pc' = "next"
    BY <1>12 DEF ClassifyThreads, Classified, Forget, CountInv, FilesInv, RowsInv, Tables
  <2>2. PatchesOnce(db)' /\ PatchesOnce(work)'
    BY <1>2, <2>1
  <2>3. Counted'
    BY <2>1 DEF Counted
  <2> QED BY <1>1, <2>2, <2>3 DEF CountInv
<1>13. CASE ParseRaises \/ EndRun \/ UpsertRaises \/ ReleaseRaises \/ Crash
  BY <1>3, <1>13 DEF ParseRaises, EndRun, UpsertRaises, ReleaseRaises, Crash
<1>14. ASSUME NEW f \in Files, Download(f) PROVE CountInv'
  BY <1>4, <1>14 DEF Download, locals
<1>15. CASE UNCHANGED vars
  BY <1>4, <1>15 DEF vars
<1> QED BY <1>5, <1>6, <1>7, <1>8, <1>9, <1>10, <1>11, <1>12, <1>13, <1>14, <1>15 DEF Next, Run

\* Over crashes, reruns, cross-posts and messages or patches that fail: threads exist, the
\* patches of a message are stored with it and once, all of them unless one cannot be sent,
\* and insert_batch counts what is there unless the server rolled it back.
THEOREM RowsAreConsistent ==
    ASSUME IsFiniteSet(Msgs)
    PROVE  Spec => []RowsConsistent
<1>1. Init => CountInv
  BY FilesInit DEF Init, EmptyTables, CountInv, PatchesOnce, Counted, Stored
<1>2. CountInv /\ [Next]_vars => CountInv'
  BY CountNext
<1>3. CountInv => RowsConsistent
  <2> SUFFICES ASSUME CountInv PROVE RowsConsistent
      OBVIOUS
  <2>1. ASSUME NEW d \in {db, work}, NEW m \in Msgs
        PROVE  /\ m \in Stored(d) => d.thread[m] \in d.threads
               /\ d.patches[m] <= IF m \in Stored(d) THEN Carries[m] ELSE 0
               /\ m \in Stored(d) \ PatchesCut => d.patches[m] = Carries[m]
    <3>1. ThreadExists(d) /\ PatchesOnce(d)
      BY DEF CountInv, FilesInv, RowsInv
    <3> QED BY <3>1, SentType DEF ThreadExists, PatchesOnce
  <2> QED BY <2>1 DEF CountInv, Counted, RowsConsistent
<1> QED BY <1>1, <1>2, <1>3, PTL DEF Spec

-----------------------------------------------------------------------------
(* Orderings *)

\* A set of positions has a last one.
LEMMA LastPosition ==
    ASSUME NEW n \in Nat, NEW S \in SUBSET (1 .. n), S # {}
    PROVE  Max(S) \in S /\ \A i \in S : i <= Max(S)
<1> DEFINE T == {i .. n : i \in S}
<1>1. T \in SUBSET FiniteSubsetsOf(Int) /\ T # {}
  <2>1. ASSUME NEW i \in S PROVE (i .. n) \in FiniteSubsetsOf(Int)
    <3>1. i \in Int /\ n \in Int /\ i .. n \subseteq Int
      OBVIOUS
    <3> QED BY <3>1, FS_Interval DEF FiniteSubsetsOf
  <2> QED BY <2>1
<1>2. PICK x \in T : \A y \in T : y \subseteq x => y = x
  <2> HIDE DEF T
  <2> QED BY <1>1, LeastSet
<1>3. PICK i \in S : x = i .. n
  OBVIOUS
<1>4. ASSUME NEW j \in S, j > i PROVE FALSE
  <2>1. (j .. n) \in T /\ (j .. n) \subseteq (i .. n)
    BY <1>4
  <2>2. i \in i .. n /\ i \notin j .. n
    BY <1>4
  <2> QED BY <1>2, <1>3, <2>1, <2>2
<1>5. \A j \in S : i >= j
  BY <1>4
<1> QED BY <1>5 DEF Max

\* A sequence of a set lists each member once.
LEMMA Listing ==
    ASSUME NEW S, IsFiniteSet(S), NEW s \in SetToSeqs(S)
    PROVE  /\ s \in Seq(S) /\ Len(s) = Cardinality(S) /\ Len(s) \in Nat /\ DOMAIN s = 1 .. Len(s)
           /\ \A i \in 1 .. Len(s) : s[i] \in S
           /\ \A i, j \in 1 .. Len(s) : i # j => s[i] # s[j]
           /\ \A x \in S : \E i \in 1 .. Len(s) : s[i] = x
<1> DEFINE n == Cardinality(S)
<1>1. n \in Nat
  BY FS_CardinalityType
<1>2. s \in [1 .. n -> S] /\ \A i, j \in 1 .. n : i # j => s[i] # s[j]
  BY DEF SetToSeqs
<1>3. s \in Injection(1 .. n, S)
  BY <1>2 DEF Injection, IsInjective
<1>4. Cardinality(1 .. n) = n
  BY <1>1, FS_Interval
<1>5. s \in Surjection(1 .. n, S)
  BY <1>3, <1>4, FS_Injection
<1>6. s \in Seq(S) /\ Len(s) = n
  BY <1>1, <1>2
<1> QED BY <1>1, <1>2, <1>5, <1>6 DEF Surjection

-----------------------------------------------------------------------------
(* Statuses *)

\* What the classifier answers: the last conclusion of the latter half, or whether there are
\* patches; the two newest messages are always in the latter half.
LEMMA Classification ==
    ASSUME NEW S \in SUBSET Msgs, NEW s \in Seq(S), NEW hasPatches \in BOOLEAN,
           setting \in Settings
    PROVE  LET latter == {i \in 1 .. Len(s) : i > LatterStart(Len(s)) /\ Concludes[s[i]] # "none"}
           IN /\ LatterStart(Len(s)) \in Nat
              /\ \A i \in 1 .. Len(s) : i > Len(s) - 2 => i > LatterStart(Len(s))
              /\ latter # {} => Classify(s, hasPatches) \in Conclusions
              /\ latter = {} => Classify(s, hasPatches) = IF hasPatches THEN "patch_proposed" ELSE "discussion"
<1> DEFINE n == Len(s)
           latter == {i \in 1 .. n : i > LatterStart(n) /\ Concludes[s[i]] # "none"}
<1>1. n \in Nat /\ n \div 2 \in Nat /\ n \div 2 <= n
  OBVIOUS
<1>2. LatterStart(n) = IF n \div 2 >= 2 THEN n - n \div 2 ELSE IF n >= 2 THEN n - 2 ELSE 0
  <2>1. Max({n \div 2, 2}) = IF n \div 2 >= 2 THEN n \div 2 ELSE 2
    BY <1>1 DEF Max
  <2>2. \A k \in Int : Max({0, k}) = IF k >= 0 THEN k ELSE 0
    BY DEF Max
  <2> DEFINE k == n - (IF n \div 2 >= 2 THEN n \div 2 ELSE 2)
  <2>3. k \in Int /\ LatterStart(n) = Max({0, k})
    <3>1. k \in Int
      BY <1>1
    <3>2. LatterStart(n) = Max({0, n - Max({n \div 2, 2})})
      BY DEF LatterStart
    <3> QED BY <3>1, <3>2, <2>1
  <2>4. LatterStart(n) = IF k >= 0 THEN k ELSE 0
    BY <2>2, <2>3
  <2> QED BY <1>1, <2>4
<1>3. LatterStart(n) \in Nat /\ \A i \in 1 .. n : i > n - 2 => i > LatterStart(n)
  BY <1>1, <1>2
<1>4. {i \in (LatterStart(n) + 1) .. n : Concludes[s[i]] # "none"} = latter
  BY <1>1, <1>3
<1>5. Classify(s, hasPatches) = IF latter # {} THEN Concludes[s[Max(latter)]]
                                ELSE IF hasPatches THEN "patch_proposed" ELSE "discussion"
  BY <1>4 DEF Classify
<1>6. ASSUME latter # {} PROVE Concludes[s[Max(latter)]] \in Conclusions
  <2>1. Max(latter) \in latter
    BY <1>1, <1>6, LastPosition
  <2>2. s[Max(latter)] \in Msgs /\ Concludes[s[Max(latter)]] # "none"
    BY <2>1
  <2> QED BY <2>2, SettingsAssumption DEF Concludes
<1> QED BY <1>3, <1>5, <1>6

\* So every answer is a status.
LEMMA StatusType ==
    ASSUME IsFiniteSet(Msgs), setting \in Settings, NEW d, NEW t
    PROVE  StatusesOf(d, t) \subseteq Statuses
<1> DEFINE S == InThread(d, t)
           hasPatches == \E m \in S : d.patches[m] > 0
<1>1. S \in SUBSET Msgs /\ IsFiniteSet(S) /\ hasPatches \in BOOLEAN
  BY FS_Subset DEF InThread
<1> HIDE DEF S, hasPatches
<1>2. ASSUME NEW s \in Chronological(S) PROVE Classify(s, hasPatches) \in Statuses
  <2>1. s \in Seq(S)
    BY <1>1, Listing DEF Chronological
  <2> QED BY <1>1, <2>1, Classification DEF Statuses
<1> QED BY <1>2 DEF StatusesOf, S, hasPatches

\* The statuses of a thread are those of its messages and patches.
LEMMA StatusesStay ==
    ASSUME UNCHANGED setting, NEW t, InThread(db, t)' = InThread(db, t),
           \A m \in InThread(db, t) : db'.patches[m] = db.patches[m]
    PROVE  StatusesOf(db, t)' = StatusesOf(db, t)
<1>1. (\E m \in InThread(db, t) : db.patches[m] > 0)' = (\E m \in InThread(db, t) : db.patches[m] > 0)
  OBVIOUS
<1>2. Chronological(InThread(db, t))' = Chronological(InThread(db, t))
  BY DEF Chronological, Sent
<1>3. \A s, p : Classify(s, p)' = Classify(s, p)
  BY DEF Classify, Concludes
<1> QED BY <1>1, <1>2, <1>3 DEF StatusesOf

\* The columns of TypeOK that nothing above speaks of, and where a run is.
ColumnsTyped ==
    /\ \A d \in {db, work} : /\ d.threads \subseteq Msgs
                             /\ d.thread \in [Msgs -> Msgs \cup {NoMsg}]
                             /\ d.status \in [Msgs -> Statuses]
    /\ affected \subseteq Msgs
StepsTyped ==
    /\ tx \in {"idle", "open", "aborted"} /\ nested \in BOOLEAN
    /\ pc \in {"off", "next", "upsert", "insert", "record", "classify"}
    /\ file \in Files \cup {NoFile} /\ crashes \in Nat
    /\ todo \subseteq batch /\ (pc # "insert" => todo = {})
    /\ inserted <= Cardinality(batch \ todo)
    /\ pc \in {"off", "next", "upsert"} => inserted = 0

\* Between the files of a run nothing is pending; within one, only affected threads change.
OnlyAffected ==
    /\ work.status = db.status
    /\ pc \in {"off", "next", "upsert"} => work = db
    /\ pc \in {"off", "next", "upsert"} \/ batch = {} => affected = {}
    /\ pc = "insert" => \A m \in batch : ThreadOf(m) \in affected
    /\ \A m \in Msgs : work.thread[m] # db.thread[m] => work.thread[m] \in affected
    /\ work.threads \subseteq db.threads \cup affected

\* And as long as no run dies, a status is that of an older state of the thread only for an
\* affected thread that is about to be classified.
Current ==
    crashes = 0 =>
        \A t \in db.threads :
            ~(pc \in {"record", "classify"} /\ t \in affected) => db.status[t] \in StatusesOf(db, t)

StatusInv == CountInv /\ ColumnsTyped /\ StepsTyped /\ OnlyAffected /\ Current

LEMMA StatusInit == ASSUME IsFiniteSet(Msgs), Init PROVE StatusInv
<1>1. CountInv
  BY FilesInit DEF Init, EmptyTables, CountInv, PatchesOnce, Counted, Stored
<1>2. ColumnsTyped /\ OnlyAffected /\ Current
  BY DEF Init, EmptyTables, ColumnsTyped, OnlyAffected, Current, Statuses
<1>3. StepsTyped
  <2>1. batch \ todo = {}
    BY DEF Init
  <2>2. Cardinality(batch \ todo) = 0
    BY <2>1, FS_EmptySet
  <2>3. inserted <= Cardinality(batch \ todo)
    <3> inserted = 0
      BY DEF Init
    <3> QED BY <2>2
  <2> QED BY <2>3 DEF Init, StepsTyped
<1> QED BY <1>1, <1>2, <1>3 DEF StatusInv

\* A run that ends or dies.
LEMMA ExitStatus ==
    ASSUME StatusInv, CountInv', Exit, UNCHANGED <<setting, db>>, crashes' \in Nat,
           crashes' = 0 => crashes = 0 /\ pc \notin {"record", "classify"}
    PROVE  StatusInv'
<1>1. ColumnsTyped' /\ OnlyAffected'
  BY DEF StatusInv, ColumnsTyped, OnlyAffected, Exit
<1>2. StepsTyped'
  <2>1. batch' \ todo' = {}
    BY DEF Exit
  <2>2. Cardinality(batch' \ todo') = 0
    BY <2>1, FS_EmptySet
  <2>3. inserted' <= Cardinality(batch' \ todo')
    <3> inserted' = 0
      BY DEF Exit
    <3> QED BY <2>2
  <2> QED BY <2>3 DEF Exit, StepsTyped
<1>3. ASSUME crashes' = 0, NEW t \in db.threads PROVE db.status[t] \in StatusesOf(db, t)'
  <2>1. db.status[t] \in StatusesOf(db, t)
    BY <1>3 DEF StatusInv, Current
  <2>2. InThread(db, t)' = InThread(db, t)
    BY DEF InThread
  <2> QED BY <2>1, <2>2, StatusesStay
<1>4. Current'
  BY <1>3 DEF Current
<1> QED BY <1>1, <1>2, <1>4 DEF StatusInv

\* Steps that leave what is committed, and make no thread current that was not.
LEMMA WorkStatus ==
    ASSUME StatusInv, UNCHANGED <<setting, db, crashes>>,
           pc \in {"record", "classify"} => pc' = pc /\ affected \subseteq affected'
    PROVE  Current'
<1>1. ASSUME NEW t \in db.threads, crashes = 0, db.status[t] \in StatusesOf(db, t)
      PROVE  db'.status[t] \in StatusesOf(db, t)'
  <2>1. InThread(db, t)' = InThread(db, t)
    BY DEF InThread
  <2> QED BY <1>1, <2>1, StatusesStay
<1> QED BY <1>1 DEF StatusInv, Current

\* What insert_batch does to the affected threads.
LEMMA InsertStatus ==
    ASSUME StatusInv, CountInv', IsFiniteSet(Msgs),
           UpsertThreads \/ \E m \in Msgs : InsertMessage(m) \/ InsertKnown(m) \/ InsertFails(m)
    PROVE  StatusInv'
<1>1. UNCHANGED <<setting, db, batch, crashes, file>> /\ pc' = "insert" /\ pc \in {"upsert", "insert"}
  BY DEF UpsertThreads, InsertMessage, InsertKnown, InsertFails, current
<1>2. Current'
  BY <1>1, WorkStatus
<1>3. setting \in Settings /\ batch \subseteq Msgs /\ RowsInv /\ Files' = Files /\ Counted
  BY <1>1 DEF StatusInv, CountInv, FilesInv, FilesTyped, Files, Contents
<1>4. \A m \in batch : ThreadOf(m)' = ThreadOf(m) /\ ThreadOf(m) \in Msgs
  <2>1. \A m \in batch : ThreadOf(m) \in Msgs
    BY <1>3, RootsAreMessages
  <2>2. \A m \in batch : ThreadOf(m)' = ThreadOf(m)
    BY <1>1 DEF ThreadOf, Parent, Ref
  <2> QED BY <2>1, <2>2
<1>5. CASE UpsertThreads
  <2>1. /\ affected' = {ThreadOf(m) : m \in batch} /\ todo' = batch /\ inserted' = 0
        /\ work' = [work EXCEPT !.threads = @ \cup affected']
        /\ tx' = "open" /\ nested' \in BOOLEAN /\ pc = "upsert"
    BY <1>5 DEF UpsertThreads
  <2>2. work'.thread = work.thread /\ work'.status = work.status /\ work'.threads = work.threads \cup affected'
    BY <1>3, <2>1 DEF RowsInv, Tables
  <2>3. ColumnsTyped'
    BY <1>1, <1>4, <2>1, <2>2 DEF StatusInv, ColumnsTyped
  <2>4. StepsTyped'
    BY <1>1, <1>3, <2>1, FS_EmptySet DEF StatusInv, StepsTyped
  <2>5. OnlyAffected'
    BY <1>1, <1>3, <1>4, <2>1, <2>2 DEF StatusInv, OnlyAffected, Counted
  <2> QED BY <1>2, <2>3, <2>4, <2>5 DEF StatusInv
<1>6. ASSUME NEW m \in todo, pc = "insert", todo' = todo \ {m}, inserted' \in {inserted, inserted + 1},
             UNCHANGED <<nested, affected>>, tx' \in {"open", "aborted", tx}
      PROVE  StepsTyped' /\ affected' \subseteq Msgs
  <2>1. m \in batch /\ m \notin batch \ todo /\ batch \ todo' = (batch \ todo) \cup {m} /\ todo' \subseteq batch
    BY <1>6 DEF StatusInv, StepsTyped
  <2>2. IsFiniteSet(batch \ todo)
    BY <1>3, FS_Subset
  <2>3. Cardinality(batch \ todo') = Cardinality(batch \ todo) + 1 /\ Cardinality(batch \ todo) \in Nat
    BY <2>1, <2>2, FS_AddElement, FS_CardinalityType
  <2>4. inserted' <= Cardinality(batch \ todo')
    BY <1>3, <1>6, <2>3 DEF StatusInv, StepsTyped, Counted
  <2> QED BY <1>1, <1>3, <1>6, <2>1, <2>4 DEF StatusInv, StepsTyped, ColumnsTyped
<1>7. ASSUME NEW m \in Msgs, InsertMessage(m) PROVE StatusInv'
  <2>1. /\ \E n : work' = [work EXCEPT !.thread[m] = ThreadOf(m), !.patches[m] = @ + n]
        /\ m \in todo /\ todo' = todo \ {m} /\ pc = "insert" /\ inserted' = inserted + 1
        /\ UNCHANGED <<tx, nested, affected>>
    BY <1>7 DEF InsertMessage
  <2>2. /\ work'.thread = [work.thread EXCEPT ![m] = ThreadOf(m)]
        /\ work'.status = work.status /\ work'.threads = work.threads
    BY <1>3, <2>1 DEF RowsInv, Tables
  <2>3. m \in batch
    BY <2>1 DEF StatusInv, StepsTyped
  <2>4. ThreadOf(m) \in affected
    BY <2>1, <2>3 DEF StatusInv, OnlyAffected
  <2>5. ColumnsTyped'
    BY <1>1, <1>4, <2>1, <2>2, <2>3 DEF StatusInv, ColumnsTyped
  <2>6. OnlyAffected'
    BY <1>1, <1>3, <1>4, <2>1, <2>2, <2>4 DEF StatusInv, OnlyAffected, ColumnsTyped, Counted
  <2> QED BY <1>2, <1>6, <2>1, <2>5, <2>6 DEF StatusInv
<1>8. ASSUME NEW m \in Msgs, InsertKnown(m) \/ InsertFails(m) PROVE StatusInv'
  <2>1. /\ m \in todo /\ todo' = todo \ {m} /\ pc = "insert"
        /\ UNCHANGED <<work, nested, affected>> /\ tx' \in {"aborted", tx}
        /\ inserted' \in {inserted, inserted + 1}
    BY <1>3, <1>8 DEF InsertKnown, InsertFails, Counted
  <2>2. ColumnsTyped' /\ OnlyAffected'
    BY <1>1, <1>3, <1>4, <2>1 DEF StatusInv, ColumnsTyped, OnlyAffected, Counted
  <2> QED BY <1>2, <1>6, <2>1, <2>2 DEF StatusInv
<1> QED BY <1>5, <1>7, <1>8

\* The end of insert_batch publishes affected threads only.
LEMMA CommitStatus ==
    ASSUME StatusInv, CountInv', IsFiniteSet(Msgs), ReleaseSavepoint \/ CommitBatch
    PROVE  StatusInv'
<1>1. /\ UNCHANGED <<setting, batch, todo, inserted, affected, crashes, file, nested>>
      /\ pc = "insert" /\ pc' = "record" /\ todo = {} /\ tx' \in {"idle", tx}
      /\ \/ UNCHANGED <<db, work>>
         \/ db' = work /\ work' = work
         \/ db' = db /\ work' = db
  <2>1. CASE ReleaseSavepoint
    BY <2>1 DEF ReleaseSavepoint, locals
  <2>2. CASE CommitBatch
    BY <2>2 DEF CommitBatch, locals
  <2> QED BY <2>1, <2>2
<1>2. Files' = Files /\ batch # {} /\ RowsInv
  BY <1>1 DEF StatusInv, CountInv, FilesInv, Files, Contents, Counted
<1>3. ColumnsTyped' /\ StepsTyped' /\ OnlyAffected'
  BY <1>1, <1>2 DEF StatusInv, ColumnsTyped, StepsTyped, OnlyAffected
<1>4. ASSUME crashes = 0, NEW t \in db'.threads, t \notin affected
      PROVE  db'.status[t] \in StatusesOf(db, t)'
  <2>1. t \in db.threads /\ t \in Msgs /\ db'.status = db.status
    BY <1>1, <1>4 DEF StatusInv, OnlyAffected, ColumnsTyped
  <2>2. db.status[t] \in StatusesOf(db, t)
    BY <1>1, <1>4, <2>1 DEF StatusInv, Current
  <2>3. t # NoMsg
    BY <2>1, NoMsgAssumption
  <2>4. ASSUME NEW m \in Msgs PROVE (work.thread[m] = t) = (db.thread[m] = t)
    <3>1. db.thread[m] = t => work.thread[m] = t
      BY <1>2, <2>3 DEF RowsInv, Extends, Stored
    <3>2. work.thread[m] = t => db.thread[m] = t
      BY <1>4 DEF StatusInv, OnlyAffected
    <3> QED BY <3>1, <3>2
  <2>5. InThread(db, t)' = InThread(db, t)
    BY <1>1, <2>4 DEF InThread
  <2>6. ASSUME NEW m \in InThread(db, t) PROVE db'.patches[m] = db.patches[m]
    <3>1. m \in Msgs /\ m \in Stored(db) /\ m \in Stored(work)
      BY <2>3, <2>4, <2>6 DEF InThread, Stored
    <3> QED BY <1>1, <1>2, <3>1 DEF RowsInv, Extends
  <2> QED BY <1>1, <2>1, <2>2, <2>5, <2>6, StatusesStay
<1>5. Current'
  BY <1>1, <1>4 DEF Current
<1> QED BY <1>3, <1>5 DEF StatusInv

\* The log entry goes with the batch, and its threads are classified next.
LEMMA RecordStatus ==
    ASSUME StatusInv, CountInv', IsFiniteSet(Msgs), RecordIngestion
    PROVE  StatusInv'
<1>1. /\ db' = [work EXCEPT !.log[file] = mtime] /\ work' = db' /\ pc = "record"
      /\ pc' = (IF batch = {} THEN "next" ELSE "classify") /\ tx' = "idle" /\ nested' = FALSE
      /\ UNCHANGED <<setting, batch, todo, inserted, affected, crashes, file>>
  BY DEF RecordIngestion, locals
<1>2. Files' = Files /\ RowsInv /\ Counted
  BY <1>1 DEF StatusInv, CountInv, FilesInv, Files, Contents
<1>3. /\ db'.thread = work.thread /\ db'.threads = work.threads /\ db'.status = work.status
      /\ db'.patches = work.patches
  BY <1>1, <1>2 DEF RowsInv, Tables
<1>4. ColumnsTyped' /\ StepsTyped' /\ OnlyAffected'
  BY <1>1, <1>2, <1>3 DEF StatusInv, ColumnsTyped, StepsTyped, OnlyAffected, Counted
<1>5. ASSUME crashes = 0, NEW t \in db'.threads, t \notin affected
      PROVE  db'.status[t] \in StatusesOf(db, t)'
  <2>1. t \in db.threads /\ t \in Msgs /\ db'.status = db.status
    BY <1>3, <1>5 DEF StatusInv, OnlyAffected, ColumnsTyped
  <2>2. db.status[t] \in StatusesOf(db, t)
    BY <1>1, <1>5, <2>1 DEF StatusInv, Current
  <2>3. t # NoMsg
    BY <2>1, NoMsgAssumption
  <2>4. ASSUME NEW m \in Msgs PROVE (work.thread[m] = t) = (db.thread[m] = t)
    <3>1. db.thread[m] = t => work.thread[m] = t
      BY <1>2, <2>3 DEF RowsInv, Extends, Stored
    <3>2. work.thread[m] = t => db.thread[m] = t
      BY <1>5 DEF StatusInv, OnlyAffected
    <3> QED BY <3>1, <3>2
  <2>5. InThread(db, t)' = InThread(db, t)
    BY <1>3, <2>4 DEF InThread
  <2>6. ASSUME NEW m \in InThread(db, t) PROVE db'.patches[m] = db.patches[m]
    <3>1. m \in Msgs /\ m \in Stored(db) /\ m \in Stored(work)
      BY <2>3, <2>4, <2>6 DEF InThread, Stored
    <3> QED BY <1>2, <1>3, <3>1 DEF RowsInv, Extends
  <2> QED BY <1>1, <2>1, <2>2, <2>5, <2>6, StatusesStay
<1>6. batch = {} => affected = {}
  BY DEF StatusInv, OnlyAffected
<1>7. Current'
  BY <1>1, <1>5, <1>6 DEF Current
<1> QED BY <1>4, <1>7 DEF StatusInv

\* After it every thread is current.
LEMMA ClassifyStatus ==
    ASSUME StatusInv, CountInv', IsFiniteSet(Msgs), ClassifyThreads
    PROVE  StatusInv'
<1>1. PICK status \in [affected -> UNION {StatusesOf(db, t) : t \in affected}] :
          /\ \A t \in affected : status[t] \in StatusesOf(db, t)
          /\ db' = [db EXCEPT !.status = [t \in Msgs |-> IF t \in affected THEN status[t] ELSE @[t]]]
  BY DEF ClassifyThreads, Classified
<1>2. /\ work' = db' /\ pc = "classify" /\ pc' = "next" /\ UNCHANGED <<setting, tx, nested, crashes>>
      /\ file' = NoFile /\ batch' = {} /\ todo' = {} /\ inserted' = 0 /\ affected' = {}
  BY DEF ClassifyThreads, Forget
<1>3. /\ db'.thread = db.thread /\ db'.threads = db.threads /\ db'.patches = db.patches
      /\ db'.status = [t \in Msgs |-> IF t \in affected THEN status[t] ELSE db.status[t]]
  BY <1>1 DEF StatusInv, CountInv, FilesInv, RowsInv, Tables
<1>4. setting \in Settings
  BY DEF StatusInv, CountInv, FilesInv, FilesTyped
<1>5. \A t \in affected : status[t] \in Statuses
  BY <1>1, <1>4, StatusType
<1>6. ColumnsTyped' /\ OnlyAffected'
  BY <1>2, <1>3, <1>5 DEF StatusInv, ColumnsTyped, OnlyAffected
<1>7. StepsTyped'
  <2>1. Cardinality(batch' \ todo') = 0
    BY <1>2, FS_EmptySet
  <2> QED BY <1>2, <2>1 DEF StatusInv, StepsTyped
<1>8. ASSUME crashes = 0, NEW t \in db.threads PROVE db'.status[t] \in StatusesOf(db, t)'
  <2>1. db'.status[t] \in StatusesOf(db, t)
    BY <1>1, <1>2, <1>3, <1>8 DEF StatusInv, Current, ColumnsTyped
  <2>2. InThread(db, t)' = InThread(db, t)
    BY <1>3 DEF InThread
  <2> QED BY <1>2, <1>3, <2>1, <2>2, StatusesStay
<1>9. Current'
  BY <1>2, <1>3, <1>8 DEF Current
<1> QED BY <1>6, <1>7, <1>9 DEF StatusInv

LEMMA StatusNext == ASSUME IsFiniteSet(Msgs), StatusInv, [Next]_vars PROVE StatusInv'
<1>1. CountInv'
  BY CountNext DEF StatusInv
<1>2. CASE ParseRaises \/ EndRun \/ UpsertRaises \/ ReleaseRaises
  BY <1>1, <1>2, ExitStatus DEF ParseRaises, EndRun, UpsertRaises, ReleaseRaises, StatusInv, StepsTyped
<1>3. CASE Crash
  <2>1. crashes' \in Nat \ {0}
    BY <1>3 DEF Crash, StatusInv, StepsTyped
  <2> QED BY <1>1, <1>3, <2>1, ExitStatus DEF Crash
<1>4. ASSUME UNCHANGED <<setting, db, work, pc, batch, todo, inserted, affected, crashes, file, tx, nested>>
      PROVE  StatusInv'
  <2>1. Current'
    BY <1>4, WorkStatus
  <2> QED BY <1>1, <1>4, <2>1
          DEF StatusInv, ColumnsTyped, StepsTyped, OnlyAffected, Files, Contents, ThreadOf, Parent, Ref
<1>5. ASSUME NEW f \in Files, Download(f) PROVE StatusInv'
  BY <1>4, <1>5 DEF Download, locals
<1>6. CASE UNCHANGED vars
  BY <1>4, <1>6 DEF vars
<1>7. CASE StartRun
  <2>1. /\ UNCHANGED <<setting, db, work, batch, todo, inserted, affected, crashes, file, nested>>
        /\ pc = "off" /\ pc' = "next" /\ tx' = "open"
    BY <1>7 DEF StartRun, locals
  <2>2. Current'
    BY <2>1, WorkStatus
  <2> QED BY <1>1, <2>1, <2>2 DEF StatusInv, ColumnsTyped, StepsTyped, OnlyAffected, Files, Contents
<1>8. CASE ParseFile
  <2>1. /\ UNCHANGED <<setting, db, work, todo, inserted, affected, crashes, tx, nested>>
        /\ pc = "next" /\ pc' \in {"record", "upsert"}
    BY <1>8 DEF ParseFile
  <2>2. file' \in Files
    BY <1>8 DEF ParseFile, StatusInv, CountInv, FilesInv, Reads
  <2>3. Current'
    BY <2>1, WorkStatus
  <2>4. IsFiniteSet(batch' \ {}) /\ todo = {} /\ inserted = 0
    BY <1>1, <2>1, FS_Subset DEF CountInv, FilesInv, FilesTyped, StatusInv, StepsTyped
  <2>5. Cardinality(batch' \ todo') \in Nat
    BY <2>1, <2>4, FS_CardinalityType
  <2> QED BY <1>1, <2>1, <2>2, <2>3, <2>4, <2>5
          DEF StatusInv, ColumnsTyped, StepsTyped, OnlyAffected, Files, Contents
<1> QED BY <1>1, <1>2, <1>3, <1>5, <1>6, <1>7, <1>8, InsertStatus, CommitStatus, RecordStatus,
           ClassifyStatus DEF Next, Run

LEMMA Three ==
    ASSUME NEW a, NEW b, NEW c, a # b, c # a, c # b
    PROVE  Cardinality({a, b, c}) = 3
<1>1. IsFiniteSet({a}) /\ Cardinality({a}) = 1
  BY FS_Singleton
<1>2. IsFiniteSet({a} \cup {b}) /\ Cardinality({a} \cup {b}) = 2
  <2>1. b \notin {a}
    OBVIOUS
  <2>2. Cardinality({a} \cup {b}) = Cardinality({a}) + 1
    BY <1>1, <2>1, FS_AddElement, Zenon
  <2> QED BY <1>1, <2>2, FS_AddElement
<1>3. Cardinality(({a} \cup {b}) \cup {c}) = 3
  <2>1. c \notin {a} \cup {b}
    OBVIOUS
  <2>2. Cardinality(({a} \cup {b}) \cup {c}) = Cardinality({a} \cup {b}) + 1
    BY <1>2, <2>1, FS_AddElement, Zenon
  <2> QED BY <1>2, <2>2
<1>4. ({a} \cup {b}) \cup {c} = {a, b, c}
  OBVIOUS
<1> QED BY <1>3, <1>4

LEMMA StatusTypeOK == ASSUME IsFiniteSet(Msgs), StatusInv PROVE TypeOK
<1>0. CountInv /\ FilesInv /\ FilesTyped /\ StepsTyped /\ ColumnsTyped /\ DownloadGap \in Nat
  BY SettingsAssumption DEF StatusInv, CountInv, FilesInv
<1>1. ASSUME NEW f \in Files PROVE db.log[f] \in Nat \cup {NotLogged}
  <2>1. SUFFICES ASSUME db.log[f] # NotLogged PROVE db.log[f] \in Nat
    OBVIOUS
  <2>2. PICK v \in Int : VersionAt(f, db.log[f], v)
    BY <1>0, <2>1 DEF FilesInv, Logged
  <2>3. v \in Nat /\ db.log[f] = v * DownloadGap
    BY <1>0, <2>2 DEF VersionAt, FilesTyped
  <2> QED BY <1>0, <2>3
<1>2. db.log \in [Files -> Nat \cup {NotLogged}] /\ work.log = db.log
  BY <1>0, <1>1 DEF FilesTyped
<1>3. db.patches \in [Msgs -> Nat] /\ work.patches \in [Msgs -> Nat]
  BY <1>0, SentType DEF CountInv, FilesInv, RowsInv, Tables, PatchesOnce
<1>4. inserted \in 0 .. Cardinality(batch)
  <2>1. IsFiniteSet(batch) /\ batch \ todo \subseteq batch
    BY <1>0, FS_Subset DEF FilesTyped
  <2>2. Cardinality(batch \ todo) <= Cardinality(batch)
    BY <2>1, FS_Subset
  <2>3. Cardinality(batch) \in Nat /\ Cardinality(batch \ todo) \in Nat
    BY <2>1, FS_Subset, FS_CardinalityType
  <2> QED BY <1>0, <2>2, <2>3 DEF StepsTyped, CountInv, Counted
<1> QED BY <1>0, <1>2, <1>3, <1>4 DEF TypeOK, FilesTyped, StepsTyped, ColumnsTyped

\* Whichever files and runs brought its messages, the status of a thread is what the classifier
\* makes of all of them, once a run that did not die is over.
THEOREM StatusesAreCurrent ==
    ASSUME IsFiniteSet(Msgs)
    PROVE  Spec => []StatusCurrent
<1>1. Init => StatusInv
  BY StatusInit
<1>2. StatusInv /\ [Next]_vars => StatusInv'
  BY StatusNext
<1>3. StatusInv => StatusCurrent
  BY DEF StatusInv, Current, StatusCurrent, Settled
<1> QED BY <1>1, <1>2, <1>3, PTL DEF Spec

\* A conclusion in one of the two newest messages shows, for any thread, dates and ties; and
\* without a conclusion the status tells whether there are patches, when all could be sent.
THEOREM ConclusionsAreShown ==
    ASSUME IsFiniteSet(Msgs)
    PROVE  Spec => []ConclusionsShow
<1>1. Init => StatusInv
  BY StatusInit
<1>2. StatusInv /\ [Next]_vars => StatusInv'
  BY StatusNext
<1>3. StatusInv => ConclusionsShow
  <2> SUFFICES ASSUME StatusInv, Settled, NEW t \in db.threads
               PROVE  LET messages == InThread(db, t)
                      IN /\ (\E m \in messages : /\ Concludes[m] # "none"
                                                 /\ Cardinality({n \in messages : Sent[n] >= Sent[m]}) <= 2)
                               => db.status[t] \in Conclusions
                         /\ messages \cap PatchesCut = {} /\ (\A m \in messages : Concludes[m] = "none") =>
                               (db.status[t] = "patch_proposed") = (messages \cap HasPatch # {})
      BY DEF ConclusionsShow
  <2> DEFINE S == InThread(db, t)
             hasPatches == \E m \in S : db.patches[m] > 0
  <2>1. db.status[t] \in StatusesOf(db, t)
    BY DEF StatusInv, Current, Settled
  <2>2. PICK s \in Chronological(S) : db.status[t] = Classify(s, hasPatches)
    BY <2>1 DEF StatusesOf
  <2>3. S \in SUBSET Msgs /\ IsFiniteSet(S) /\ hasPatches \in BOOLEAN
    BY FS_Subset DEF InThread
  <2>4. setting \in Settings /\ t \in Msgs /\ PatchesOnce(db)
    BY DEF StatusInv, CountInv, FilesInv, FilesTyped, ColumnsTyped
  <2>5. ASSUME S \cap PatchesCut = {} PROVE hasPatches = (S \cap HasPatch # {})
    <3>1. \A m \in S : m \in Stored(db) /\ m \in Msgs
      BY <2>4, NoMsgAssumption DEF InThread, Stored
    <3>2. \A m \in S : db.patches[m] = Carries[m]
      BY <2>4, <2>5, <3>1, SentType DEF PatchesOnce
    <3>3. hasPatches => S \cap HasPatch # {}
      BY <3>1, <3>2 DEF HasPatch
    <3>4. S \cap HasPatch # {} => hasPatches
      <4>1. ASSUME NEW m \in S \cap HasPatch PROVE m \in S /\ db.patches[m] > 0
        BY <3>2 DEF HasPatch
      <4> QED BY <4>1
    <3> QED BY <2>3, <3>3, <3>4
  <2> HIDE DEF S, hasPatches
  <2>6. /\ s \in Seq(S) /\ Len(s) \in Nat /\ \A i \in 1 .. Len(s) : s[i] \in S
        /\ \A i, j \in 1 .. Len(s) : i # j => s[i] # s[j]
        /\ \A x \in S : \E i \in 1 .. Len(s) : s[i] = x
        /\ \A i, j \in 1 .. Len(s) : i < j => Sent[s[i]] <= Sent[s[j]]
    BY <2>3, Listing DEF Chronological
  <2>7. s \in Seq(Msgs) /\ \A x \in S : Sent[x] \in Nat
    <3>1. Sent \in [Msgs -> Nat]
      BY <2>4, SettingsAssumption DEF Sent
    <3>2. \A x \in S : Sent[x] \in Nat
      BY <2>3, <3>1
    <3>3. \A i \in 1 .. Len(s) : s[i] \in Msgs
      BY <2>3, <2>6
    <3> QED BY <2>6, <3>2, <3>3
  <2>8. ASSUME NEW m \in S, Concludes[m] # "none", Cardinality({n \in S : Sent[n] >= Sent[m]}) <= 2
        PROVE  db.status[t] \in Conclusions
    <3> DEFINE B == {n \in S : Sent[n] >= Sent[m]}
    <3>1. PICK i \in 1 .. Len(s) : s[i] = m
      BY <2>6
    <3>2. ASSUME i <= Len(s) - 2 PROVE FALSE
      <4>1. i \in Nat /\ i + 1 \in 1 .. Len(s) /\ i + 2 \in 1 .. Len(s)
        BY <2>6, <3>2
      <4>2. ASSUME NEW j \in {i, i + 1, i + 2} PROVE s[j] \in B
        <5>1. s[j] \in S /\ Sent[s[j]] \in Nat /\ Sent[m] \in Nat /\ j \in 1 .. Len(s)
          BY <2>6, <2>7, <4>1
        <5>2. j = i \/ i < j
          BY <4>1
        <5>3. Sent[s[i]] <= Sent[s[j]]
          <6>1. CASE j = i
            BY <3>1, <5>1, <6>1
          <6>2. CASE i < j
            BY <2>6, <5>1, <6>2
          <6> QED BY <5>2, <6>1, <6>2
        <5> QED BY <3>1, <5>1, <5>3
      <4>3. s[i + 1] # s[i] /\ s[i + 2] # s[i] /\ s[i + 2] # s[i + 1]
        <5>1. \A j, k \in 1 .. Len(s) : j # k => s[j] # s[k]
          BY <2>6
        <5>2. i + 1 # i /\ i + 2 # i /\ i + 2 # i + 1
          BY <4>1
        <5> QED BY <4>1, <5>1, <5>2, Zenon
      <4>6. Cardinality({s[i], s[i + 1], s[i + 2]}) = 3
        BY <4>3, Three
      <4>7. {s[i], s[i + 1], s[i + 2]} \in SUBSET B /\ IsFiniteSet(B)
        BY <2>3, <4>2, FS_Subset
      <4>8. Cardinality({s[i], s[i + 1], s[i + 2]}) <= Cardinality(B) /\ Cardinality(B) \in Nat
        BY <4>7, FS_Subset, FS_CardinalityType
      <4> QED BY <2>8, <4>6, <4>8
    <3>3. i > Len(s) - 2
      BY <2>6, <3>2
    <3> QED BY <2>2, <2>3, <2>4, <2>7, <2>8, <3>1, <3>3, Classification
  <2>9. ASSUME \A m \in S : Concludes[m] = "none"
        PROVE  db.status[t] = IF hasPatches THEN "patch_proposed" ELSE "discussion"
    <3>1. {i \in 1 .. Len(s) : i > LatterStart(Len(s)) /\ Concludes[s[i]] # "none"} = {}
      BY <2>6, <2>9
    <3> QED BY <2>2, <2>3, <2>4, <2>7, <3>1, Classification
  <2> QED BY <2>5, <2>8, <2>9 DEF S
<1> QED BY <1>1, <1>2, <1>3, PTL DEF Spec

-----------------------------------------------------------------------------
(* Threads of replies *)

\* S holds the parent of m and of each of its members that the file has.
ChainHolds(m, S) ==
    /\ Parent[m] # NoMsg => Parent[m] \in S
    /\ \A a \in S \cap batch : Parent[a] # NoMsg => Parent[a] \in S

\* The ancestors are the least such set.
LEMMA AncestorsLeast ==
    ASSUME setting \in Settings, NEW m \in Msgs
    PROVE  /\ Ancestors(m) \in SUBSET Msgs /\ ChainHolds(m, Ancestors(m))
           /\ \A S \in SUBSET Msgs : ChainHolds(m, S) => Ancestors(m) \subseteq S
<1>1. Ancestors(m) = {a \in Msgs : \A S \in SUBSET Msgs : ChainHolds(m, S) => a \in S}
  BY DEF Ancestors, ChainHolds
<1>2. Parent \in [Msgs -> Msgs \cup {NoMsg}]
  BY SettingsAssumption DEF Parent
<1>3. Parent[m] # NoMsg => Parent[m] \in Ancestors(m)
  BY <1>1, <1>2 DEF ChainHolds
<1>4. ASSUME NEW a \in Ancestors(m) \cap batch, Parent[a] # NoMsg PROVE Parent[a] \in Ancestors(m)
  BY <1>1, <1>2, <1>4 DEF ChainHolds
<1> QED BY <1>1, <1>3, <1>4 DEF ChainHolds

\* The ancestors of a reply are what it answers and that message's ancestors.
LEMMA AncestorsNext ==
    ASSUME setting \in Settings, batch \in SUBSET Msgs, NEW m \in Msgs, Parent[m] # NoMsg,
           NEW a \in Ancestors(m)
    PROVE  a = Parent[m] \/ (Parent[m] \in batch /\ a \in Ancestors(Parent[m]))
<1> DEFINE p == Parent[m]
           S == {p} \cup (IF p \in batch THEN Ancestors(p) ELSE {})
<1>1. p \in Msgs
  BY SettingsAssumption DEF Parent
<1>2. Ancestors(p) \in SUBSET Msgs /\ ChainHolds(p, Ancestors(p))
  BY <1>1, AncestorsLeast
<1>3. S \in SUBSET Msgs
  BY <1>1, <1>2
<1>4. ChainHolds(m, S)
  BY <1>2 DEF ChainHolds
<1>5. a \in S
  <2> HIDE DEF S, p
  <2> QED BY <1>3, <1>4, AncestorsLeast
<1> QED BY <1>5

\* What a message of the file answers and what that answers are its ancestors.
LEMMA AncestorsOfParent ==
    ASSUME setting \in Settings, batch \in SUBSET Msgs, NEW m \in Msgs, Parent[m] # NoMsg,
           Parent[m] \in batch
    PROVE  Ancestors(Parent[m]) \subseteq Ancestors(m)
<1> DEFINE p == Parent[m]
<1>1. p \in Ancestors(m) /\ Ancestors(m) \in SUBSET Msgs /\ ChainHolds(m, Ancestors(m))
  BY AncestorsLeast DEF ChainHolds
<1>2. ChainHolds(p, Ancestors(m))
  BY <1>1 DEF ChainHolds
<1> QED BY <1>1, <1>2, AncestorsLeast

\* No message is on the way twice, every visited one leads to the current one, and what is
\* still to come are the ancestors of that one.
OnTheWay(m, v, c) ==
    /\ c \in Ancestors(m)
    /\ \A x \in v : x \in batch /\ Parent[x] # NoMsg /\ c \in Ancestors(x)
    /\ \A a \in Ancestors(m) : a \in v \/ a = c \/ (c \in batch /\ a \in Ancestors(c))

LEMMA OldestAncestor ==
    ASSUME IsFiniteSet(Msgs), setting \in Settings, batch \in SUBSET Msgs, Acyclic,
           NEW m \in Msgs, Parent[m] # NoMsg
    PROVE  {a \in Ancestors(m) : Oldest(a)} = {Walk(batch, Parent)[{}][Parent[m]]}
<1> DEFINE W == Walk(batch, Parent)
           Finds(v, c) == {a \in Ancestors(m) : Oldest(a)} = {W[v][c]}
           G == {p \in (SUBSET Msgs) \X Msgs : OnTheWay(m, p[1], p[2]) => Finds(p[1], p[2])}
<1>0. Parent \in [Msgs -> Msgs \cup {NoMsg}]
  BY SettingsAssumption DEF Parent
<1>1. \A v \in SUBSET Msgs, c \in Msgs : W[v][c] = Stepped(batch, Parent, W, v, c)
  BY <1>0, WalkUnfolds
<1> HIDE DEF W
<1>2. \A v \in SUBSET Msgs, c \in Msgs : <<v, c>> \in G <=> (OnTheWay(m, v, c) => Finds(v, c))
  OBVIOUS
<1> HIDE DEF G
<1>3. ASSUME NEW v \in SUBSET Msgs, NEW c \in Msgs, ~(c \in batch \ v /\ Parent[c] # NoMsg)
      PROVE  <<v, c>> \in G
  <2> SUFFICES ASSUME OnTheWay(m, v, c) PROVE Finds(v, c)
      BY <1>2
  <2>1. W[v][c] = c
    BY <1>1, <1>3 DEF Stepped
  <2>2. Oldest(c)
    BY <1>3 DEF OnTheWay, Acyclic, Oldest
  <2>3. ASSUME NEW a \in Ancestors(m), Oldest(a) PROVE a = c
    <3>1. a \notin v
      BY <2>3 DEF OnTheWay, Oldest
    <3>2. CASE c \in batch /\ a \in Ancestors(c)
      <4>1. Parent[c] = NoMsg
        BY <2>2, <3>2 DEF Oldest
      <4>2. ChainHolds(c, {})
        BY <4>1 DEF ChainHolds
      <4> QED BY <3>2, <4>2, AncestorsLeast
    <3> QED BY <3>1, <3>2 DEF OnTheWay
  <2> QED BY <2>1, <2>2, <2>3 DEF OnTheWay
<1>4. ASSUME NEW v \in SUBSET Msgs, NEW c \in Msgs, c \in batch \ v, Parent[c] # NoMsg,
             <<v \cup {c}, Parent[c]>> \in G
      PROVE  <<v, c>> \in G
  <2> SUFFICES ASSUME OnTheWay(m, v, c) PROVE Finds(v, c)
      BY <1>2
  <2> DEFINE p == Parent[c]
             w == v \cup {c}
  <2>1. w \in SUBSET Msgs /\ p \in Msgs
    BY <1>0, <1>4
  <2>2. W[v][c] = W[w][p]
    BY <1>1, <1>4 DEF Stepped
  <2>3. \A x \in w : x \in batch /\ Parent[x] # NoMsg /\ p \in Ancestors(x)
    <3>1. ASSUME NEW x \in v PROVE p \in Ancestors(x)
      <4>1. c \in Ancestors(x) /\ ChainHolds(x, Ancestors(x))
        BY AncestorsLeast DEF OnTheWay
      <4> QED BY <1>4, <4>1 DEF ChainHolds
    <3>2. p \in Ancestors(c)
      BY <1>4, AncestorsLeast DEF ChainHolds
    <3> QED BY <1>4, <3>1, <3>2 DEF OnTheWay
  <2>4. p \in Ancestors(m)
    BY <1>4, AncestorsLeast DEF OnTheWay, ChainHolds
  <2>5. \A a \in Ancestors(m) : a \in w \/ a = p \/ (p \in batch /\ a \in Ancestors(p))
    <3> SUFFICES ASSUME NEW a \in Ancestors(m), a \notin w, a # p
                 PROVE  p \in batch /\ a \in Ancestors(p)
        OBVIOUS
    <3>1. a \in Ancestors(c)
      BY DEF OnTheWay
    <3> QED BY <1>4, <3>1, AncestorsNext
  <2>6. OnTheWay(m, w, p)
    <3> HIDE DEF w, p
    <3> QED BY <2>3, <2>4, <2>5 DEF OnTheWay
  <2> HIDE DEF w, p
  <2>7. Finds(w, p)
    BY <1>2, <1>4, <2>1, <2>6 DEF w, p
  <2> QED BY <2>2, <2>7
<1>5. \A v \in SUBSET Msgs, c \in Msgs : <<v, c>> \in G
  BY <1>0, <1>3, <1>4, WalkInduction
<1>6. OnTheWay(m, {}, Parent[m])
  BY AncestorsLeast, AncestorsNext DEF OnTheWay, ChainHolds
<1>7. Parent[m] \in Msgs
  BY <1>0
<1> QED BY <1>2, <1>5, <1>6, <1>7 DEF W

\* A reply and what it answers have one thread, when headers give no References.
LEMMA ThreadOfParent ==
    ASSUME IsFiniteSet(Msgs), setting \in Settings, batch \in SUBSET Msgs, Acyclic,
           NEW m \in batch, Ref[m] = NoMsg, Parent[m] \in batch, Ref[Parent[m]] = NoMsg
    PROVE  ThreadOf(m) = ThreadOf(Parent[m])
<1> DEFINE p == Parent[m]
<1>0. p # NoMsg /\ p \in Msgs /\ m \in Msgs
  BY NoMsgAssumption
<1>1. {a \in Ancestors(m) : Oldest(a)} = {ThreadOf(m)}
  BY <1>0, OldestAncestor DEF ThreadOf, FindThreadRoot
<1>2. CASE Parent[p] = NoMsg
  <2>1. p \in Ancestors(m) /\ Oldest(p)
    BY <1>0, <1>2, AncestorsLeast DEF ChainHolds, Oldest
  <2>2. ThreadOf(p) = p
    BY <1>2 DEF ThreadOf, FindThreadRoot
  <2> QED BY <1>1, <2>1, <2>2
<1>3. CASE Parent[p] # NoMsg
  <2>1. {a \in Ancestors(p) : Oldest(a)} = {ThreadOf(p)}
    BY <1>0, <1>3, OldestAncestor DEF ThreadOf, FindThreadRoot
  <2>2. Ancestors(p) \subseteq Ancestors(m)
    BY <1>0, AncestorsOfParent
  <2> QED BY <1>1, <2>1, <2>2
<1> QED BY <1>2, <1>3

\* What this run has inserted from the file is in the threads found for it.
InsertedHere ==
    pc = "insert" => \A m \in Stored(work) \ Stored(db) : work.thread[m] = ThreadOf(m)

LEMMA InsertedHereStep ==
    ASSUME StatusInv, InsertedHere, [Next]_vars
    PROVE  InsertedHere'
<1> SUFFICES ASSUME pc' = "insert" PROVE \A m \in Stored(work)' \ Stored(db)' : work'.thread[m] = ThreadOf(m)'
    BY DEF InsertedHere
<1>0. pc \in {"upsert", "insert"} /\ UNCHANGED <<setting, db, batch>>
  BY DEF Next, Run, vars, StartRun, ParseFile, ParseRaises, EndRun, UpsertThreads, InsertMessage,
         InsertKnown, InsertFails, ReleaseSavepoint, UpsertRaises, ReleaseRaises, CommitBatch, RecordIngestion,
         ClassifyThreads, Crash, Exit, Download, locals, current
<1>1. \A m \in Msgs : ThreadOf(m)' = ThreadOf(m)
  BY <1>0 DEF ThreadOf, Parent, Ref
<1>2. CASE work'.thread = work.thread
  <2>1. pc = "upsert" => work = db
    BY DEF StatusInv, OnlyAffected
  <2> QED BY <1>0, <1>1, <1>2, <2>1 DEF InsertedHere, Stored
<1>3. ASSUME NEW m \in Msgs, InsertMessage(m)
      PROVE  \A n \in Stored(work)' \ Stored(db)' : work'.thread[n] = ThreadOf(n)'
  <2>1. /\ pc = "insert"
        /\ \E n : work' = [work EXCEPT !.thread[m] = ThreadOf(m), !.patches[m] = @ + n]
    BY <1>3 DEF InsertMessage
  <2>2. Tables(work)
    BY DEF StatusInv, CountInv, FilesInv, RowsInv
  <2>3. work'.thread[m] = ThreadOf(m) /\ \A n \in Msgs \ {m} : work'.thread[n] = work.thread[n]
    BY <2>1, <2>2 DEF Tables
  <2> QED BY <1>0, <1>1, <2>1, <2>3 DEF InsertedHere, Stored
<1>4. work'.thread = work.thread \/ \E m \in Msgs : InsertMessage(m)
  <2>1. Tables(work)
    BY DEF StatusInv, CountInv, FilesInv, RowsInv
  <2>2. CASE UpsertThreads
    BY <2>1, <2>2 DEF UpsertThreads, Tables
  <2> QED BY <1>0, <2>2 DEF Next, Run, vars, StartRun, ParseFile, ParseRaises, EndRun, InsertKnown,
             InsertFails, ReleaseSavepoint, UpsertRaises, ReleaseRaises, CommitBatch, RecordIngestion,
             ClassifyThreads, Crash, Exit, Download
<1> QED BY <1>2, <1>3, <1>4

\* For every file, whatever replies its headers claim as long as they have no cycle: the
\* thread of a reply without References is its one oldest known ancestor, found by a walk
\* whose recursion is shown to end, and a reply is stored in the thread of what it answers
\* when both are new.
THEOREM ThreadsAreOldestAncestors ==
    ASSUME IsFiniteSet(Msgs)
    PROVE  Spec => []ThreadIsOldestAncestor
<1>1. Init => StatusInv /\ InsertedHere
  BY StatusInit DEF Init, InsertedHere
<1>2. StatusInv /\ InsertedHere /\ [Next]_vars => (StatusInv /\ InsertedHere)'
  BY StatusNext, InsertedHereStep
<1>3. StatusInv /\ InsertedHere => ThreadIsOldestAncestor
  <2> SUFFICES ASSUME StatusInv, InsertedHere, pc = "insert", Acyclic
               PROVE  /\ \A m \in batch : Ref[m] = NoMsg =>
                            IF Parent[m] = NoMsg THEN ThreadOf(m) = m
                            ELSE {a \in Ancestors(m) : Oldest(a)} = {ThreadOf(m)}
                      /\ (\A m \in batch : Ref[m] = NoMsg) =>
                            \A m \in batch \cap Stored(work) :
                                Parent[m] \in (batch \cap Stored(work)) /\ {m, Parent[m]} \cap Stored(db) = {} =>
                                    work.thread[m] = work.thread[Parent[m]]
      BY DEF ThreadIsOldestAncestor
  <2>1. setting \in Settings /\ batch \in SUBSET Msgs
    BY DEF StatusInv, CountInv, FilesInv, FilesTyped
  <2>2. ASSUME NEW m \in batch, Ref[m] = NoMsg
        PROVE  IF Parent[m] = NoMsg THEN ThreadOf(m) = m
               ELSE {a \in Ancestors(m) : Oldest(a)} = {ThreadOf(m)}
    <3>1. CASE Parent[m] = NoMsg
      BY <2>2, <3>1 DEF ThreadOf, FindThreadRoot
    <3>2. CASE Parent[m] # NoMsg
      BY <2>1, <2>2, <3>2, OldestAncestor DEF ThreadOf, FindThreadRoot
    <3> QED BY <3>1, <3>2
  <2>3. ASSUME \A m \in batch : Ref[m] = NoMsg,
               NEW m \in batch \cap Stored(work), Parent[m] \in (batch \cap Stored(work)),
               {m, Parent[m]} \cap Stored(db) = {}
        PROVE  work.thread[m] = work.thread[Parent[m]]
    <3>1. work.thread[m] = ThreadOf(m) /\ work.thread[Parent[m]] = ThreadOf(Parent[m])
      BY <2>3 DEF InsertedHere
    <3>2. ThreadOf(m) = ThreadOf(Parent[m])
      BY <2>1, <2>3, ThreadOfParent
    <3> QED BY <3>1, <3>2
  <2> QED BY <2>2, <2>3
<1> QED BY <1>1, <1>2, <1>3, PTL DEF Spec

-----------------------------------------------------------------------------
(* The agent's walk through a search *)

\* What ranks above a message, and whether something ranks with it.
Above(m) == {n \in Found : Rank[n] > Rank[m]}
Tied(m) == \E n \in Matches \ {m} : Rank[n] = Rank[m]

LEMMA MinOf == ASSUME NEW i \in Int, NEW j \in Int PROVE Min({i, j}) = IF i <= j THEN i ELSE j
BY DEF Min

LEMMA MaxOf == ASSUME NEW i \in Int, NEW j \in Int PROVE Max({i, j}) = IF i >= j THEN i ELSE j
BY DEF Max

\* A page that does not show m ends before it.
LEMMA PageBefore ==
    ASSUME IsFiniteSet(Msgs), NEW rows \in Orderings, NEW m \in Found, ~Tied(m),
           NEW offset \in Nat, NEW limit \in Nat \ {0}, offset <= Cardinality(Above(m)),
           m \notin ToSet(SubSeq(rows, offset + 1, Min({Len(rows), offset + limit})))
    PROVE  LET results == SubSeq(rows, offset + 1, Min({Len(rows), offset + limit}))
           IN Len(results) # 0 /\ offset + Len(results) <= Cardinality(Above(m))
<1> DEFINE last == Min({Len(rows), offset + limit})
           results == SubSeq(rows, offset + 1, last)
<1>1. Found \subseteq Msgs /\ IsFiniteSet(Found) /\ Found \subseteq Matches
  BY FS_Subset DEF Found, Stored
<1>2. /\ rows \in Seq(Found) /\ Len(rows) \in Nat /\ \A i \in 1 .. Len(rows) : rows[i] \in Found
      /\ \A i, j \in 1 .. Len(rows) : i # j => rows[i] # rows[j]
      /\ \A x \in Found : \E i \in 1 .. Len(rows) : rows[i] = x
      /\ \A i, j \in 1 .. Len(rows) : i < j => Rank[rows[i]] >= Rank[rows[j]]
  <2>1. /\ rows \in SetToSeqs(Found)
        /\ \A i, j \in DOMAIN rows : i < j => Rank[rows[i]] >= Rank[rows[j]]
    BY DEF Orderings
  <2>2. /\ rows \in Seq(Found) /\ Len(rows) \in Nat /\ DOMAIN rows = 1 .. Len(rows)
        /\ \A i \in 1 .. Len(rows) : rows[i] \in Found
        /\ \A i, j \in 1 .. Len(rows) : i # j => rows[i] # rows[j]
        /\ \A x \in Found : \E i \in 1 .. Len(rows) : rows[i] = x
    BY <1>1, <2>1, Listing
  <2> QED BY <2>1, <2>2
<1>3. \A x \in Found : Rank[x] \in Int
  BY <1>1, ReaderAssumption
<1>4. PICK p \in 1 .. Len(rows) : rows[p] = m
  BY <1>2
<1>a. p \in Nat /\ p >= 1 /\ p <= Len(rows) /\ Len(rows) \in Nat
  <2>1. Len(rows) \in Nat
    BY <1>2
  <2> QED BY <2>1
<1>5. ASSUME NEW i \in 1 .. p - 1 PROVE rows[i] \in Above(m)
  <2>1. i \in 1 .. Len(rows) /\ i < p /\ i # p
    BY <1>a
  <2>2. rows[i] \in Found /\ rows[i] # m /\ Rank[rows[i]] >= Rank[m]
    BY <1>2, <1>4, <2>1
  <2>3. Rank[rows[i]] # Rank[m]
    BY <1>1, <2>2 DEF Tied
  <2> QED BY <1>3, <2>2, <2>3 DEF Above
<1>6. ASSUME NEW x \in Above(m) PROVE \E i \in 1 .. p - 1 : rows[i] = x
  <2>1. PICK i \in 1 .. Len(rows) : rows[i] = x
    BY <1>2 DEF Above
  <2>2. x \in Found /\ Rank[x] > Rank[m] /\ Rank[x] \in Int /\ Rank[m] \in Int
    BY <1>3 DEF Above
  <2>3. i # p
    BY <1>4, <2>1, <2>2
  <2>4. ~(i > p)
    <3> SUFFICES ASSUME i > p PROVE FALSE
        OBVIOUS
    <3>1. p < i /\ i \in 1 .. Len(rows)
      BY <1>a, <2>1
    <3>2. Rank[m] >= Rank[x]
      BY <1>2, <1>4, <2>1, <3>1
    <3> QED BY <2>2, <3>2
  <2>5. i \in 1 .. p - 1
    BY <1>a, <2>3, <2>4
  <2> QED BY <2>1, <2>5
<1>7. Cardinality(Above(m)) = p - 1
  <2> DEFINE f == [i \in 1 .. p - 1 |-> rows[i]]
  <2>1. f \in Injection(1 .. p - 1, Above(m))
    <3>1. ASSUME NEW i \in 1 .. p - 1, NEW j \in 1 .. p - 1, rows[i] = rows[j] PROVE i = j
      <4>1. i \in 1 .. Len(rows) /\ j \in 1 .. Len(rows)
        BY <1>a
      <4> QED BY <1>2, <3>1, <4>1
    <3> QED BY <1>5, <3>1 DEF Injection, IsInjective
  <2>2. f \in Surjection(1 .. p - 1, Above(m))
    BY <1>5, <1>6 DEF Surjection
  <2>3. ExistsBijection(1 .. p - 1, Above(m))
    BY <2>1, <2>2 DEF ExistsBijection, Bijection
  <2>4. p - 1 \in Nat
    BY <1>a
  <2> QED BY <2>3, <2>4, FS_CountingElements
<1>8. last = IF Len(rows) <= offset + limit THEN Len(rows) ELSE offset + limit
  <2>1. offset + limit \in Int /\ Len(rows) \in Int
    BY <1>2
  <2> QED BY <2>1, MinOf
<1> HIDE DEF last
<1>9. last \in Nat /\ last <= Len(rows)
  BY <1>2, <1>8
<1>10. ASSUME NEW i \in offset + 1 .. last PROVE rows[i] \in Found
  <2>1. i \in 1 .. Len(rows)
    BY <1>2, <1>9
  <2> QED BY <1>2, <2>1
<1>11. /\ results \in Seq(Found)
       /\ Len(results) = IF offset + 1 <= last THEN last - (offset + 1) + 1 ELSE 0
       /\ \A i \in 1 .. last - (offset + 1) + 1 : results[i] = rows[(offset + 1) + i - 1]
  <2>1. offset + 1 \in Int /\ last \in Int
    BY <1>9
  <2> QED BY <1>10, <2>1, SubSeqProperties
<1> HIDE DEF results
<1>12. offset + 1 <= p
  BY <1>2, <1>4, <1>7
<1>13. ASSUME p <= last PROVE FALSE
  <2>1. p - offset \in 1 .. last - (offset + 1) + 1 /\ p - offset \in 1 .. Len(results)
    BY <1>2, <1>4, <1>9, <1>11, <1>12, <1>13
  <2>2. results[p - offset] = rows[(offset + 1) + (p - offset) - 1]
    BY <1>11, <2>1
  <2>3. (offset + 1) + (p - offset) - 1 = p
    BY <1>2, <1>4
  <2>4. results[p - offset] = m /\ p - offset \in DOMAIN results
    BY <1>4, <1>11, <2>1, <2>2, <2>3
  <2> QED BY <2>4 DEF ToSet, results, last
<1>14. last = offset + limit /\ last < p
  BY <1>2, <1>4, <1>8, <1>9, <1>13
<1>15. Len(results) = limit
  BY <1>11, <1>14
<1> QED BY <1>2, <1>4, <1>7, <1>14, <1>15 DEF results, last

\* What a reader has, in order of its calls: one search or one thread, then messages.
ReaderTyped ==
    /\ call \in {"none", "search", "thread"} /\ done \in BOOLEAN
    /\ page \in [limit : 1 .. MaxPage, offset : Nat]
    /\ known \subseteq Matches /\ shown \subseteq Matches \cap Stored(db)
    /\ header = NoHeader \/ header.thread \in Msgs
    /\ header = [thread |-> header.thread, count |-> header.count, status |-> header.status]
    /\ call # "none" => ~done
    /\ call = "thread" => header.thread \in Msgs
    /\ ~done /\ call # "thread" => header = NoHeader
    /\ ~done => opened = Unopened

\* Before the last page: what was found when the search began, is not shown and ties with
\* nothing, ranks below the pages so far.  After it: there is no such message.
Walked ==
    /\ call = "search" =>
          /\ known \subseteq Found
          /\ \A m \in known \ shown : Tied(m) \/ page.offset <= Cardinality(Above(m))
    /\ done /\ header = NoHeader => \A m \in known \ shown : Tied(m)

WalkInv == StatusInv /\ ReaderTyped /\ Walked

LEMMA WalkInit == ASSUME IsFiniteSet(Msgs), ArchiveInit PROVE WalkInv
<1>1. StatusInv
  BY StatusInit DEF ArchiveInit
<1>2. MaxPage \in Nat \ {0}
  BY ReaderAssumption
<1>3. /\ call = "none" /\ page = FirstPage /\ known = {} /\ shown = {}
      /\ header = NoHeader /\ opened = Unopened /\ done = FALSE
  BY DEF ArchiveInit, ReaderInit
<1>4. page \in [limit : 1 .. MaxPage, offset : Nat]
  BY <1>2, <1>3 DEF FirstPage
<1>5. header = [thread |-> header.thread, count |-> header.count, status |-> header.status]
  BY <1>3 DEF NoHeader
<1>6. ReaderTyped
  BY <1>3, <1>4, <1>5 DEF ReaderTyped
<1>7. Walked
  BY <1>3 DEF Walked
<1> QED BY <1>1, <1>6, <1>7 DEF WalkInv

\* The archive only grows under the reader.
LEMMA FoundGrows ==
    ASSUME IsFiniteSet(Msgs), StatusInv, [Next]_vars
    PROVE  /\ Stored(db) \subseteq Stored(db') /\ Found \subseteq Found'
           /\ \A m \in Matches : Cardinality(Above(m)) \in Nat /\ Cardinality(Above(m)) <= Cardinality(Above(m))'
           /\ \A t \in Msgs : /\ Cardinality(InThread(db, t)) \in Nat
                              /\ Cardinality(InThread(db, t)) <= Cardinality(InThread(db, t))'
<1>1. RowsInv
  BY DEF StatusInv, CountInv, FilesInv
<1>2. \A m \in Stored(db) : db'.thread[m] = db.thread[m]
  BY <1>1, ThreadsStay DEF Stored
<1>3. Stored(db) \subseteq Stored(db') /\ Found \subseteq Found'
  BY <1>2 DEF Stored, Found
<1>4. ASSUME NEW m \in Matches
      PROVE  Cardinality(Above(m)) \in Nat /\ Cardinality(Above(m)) <= Cardinality(Above(m))'
  <2>1. Above(m) \subseteq Above(m)' /\ Above(m)' \subseteq Msgs
    BY <1>3 DEF Above, Found, Stored
  <2>2. IsFiniteSet(Above(m)) /\ IsFiniteSet(Above(m)')
    BY <2>1, FS_Subset
  <2> QED BY <2>1, <2>2, FS_Subset, FS_CardinalityType
<1>5. ASSUME NEW t \in Msgs
      PROVE  Cardinality(InThread(db, t)) \in Nat /\ Cardinality(InThread(db, t)) <= Cardinality(InThread(db, t))'
  <2>1. InThread(db, t) \subseteq InThread(db, t)' /\ InThread(db, t)' \subseteq Msgs
    BY <1>2, NoMsgAssumption DEF InThread, Stored
  <2>2. IsFiniteSet(InThread(db, t)) /\ IsFiniteSet(InThread(db, t)')
    BY <2>1, FS_Subset
  <2> QED BY <2>1, <2>2, FS_Subset, FS_CardinalityType
<1> QED BY <1>3, <1>4, <1>5

\* A step of the ingester, under the reader.
LEMMA WalkUnder ==
    ASSUME IsFiniteSet(Msgs), WalkInv, [Next]_vars, UNCHANGED readerVars
    PROVE  WalkInv'
<1>1. StatusInv'
  BY StatusNext DEF WalkInv
<1>2. UNCHANGED <<call, page, known, shown, header, view, opened, done>>
  BY DEF readerVars
<1>3. ReaderTyped'
  BY <1>2, FoundGrows DEF WalkInv, ReaderTyped
<1>4. ASSUME call = "search", NEW m \in known \ shown, ~Tied(m)
      PROVE  page.offset <= Cardinality(Above(m))'
  <2>1. m \in Matches /\ page.offset \in Nat /\ page.offset <= Cardinality(Above(m))
    BY <1>4 DEF WalkInv, ReaderTyped, Walked
  <2>2. Cardinality(Above(m)) \in Nat /\ Cardinality(Above(m)) <= Cardinality(Above(m))'
    BY <2>1, FoundGrows DEF WalkInv
  <2>3. IsFiniteSet(Above(m)')
    BY FS_Subset DEF Above, Found, Stored
  <2>4. Cardinality(Above(m)') \in Nat
    BY <2>3, FS_CardinalityType
  <2> QED BY <2>1, <2>2, <2>4
<1>5. Walked'
  BY <1>2, <1>4, FoundGrows DEF WalkInv, Walked, Tied
<1> QED BY <1>1, <1>3, <1>5 DEF WalkInv

\* A step of the reader.
LEMMA WalkRead ==
    ASSUME IsFiniteSet(Msgs), WalkInv, Read, UNCHANGED vars
    PROVE  WalkInv'
<1>1. StatusInv'
  BY StatusNext DEF WalkInv
<1>2. UNCHANGED <<setting, db>> /\ Found' = Found /\ Stored(db') = Stored(db)
      /\ \A m : Above(m)' = Above(m) /\ Tied(m)' = Tied(m)
  BY DEF vars, Found, Stored, Above, Tied
<1>3. MaxPage \in Nat \ {0} /\ db.threads \subseteq Msgs /\ Found \subseteq Matches \cap Stored(db)
  BY ReaderAssumption DEF WalkInv, StatusInv, ColumnsTyped, Found
<1>4. CASE BeginSearch
  <2>1. PICK limit \in Limits, offset \in {-1, 0} : page' = Clamp(limit, offset)
    BY <1>4 DEF BeginSearch
  <2>2. limit \in Int
    BY ReaderAssumption
  <2>3. Max({0, offset}) = 0
    BY MaxOf
  <2>4. Min({MaxPage, limit}) \in Int /\ Min({MaxPage, limit}) <= MaxPage
    BY <1>3, <2>2, MinOf
  <2>5. Max({1, Min({MaxPage, limit})}) \in 1 .. MaxPage
    BY <1>3, <2>4, MaxOf
  <2>6. page' \in [limit : 1 .. MaxPage, offset : Nat] /\ page'.offset = 0
    BY <2>1, <2>3, <2>5 DEF Clamp
  <2>7. /\ call' = "search" /\ known' = Found /\ shown' = {} /\ done' = FALSE
        /\ UNCHANGED <<header, view, opened>> /\ ~done /\ call = "none"
    BY <1>4 DEF BeginSearch, WalkInv, ReaderTyped
  <2>8. ReaderTyped'
    BY <1>2, <1>3, <2>6, <2>7 DEF WalkInv, ReaderTyped
  <2>9. \A m \in known' \ shown' : page'.offset <= Cardinality(Above(m))'
    <3>1. ASSUME NEW m \in known' PROVE Cardinality(Above(m)) \in Nat
      BY <1>3, <2>7, <3>1, FoundGrows DEF WalkInv
    <3> QED BY <1>2, <2>6, <3>1
  <2>10. Walked'
    BY <1>2, <2>7, <2>9 DEF Walked
  <2> QED BY <1>1, <2>8, <2>10 DEF WalkInv
<1>5. CASE SearchPage
  <2>1. PICK rows \in Orderings :
          LET results == SubSeq(rows, page.offset + 1, Min({Len(rows), page.offset + page.limit}))
          IN /\ shown' = shown \cup ToSet(results)
             /\ page' = [page EXCEPT !.offset = @ + Len(results)]
             /\ call' = IF results = <<>> THEN "none" ELSE "search"
             /\ done' = (results = <<>>)
    BY <1>5 DEF SearchPage
  <2> DEFINE results == SubSeq(rows, page.offset + 1, Min({Len(rows), page.offset + page.limit}))
  <2>2. /\ call = "search" /\ ~done /\ header = NoHeader /\ opened = Unopened
        /\ page \in [limit : 1 .. MaxPage, offset : Nat]
        /\ UNCHANGED <<known, header, view, opened>>
    BY <1>5 DEF SearchPage, WalkInv, ReaderTyped
  <2>3. results \in Seq(Found)
    <3>1. IsFiniteSet(Found)
      BY FS_Subset DEF Found, Stored
    <3>2. /\ rows \in Seq(Found) /\ Len(rows) \in Nat
          /\ \A i \in 1 .. Len(rows) : rows[i] \in Found
      BY <3>1, Listing DEF Orderings
    <3>3. page.offset \in Nat /\ page.limit \in Nat
      BY <1>3, <2>2
    <3> DEFINE last == Min({Len(rows), page.offset + page.limit})
    <3>4. last = IF Len(rows) <= page.offset + page.limit THEN Len(rows) ELSE page.offset + page.limit
      <4>1. page.offset + page.limit \in Int /\ Len(rows) \in Int
        BY <3>2, <3>3
      <4> QED BY <4>1, MinOf
    <3> HIDE DEF last
    <3>5. last \in Nat /\ last <= Len(rows) /\ page.offset + 1 \in Int /\ page.offset + 1 >= 1
      BY <3>2, <3>3, <3>4
    <3>6. ASSUME NEW i \in page.offset + 1 .. last PROVE rows[i] \in Found
      <4>1. i \in 1 .. Len(rows)
        BY <3>2, <3>3, <3>5
      <4> QED BY <3>2, <4>1
    <3>7. SubSeq(rows, page.offset + 1, last) \in Seq(Found)
      <4>1. page.offset + 1 \in Int /\ last \in Int
        BY <3>5
      <4> QED BY <3>6, <4>1, SubSeqProperties
    <3> QED BY <3>7 DEF last
  <2> HIDE DEF results
  <2>4. ToSet(results) \subseteq Found /\ Len(results) \in Nat /\ (results = <<>> => Len(results) = 0)
    BY <2>3 DEF ToSet
  <2> USE DEF results
  <2>5. ASSUME NEW m \in known' \ shown', ~Tied(m)
        PROVE  Len(results) # 0 /\ page.offset + Len(results) <= Cardinality(Above(m))
    <3>1. m \in Found /\ m \notin ToSet(results) /\ m \in known \ shown
      BY <2>1, <2>2, <2>5 DEF WalkInv, Walked
    <3>2. page.offset \in Nat /\ page.limit \in Nat \ {0} /\ page.offset <= Cardinality(Above(m))
      BY <1>3, <2>2, <2>5, <3>1 DEF WalkInv, Walked
    <3> QED BY <2>5, <3>1, <3>2, PageBefore
  <2> HIDE DEF results
  <2>6. /\ shown' = shown \cup ToSet(results)
        /\ page' = [page EXCEPT !.offset = @ + Len(results)]
        /\ call' = IF results = <<>> THEN "none" ELSE "search"
        /\ done' = (results = <<>>)
    BY <2>1 DEF results
  <2>7. page' \in [limit : 1 .. MaxPage, offset : Nat] /\ page'.offset = page.offset + Len(results)
    BY <2>2, <2>4, <2>6
  <2>8. ReaderTyped'
    BY <1>2, <1>3, <2>2, <2>4, <2>6, <2>7 DEF WalkInv, ReaderTyped
  <2>9. Walked'
    BY <1>2, <2>2, <2>4, <2>5, <2>6, <2>7 DEF WalkInv, Walked
  <2> QED BY <1>1, <2>8, <2>9 DEF WalkInv
<1>6. CASE ThreadInfo
  <2>1. PICK t \in db.threads :
          header' = [thread |-> t, count |-> Cardinality(InThread(db, t)), status |-> db.status[t]]
    BY <1>6 DEF ThreadInfo
  <2>2. call' = "thread" /\ ~done /\ UNCHANGED <<page, known, shown, view, opened, done>>
    BY <1>6 DEF ThreadInfo
  <2>3. ReaderTyped'
    BY <1>2, <1>3, <2>1, <2>2 DEF WalkInv, ReaderTyped
  <2>4. Walked'
    BY <2>2 DEF Walked
  <2> QED BY <1>1, <2>3, <2>4 DEF WalkInv
<1>7. CASE ThreadMessages
  <2>1. /\ call = "thread" /\ call' = "none" /\ done' = TRUE /\ UNCHANGED <<page, known, shown, opened>>
        /\ header' \in {header, [header EXCEPT !.count = 0]}
    BY <1>7 DEF ThreadMessages
  <2>2. header.thread \in Msgs /\ header'.thread = header.thread
        /\ header' = [thread |-> header'.thread, count |-> header'.count, status |-> header'.status]
    BY <2>1 DEF WalkInv, ReaderTyped
  <2>3. header' # NoHeader
    BY <2>2, NoMsgAssumption DEF NoHeader
  <2>4. ReaderTyped'
    BY <1>2, <2>1, <2>2 DEF WalkInv, ReaderTyped
  <2>5. Walked'
    BY <2>1, <2>3 DEF Walked
  <2> QED BY <1>1, <2>4, <2>5 DEF WalkInv
<1>8. CASE OpenMessage
  <2>1. call = "none" /\ done /\ UNCHANGED <<call, page, known, shown, header, view, done>>
    BY <1>8 DEF OpenMessage
  <2>2. ReaderTyped' /\ Walked'
    BY <1>2, <2>1 DEF WalkInv, ReaderTyped, Walked
  <2> QED BY <1>1, <2>2 DEF WalkInv
<1> QED BY <1>4, <1>5, <1>6, <1>7, <1>8 DEF Read

LEMMA WalkNext ==
    ASSUME IsFiniteSet(Msgs), WalkInv, [ArchiveNext]_<<vars, readerVars>>
    PROVE  WalkInv'
<1>1. CASE Next /\ UNCHANGED readerVars
  BY <1>1, WalkUnder
<1>2. CASE Read /\ UNCHANGED vars
  BY <1>2, WalkRead
<1>3. CASE UNCHANGED <<vars, readerVars>>
  <2>1. [Next]_vars /\ UNCHANGED readerVars
    BY <1>3
  <2> QED BY <2>1, WalkUnder
<1> QED BY <1>1, <1>2, <1>3 DEF ArchiveNext

\* Whatever the agent asks for, a page holds between one and MaxPage results (the clamp of
\* limit and offset), and what it is shown was found by its search.
THEOREM ArchiveTyped ==
    ASSUME IsFiniteSet(Msgs)
    PROVE  ArchiveSpec => []ArchiveTypeOK
<1>1. ArchiveInit => WalkInv
  BY WalkInit
<1>2. WalkInv /\ [ArchiveNext]_<<vars, readerVars>> => WalkInv'
  BY WalkNext
<1>3. WalkInv => ArchiveTypeOK
  BY StatusTypeOK DEF WalkInv, ReaderTyped, ArchiveTypeOK
<1> QED BY <1>1, <1>2, <1>3, PTL DEF ArchiveSpec

\* An agent that walks search_messages to an empty page has been shown every message that
\* was found when it began, except one that ties with another, for every rank, every limit
\* and however the ingester commits between its calls.
THEOREM WalkShowsAll ==
    ASSUME IsFiniteSet(Msgs)
    PROVE  ArchiveSpec => []WalkSkipsNothing
<1>1. ArchiveInit => WalkInv
  BY WalkInit
<1>2. WalkInv /\ [ArchiveNext]_<<vars, readerVars>> => WalkInv'
  BY WalkNext
<1>3. WalkInv => WalkSkipsNothing
  BY DEF WalkInv, Walked, Tied, WalkSkipsNothing
<1> QED BY <1>1, <1>2, <1>3, PTL DEF ArchiveSpec

-----------------------------------------------------------------------------
(* What an agent is told *)

\* The text of one message of a thread: whole or marked, and long enough when it is recent.
Honest(rows, i) ==
    /\ rows[i].kept < Length[rows[i].id] => rows[i].truncated
    /\ i > Len(rows) - 3 => rows[i].kept = Min({Length[rows[i].id], BodyRecent})

\* The header of a thread counts messages that are still there when they are read.
Told ==
    /\ call = "thread" => /\ header.count \in Nat
                          /\ header.count <= Cardinality(InThread(db, header.thread))
    /\ done /\ header # NoHeader => header.count <= Len(view)
    /\ \A i \in DOMAIN view : Honest(view, i)
    /\ opened # Unopened => /\ opened.id \in shown
                            /\ opened.kept < Length[opened.id] => opened.truncated

AnswersInv == WalkInv /\ Told

LEMMA CutOf == ASSUME NEW n \in Nat, NEW limit \in Nat
               PROVE  Cut(n, limit) \in Nat /\ Cut(n, limit) <= n /\ (n <= limit => Cut(n, limit) = n)
BY MinOf DEF Cut

LEMMA NewestAreRecent == ASSUME NEW total \in Nat, NEW i \in Nat, i > total - 3 PROVE Recent(i, total)
<1>1. total \div 5 \in Int
  OBVIOUS
<1>2. Max({3, total \div 5}) \in Int /\ Max({3, total \div 5}) >= 3
  BY <1>1, MaxOf
<1> QED BY <1>2 DEF Recent

LEMMA SameRange == ASSUME NEW i \in Nat, NEW j \in Nat, 1 .. i = 1 .. j PROVE i = j
<1>1. \A k \in Int : k \in 1 .. i <=> k \in 1 .. j
  OBVIOUS
<1>2. i \in 1 .. i <=> i \in 1 .. j
  BY <1>1
<1>3. j \in 1 .. i <=> j \in 1 .. j
  BY <1>1
<1> QED BY <1>2, <1>3

\* Both renderings are honest.
LEMMA RenderedHonest ==
    ASSUME NEW rows \in Seq(Msgs), NEW v \in {Rendered(rows), Shortened(Rendered(rows))}
    PROVE  /\ Len(v) = Len(rows) /\ DOMAIN v = 1 .. Len(rows)
           /\ \A i \in DOMAIN v : Honest(v, i)
<1> DEFINE r == Rendered(rows)
<1>1. /\ Len(rows) \in Nat /\ DOMAIN rows = 1 .. Len(rows)
      /\ \A i \in 1 .. Len(rows) : rows[i] \in Msgs /\ Length[rows[i]] \in Nat
  BY ReaderAssumption
<1>2. {BodyRecent, BodyMin, BodyShort} \subseteq Nat
  BY ReaderAssumption
<1>3. DOMAIN r = 1 .. Len(rows) /\ r = [i \in 1 .. Len(rows) |-> r[i]] /\ Len(r) = Len(rows)
  <2>1. r \in Seq({r[i] : i \in 1 .. Len(rows)}) /\ Len(r) = Len(rows)
    BY <1>1, IsASeq, LenProperties DEF Rendered
  <2> QED BY <1>1, <2>1 DEF Rendered
<1>4. ASSUME NEW i \in 1 .. Len(rows)
      PROVE  /\ r[i] = [id |-> rows[i], kept |-> r[i].kept, truncated |-> r[i].truncated]
             /\ r[i].kept = Cut(Length[rows[i]], IF Recent(i, Len(rows)) THEN BodyRecent ELSE BodyMin)
             /\ r[i].truncated = (Length[rows[i]] > IF Recent(i, Len(rows)) THEN BodyRecent ELSE BodyMin)
  BY <1>1 DEF Rendered
<1>5. ASSUME NEW i \in 1 .. Len(rows) PROVE Honest(r, i)
  <2>1. Length[rows[i]] \in Nat /\ r[i].id = rows[i] /\ Len(r) = Len(rows) /\ Len(rows) \in Nat /\ i \in Nat
    BY <1>1, <1>3, <1>4
  <2>2. i > Len(rows) - 3 => Recent(i, Len(rows))
    BY <2>1, NewestAreRecent
  <2>3. CASE Recent(i, Len(rows))
    <3>1. r[i].kept = Cut(Length[rows[i]], BodyRecent) /\ r[i].truncated = (Length[rows[i]] > BodyRecent)
      BY <1>4, <2>3
    <3> HIDE DEF r
    <3>2. Length[rows[i]] <= BodyRecent => r[i].kept = Length[rows[i]]
      BY <1>2, <2>1, <3>1, CutOf
    <3>3. Length[rows[i]] > BodyRecent => r[i].truncated
      BY <3>1
    <3>4. r[i].kept < Length[rows[i]] => r[i].truncated
      BY <1>2, <2>1, <3>2, <3>3
    <3>5. r[i].kept = Min({Length[rows[i]], BodyRecent})
      BY <3>1 DEF Cut
    <3> QED BY <2>1, <3>4, <3>5 DEF Honest
  <2>4. CASE ~Recent(i, Len(rows))
    <3>1. r[i].kept = Cut(Length[rows[i]], BodyMin) /\ r[i].truncated = (Length[rows[i]] > BodyMin)
      BY <1>4, <2>4
    <3> HIDE DEF r
    <3>2. Length[rows[i]] <= BodyMin => r[i].kept = Length[rows[i]]
      BY <1>2, <2>1, <3>1, CutOf
    <3>3. Length[rows[i]] > BodyMin => r[i].truncated
      BY <3>1
    <3>4. r[i].kept < Length[rows[i]] => r[i].truncated
      BY <1>2, <2>1, <3>2, <3>3
    <3> QED BY <2>1, <2>2, <2>4, <3>4 DEF Honest
  <2> QED BY <2>3, <2>4
<1>6. CASE v = r
  BY <1>3, <1>5, <1>6
<1>7. CASE v = Shortened(r)
  <2> HIDE DEF r
  <2>1. /\ DOMAIN v = 1 .. Len(rows)
        /\ \A i \in 1 .. Len(rows) :
              v[i] = IF Recent(i, Len(rows)) THEN r[i]
                     ELSE [r[i] EXCEPT !.kept = Cut(@, BodyShort), !.truncated = TRUE]
    BY <1>3, <1>7 DEF Shortened
  <2>2. Len(v) = Len(rows)
    <3>1. v \in Seq({v[i] : i \in 1 .. Len(rows)})
      <4>1. v = [i \in 1 .. Len(rows) |-> v[i]]
        BY <1>3, <1>7 DEF Shortened
      <4> QED BY <1>1, <4>1, IsASeq
    <3>2. Len(v) \in Nat /\ DOMAIN v = 1 .. Len(v)
      BY <3>1
    <3>3. 1 .. Len(v) = 1 .. Len(rows)
      BY <2>1, <3>2
    <3> QED BY <1>1, <3>2, <3>3, SameRange
  <2>3. ASSUME NEW i \in 1 .. Len(rows) PROVE Honest(v, i)
    <3>1. CASE Recent(i, Len(rows))
      BY <1>3, <1>5, <2>1, <2>2, <3>1 DEF Honest
    <3>2. CASE ~Recent(i, Len(rows))
      <4>1. v[i].truncated = TRUE
        BY <1>4, <2>1, <3>2
      <4>2. ~(i > Len(rows) - 3)
        BY <1>1, <3>2, NewestAreRecent
      <4> QED BY <2>2, <4>1, <4>2 DEF Honest
    <3> QED BY <3>1, <3>2
  <2> QED BY <2>1, <2>2, <2>3
<1> QED BY <1>6, <1>7

LEMMA ToldUnder ==
    ASSUME IsFiniteSet(Msgs), AnswersInv, [Next]_vars, UNCHANGED readerVars
    PROVE  Told'
<1>1. UNCHANGED <<call, page, known, shown, header, view, opened, done>>
  BY DEF readerVars
<1>2. ASSUME call = "thread"
      PROVE  header.count \in Nat /\ header.count <= Cardinality(InThread(db, header.thread))'
  <2>1. header.thread \in Msgs /\ header.count \in Nat
        /\ header.count <= Cardinality(InThread(db, header.thread))
    BY <1>2 DEF AnswersInv, WalkInv, ReaderTyped, Told
  <2>2. \A t \in Msgs : Cardinality(InThread(db, t)) \in Nat
                         /\ Cardinality(InThread(db, t)) <= Cardinality(InThread(db, t))'
    BY FoundGrows DEF AnswersInv, WalkInv
  <2>3. InThread(db, header.thread)' \subseteq Msgs
    BY DEF InThread, Stored
  <2>4. Cardinality(InThread(db, header.thread)') \in Nat
    BY <2>3, FS_Subset, FS_CardinalityType
  <2>5. Cardinality(InThread(db, header.thread)) \in Nat
        /\ Cardinality(InThread(db, header.thread)) <= Cardinality(InThread(db, header.thread)')
    BY <1>1, <2>1, <2>2
  <2> QED BY <1>1, <2>1, <2>4, <2>5
<1>3. \A i \in DOMAIN view : Honest(view, i)'
  BY <1>1 DEF AnswersInv, Told, Honest
<1> QED BY <1>1, <1>2, <1>3 DEF AnswersInv, Told

LEMMA ToldRead ==
    ASSUME IsFiniteSet(Msgs), AnswersInv, Read, UNCHANGED vars
    PROVE  Told'
<1>1. UNCHANGED <<setting, db>> /\ WalkInv /\ Told
  BY DEF vars, AnswersInv
<1>2. \A i \in DOMAIN view : Honest(view, i)
  BY <1>1 DEF Told
<1>3. CASE BeginSearch
  <2>1. call' = "search" /\ ~done /\ header = NoHeader /\ opened = Unopened
        /\ UNCHANGED <<header, view, opened, done>>
    BY <1>1, <1>3 DEF BeginSearch, WalkInv, ReaderTyped
  <2> QED BY <1>2, <2>1 DEF Told, Honest
<1>4. CASE SearchPage
  <2>1. call = "search" /\ UNCHANGED <<header, view, opened>> /\ call' \in {"none", "search"}
    BY <1>4 DEF SearchPage
  <2>2. header = NoHeader /\ opened = Unopened
    BY <1>1, <2>1 DEF WalkInv, ReaderTyped
  <2> QED BY <1>2, <2>1, <2>2 DEF Told, Honest
<1>5. CASE ThreadInfo
  <2>1. PICK t \in db.threads :
          header' = [thread |-> t, count |-> Cardinality(InThread(db, t)), status |-> db.status[t]]
    BY <1>5 DEF ThreadInfo
  <2>2. call = "none" /\ call' = "thread" /\ ~done /\ UNCHANGED <<page, known, shown, view, opened, done>>
    BY <1>5 DEF ThreadInfo
  <2>3. opened = Unopened
    BY <1>1, <2>2 DEF WalkInv, ReaderTyped
  <2>4. InThread(db, t) \subseteq Msgs /\ InThread(db', header'.thread) = InThread(db, t)
    BY <1>1, <2>1 DEF InThread, Stored
  <2>5. Cardinality(InThread(db, t)) \in Nat
    BY <2>4, FS_Subset, FS_CardinalityType
  <2>6. header'.count \in Nat /\ header'.count <= Cardinality(InThread(db', header'.thread))
    BY <2>1, <2>4, <2>5
  <2> QED BY <1>2, <2>2, <2>3, <2>6 DEF Told, Honest
<1>6. CASE ThreadMessages
  <2> DEFINE S == InThread(db, header.thread)
  <2>1. PICK rows \in ByDate(S) :
          LET rendered == Rendered(rows)
          IN /\ view' = IF TooLong(rendered) THEN Shortened(rendered) ELSE rendered
             /\ header' = IF rendered = <<>> THEN [header EXCEPT !.count = 0] ELSE header
    BY <1>6 DEF ThreadMessages
  <2>2. call = "thread" /\ call' = "none" /\ done' = TRUE /\ UNCHANGED <<page, known, shown, opened>>
    BY <1>6 DEF ThreadMessages
  <2>3. S \subseteq Msgs /\ IsFiniteSet(S)
    BY FS_Subset DEF InThread, Stored
  <2>4. rows \in Seq(S) /\ Len(rows) = Cardinality(S) /\ Len(rows) \in Nat
    BY <2>1, <2>3, Listing DEF ByDate
  <2>5. rows \in Seq(Msgs)
    BY <2>3, <2>4
  <2>6. view' \in {Rendered(rows), Shortened(Rendered(rows))}
    BY <2>1
  <2>7. Len(view') = Len(rows) /\ \A i \in DOMAIN view' : Honest(view', i)
    BY <2>5, <2>6, RenderedHonest
  <2>8. header.count \in Nat /\ header.count <= Cardinality(S)
    BY <1>1, <2>2 DEF Told
  <2>9. header' = header \/ header' = [header EXCEPT !.count = 0]
    BY <2>1
  <2>10. header = [thread |-> header.thread, count |-> header.count, status |-> header.status]
    BY <1>1 DEF WalkInv, ReaderTyped
  <2>11. header'.count = header.count \/ header'.count = 0
    BY <2>9, <2>10
  <2>12. header'.count <= Len(view')
    BY <2>4, <2>7, <2>8, <2>11
  <2>13. opened' = Unopened
    BY <1>1, <2>2 DEF WalkInv, ReaderTyped
  <2> QED BY <2>2, <2>7, <2>12, <2>13 DEF Told, Honest
<1>7. CASE OpenMessage
  <2>1. call = "none" /\ UNCHANGED <<call, page, known, shown, header, view, done>>
    BY <1>7 DEF OpenMessage
  <2>2. PICK m \in shown :
          opened' = IF MessageRows(m) = {} THEN [Unopened EXCEPT !.truncated = TRUE]
                    ELSE [id |-> m, kept |-> Cut(Length[m], BodyMax), truncated |-> Length[m] > BodyMax]
    BY <1>7 DEF OpenMessage
  <2>3. m \in Msgs /\ MessageRows(m) # {}
    BY <1>1, <2>2 DEF WalkInv, ReaderTyped, MessageRows, Stored
  <2>4. opened' = [id |-> m, kept |-> Cut(Length[m], BodyMax), truncated |-> Length[m] > BodyMax]
    BY <2>2, <2>3
  <2>5. Length[m] \in Nat /\ BodyMax \in Nat
    BY <2>3, ReaderAssumption
  <2>6. Length[m] <= BodyMax => Cut(Length[m], BodyMax) = Length[m]
    BY <2>5, CutOf
  <2>7. ASSUME Cut(Length[m], BodyMax) < Length[m] PROVE Length[m] > BodyMax
    BY <2>5, <2>6, <2>7
  <2>8. opened'.id = m /\ (opened'.kept < Length[m] => opened'.truncated)
    BY <2>4, <2>7
  <2> QED BY <1>1, <1>2, <2>1, <2>2, <2>8 DEF Told, Honest
<1> QED BY <1>3, <1>4, <1>5, <1>6, <1>7 DEF Read

\* What an agent is told of threads and messages is so, however long the bodies are and
\* however the ingester commits between the two queries of get_thread: the header never
\* counts more messages than come, a cut body says so, the newest three keep their share,
\* and the thread of an opened message exists.
THEOREM AnswersHold ==
    ASSUME IsFiniteSet(Msgs)
    PROVE  ArchiveSpec => []AnswersAreTrue
<1>1. ArchiveInit => AnswersInv
  <2> SUFFICES ASSUME ArchiveInit PROVE AnswersInv
      OBVIOUS
  <2>1. WalkInv
    BY WalkInit
  <2>2. Told
    BY DEF ArchiveInit, ReaderInit, Told
  <2> QED BY <2>1, <2>2 DEF AnswersInv
<1>2. AnswersInv /\ [ArchiveNext]_<<vars, readerVars>> => AnswersInv'
  <2> SUFFICES ASSUME AnswersInv, [ArchiveNext]_<<vars, readerVars>> PROVE AnswersInv'
      OBVIOUS
  <2>1. WalkInv'
    BY WalkNext DEF AnswersInv
  <2>2. CASE Next /\ UNCHANGED readerVars
    BY <2>1, <2>2, ToldUnder DEF AnswersInv
  <2>3. CASE Read /\ UNCHANGED vars
    BY <2>1, <2>3, ToldRead DEF AnswersInv
  <2>4. CASE UNCHANGED <<vars, readerVars>>
    <3>1. [Next]_vars /\ UNCHANGED readerVars
      BY <2>4
    <3> QED BY <2>1, <3>1, ToldUnder DEF AnswersInv
  <2> QED BY <2>2, <2>3, <2>4 DEF ArchiveNext
<1>3. AnswersInv => AnswersAreTrue
  <2> SUFFICES ASSUME AnswersInv PROVE AnswersAreTrue
      OBVIOUS
  <2>1. ThreadExists(db)
    BY DEF AnswersInv, WalkInv, StatusInv, CountInv, FilesInv, RowsInv
  <2>2. shown \subseteq Stored(db)
    BY DEF AnswersInv, WalkInv, ReaderTyped
  <2>3. opened # Unopened => opened.id \in shown /\ db.thread[opened.id] \in db.threads
    BY <2>1, <2>2 DEF AnswersInv, Told, ThreadExists
  <2>4. opened.id # NoMsg => opened # Unopened
    BY DEF Unopened
  <2> QED BY <2>3, <2>4 DEF AnswersAreTrue, AnswersInv, Told, Honest
<1> QED BY <1>1, <1>2, <1>3, PTL DEF ArchiveSpec
=============================================================================
