-------------------------- MODULE McpBatch_proofs --------------------------
(***************************************************************************)
(* What run_batch and download_mbox.sh keep for every number of processes, *)
(* workers, lists, months and restarts: the types, the ingest that waits   *)
(* for a whole download, and, when only the button starts batches, one     *)
(* batch at a time, its status, and whole published months.                *)
(***************************************************************************)
EXTENDS McpBatch, FiniteSetTheorems, TLAPS

\* The setting is one of Settings, and the state is of its type.
Typed == setting \in Settings /\ TypeOK

-----------------------------------------------------------------------------
\* Every thread has a process: the one it schedules for, or the serving one.
LEMMA HomeIsProc == ASSUME NEW t \in Threads PROVE HomeOf(t) \in Procs
BY ThreadsAssumption DEF HomeOf, Threads

\* A thread always is at a month there is to download.
LEMMA FileIsFile == ASSUME Typed, NEW t \in Threads PROVE FileOf(t) \in Files
<1>1. /\ setting.lists \in Seq(Lists) /\ setting.months \in Seq(Months)
      /\ li[t] \in 1..Len(setting.lists) /\ mi[t] \in 1..Len(setting.months)
  BY ThreadsAssumption DEF Typed, TypeOK
<1>2. setting.lists[li[t]] \in Lists /\ setting.months[mi[t]] \in Months
  BY <1>1
<1> QED BY <1>2 DEF FileOf, Files

\* There is a first list and a first month.
LEMMA FirstOfEach == ASSUME setting \in Settings
                     PROVE 1 \in 1..Len(setting.lists) /\ 1 \in 1..Len(setting.months)
<1>1. /\ setting.lists \in Seq(Lists) /\ Len(setting.lists) > 0
      /\ setting.months \in Seq(Months) /\ Len(setting.months) > 0
  BY ThreadsAssumption
<1>2. Len(setting.lists) \in Nat /\ Len(setting.months) \in Nat
  BY <1>1
<1> QED BY <1>1, <1>2

\* Nothing runs and nothing is published at first.
LEMMA TypedInit == Init => Typed
<1> SUFFICES ASSUME Init PROVE Typed OBVIOUS
<1>1. 1 \in 1..Len(setting.lists) /\ 1 \in 1..Len(setting.months)
  BY FirstOfEach DEF Init
<1> QED BY <1>1 DEF Init, Typed, TypeOK, Steps

\* curl opens an inode of its month: the one under the .partial name, or a free one.
LEMMA OpensInode ==
    ASSUME Typed, NEW f \in Files, tmp[f] # NoInode \/ FreeInodes(f) # {}
    PROVE /\ Opened(f) \in Inodes
          /\ tmp[f] # NoInode => Opened(f) = tmp[f]
          /\ tmp[f] = NoInode => Opened(f) \notin Held(f)
<1>1. CASE tmp[f] # NoInode BY <1>1 DEF Opened, Typed, TypeOK
<1>2. CASE tmp[f] = NoInode
  <2>1. Opened(f) \in FreeInodes(f) BY <1>2 DEF Opened
  <2> QED BY <1>2, <2>1 DEF FreeInodes
<1> QED BY <1>1, <1>2

LEMMA OpenTyped ==
    ASSUME Typed, NEW f \in Files, NEW w \in Writers, OpenPartial(f, w)
    PROVE /\ tmp' \in [Files -> Inodes \cup {NoInode}]
          /\ writer' \in [Files -> [Inodes -> Writers \cup {Nobody}]]
<1>1. Opened(f) \in Inodes BY OpensInode DEF OpenPartial
<1> QED BY <1>1 DEF OpenPartial, Typed, TypeOK

\* Threads and slots write under names of their own.
LEMMA WritersAre == Threads \subseteq Writers /\ Slots \subseteq Writers /\ Threads \cap Slots = {}
BY ThreadsAssumption DEF Writers, Threads

\* A transfer that ends only takes its name off the inode it wrote.
LEMMA CompletedTyped == ASSUME Typed, NEW f, NEW i, NEW w
                        PROVE Completed(f, i, w) \in [Files -> [Inodes -> Writers \cup {Nobody}]]
BY DEF Completed, Typed, TypeOK

\* What is kept of the inodes is of the type of what there was.
LEMMA KeepTyped ==
    ASSUME NEW W \in [Files -> [Inodes -> Writers \cup {Nobody}]],
           NEW T \in [Files -> SUBSET Inodes], Keep(W, T)
    PROVE /\ writer' \in [Files -> [Inodes -> Writers \cup {Nobody}]]
          /\ touched' \in [Files -> SUBSET Inodes]
<1>1. /\ writer' = [f \in Files |-> [i \in Inodes |-> IF i \in Held(f)' THEN W[f][i] ELSE Nobody]]
      /\ touched' = [f \in Files |-> T[f] \cap Held(f)']
  BY DEF Keep
<1>2. ASSUME NEW f \in Files
      PROVE [i \in Inodes |-> IF i \in Held(f)' THEN W[f][i] ELSE Nobody]
                \in [Inodes -> Writers \cup {Nobody}]
  OBVIOUS
<1> QED BY <1>1, <1>2

\* A script or an ingester that is left behind, and its inode, are of their types.
LEMMA LeaveTyped ==
    ASSUME Typed, NEW t \in Threads, NEW k \in Slots, NEW shell \in BOOLEAN, Leave(t, k, shell),
           pc[t] \in {"download", "transfer", "validate", "move", "ingest"}
    PROVE /\ left' \in [Slots -> Leftovers \cup {Gone, Container}]
          /\ writer' \in [Files -> [Inodes -> Writers \cup {Nobody}]]
          /\ touched' \in [Files -> SUBSET Inodes]
<1> DEFINE f == FileOf(t)
           W == IF writer[f][fd[t]] = t THEN [writer EXCEPT ![f][fd[t]] = k] ELSE writer
           T == [touched EXCEPT ![f] = @ \cup {fd[t]}]
<1>1. f \in Files BY FileIsFile
<1>2. left' \in [Slots -> Leftovers \cup {Gone, Container}]
  BY <1>1 DEF Leave, Leftovers, Typed, TypeOK
<1>3. W \in [Files -> [Inodes -> Writers \cup {Nobody}]]
  BY WritersAre DEF Typed, TypeOK
<1>4. CASE pc[t] = "transfer"
  <2>1. Keep(W, T) BY <1>4 DEF Leave
  <2>2. T \in [Files -> SUBSET Inodes] BY <1>1, <1>4 DEF Typed, TypeOK
  <2> HIDE DEF W, T
  <2> QED BY <1>2, <1>3, <2>1, <2>2, KeepTyped
<1> QED BY <1>2, <1>4 DEF Leave, Typed, TypeOK

\* Every step of a batch's thread keeps the types ...
LEMMA TypedStep == ASSUME Typed, NEW t \in Threads, Step(t) \/ TransferRetries(t) PROVE Typed'
<1> USE DEF Goto, script, disk
<1>1. FileOf(t) \in Files /\ t \in Writers BY FileIsFile, WritersAre
<1>2. CASE RunBatch(t) BY <1>2, HomeIsProc DEF RunBatch, Typed, TypeOK, Steps, Batch
<1>3. CASE TransferStart(t)
  <2>1. Opened(FileOf(t)) \in Inodes BY <1>1, <1>3, OpensInode DEF TransferStart, OpenPartial
  <2>2. /\ tmp' \in [Files -> Inodes \cup {NoInode}]
        /\ writer' \in [Files -> [Inodes -> Writers \cup {Nobody}]]
    BY <1>1, <1>3, OpenTyped DEF TransferStart
  <2>3. touched' \in [Files -> SUBSET Inodes]
    <3>1. touched[FileOf(t)] \in SUBSET Inodes BY <1>1 DEF Typed, TypeOK
    <3> HIDE DEF disk
    <3> QED BY <1>1, <1>3, <3>1 DEF TransferStart, Typed, TypeOK
  <2>4. /\ fd' = [fd EXCEPT ![t] = Opened(FileOf(t))] /\ pc' = [pc EXCEPT ![t] = "transfer"]
        /\ UNCHANGED <<setting, status, out, li, mi, failed, left>>
    BY <1>3 DEF TransferStart
  <2> QED BY <2>1, <2>2, <2>3, <2>4 DEF Typed, TypeOK, Steps, Batch
<1>4. CASE TransferRetries(t) BY <1>1, <1>4 DEF TransferRetries, Again, Typed, TypeOK
<1>5. CASE TransferDone(t)
  <2>1. /\ writer' \in [Files -> [Inodes -> Writers \cup {Nobody}]]
        /\ touched' \in [Files -> SUBSET Inodes]
    BY <1>5, CompletedTyped, KeepTyped DEF TransferDone, Typed, TypeOK
  <2> QED BY <1>5, <2>1 DEF TransferDone, Typed, TypeOK, Steps, Batch
<1>6. CASE TransferFails(t) \/ ValidateFails(t) \/ Move(t)
  <2>1. /\ writer' \in [Files -> [Inodes -> Writers \cup {Nobody}]]
        /\ touched' \in [Files -> SUBSET Inodes]
    BY <1>6, KeepTyped DEF TransferFails, ValidateFails, Move, Typed, TypeOK
  <2>2. CASE TransferFails(t) BY <1>1, <2>1, <2>2 DEF TransferFails, Typed, TypeOK, Steps, Batch
  <2>3. CASE ValidateFails(t) BY <1>1, <2>1, <2>3 DEF ValidateFails, Typed, TypeOK, Steps, Batch
  <2>4. CASE Move(t) BY <1>1, <2>1, <2>4 DEF Move, Typed, TypeOK, Steps, Batch
  <2> QED BY <1>6, <2>2, <2>3, <2>4
<1>7. CASE ScriptTimesOut(t)
  <2>1. /\ left' \in [Slots -> Leftovers \cup {Gone, Container}]
        /\ writer' \in [Files -> [Inodes -> Writers \cup {Nobody}]]
        /\ touched' \in [Files -> SUBSET Inodes]
    <3>1. ASSUME NEW k \in setting.slots, Leave(t, k, FALSE), pc[t] \in {"download", "transfer"}
          PROVE /\ left' \in [Slots -> Leftovers \cup {Gone, Container}]
                /\ writer' \in [Files -> [Inodes -> Writers \cup {Nobody}]]
                /\ touched' \in [Files -> SUBSET Inodes]
      <4>1. k \in Slots BY ThreadsAssumption DEF Typed
      <4> QED BY <3>1, <4>1, LeaveTyped
    <3>2. CASE UNCHANGED <<left, writer, touched>> BY <3>2 DEF Typed, TypeOK
    <3> QED BY <1>7, <3>1, <3>2 DEF ScriptTimesOut
  <2> QED BY <1>7, <2>1 DEF ScriptTimesOut, Typed, TypeOK, Steps, Batch
<1>8. CASE Validate(t) \/ MoveFails(t)
  BY <1>8 DEF Validate, MoveFails, Typed, TypeOK, Steps, Batch
<1>9. CASE NextMonth(t) \/ ListFailed(t) \/ NextList(t)
  <2>1. Len(setting.lists) \in Nat /\ Len(setting.months) \in Nat
    BY ThreadsAssumption DEF Typed
  <2>2. 1 \in 1..Len(setting.months) BY FirstOfEach DEF Typed
  <2>3. li[t] \in 1..Len(setting.lists) /\ mi[t] \in 1..Len(setting.months)
    BY DEF Typed, TypeOK
  <2>4. CASE NextMonth(t)
    <3>1. mi[t] + 1 \in 1..Len(setting.months) BY <2>1, <2>3, <2>4 DEF NextMonth
    <3> QED BY <3>1, <2>4 DEF NextMonth, Typed, TypeOK, Steps, Batch
  <2>5. CASE ListFailed(t)
    BY <2>5 DEF ListFailed, Typed, TypeOK, Steps, Batch
  <2>6. CASE NextList(t)
    <3>1. li[t] < Len(setting.lists) => li[t] + 1 \in 1..Len(setting.lists) BY <2>1, <2>3
    <3> QED BY <3>1, <2>2, <2>6 DEF NextList, Typed, TypeOK, Steps, Batch
  <2> QED BY <1>9, <2>4, <2>5, <2>6
<1>10. CASE Ingest(t) BY <1>10 DEF Ingest, Typed, TypeOK, Steps, Batch
<1>11. CASE IngestTimesOut(t)
  <2>1. /\ left' \in [Slots -> Leftovers \cup {Gone, Container}]
        /\ writer' \in [Files -> [Inodes -> Writers \cup {Nobody}]]
        /\ touched' \in [Files -> SUBSET Inodes]
    <3>1. PICK k \in setting.slots : Leave(t, k, FALSE) BY <1>11 DEF IngestTimesOut
    <3>2. k \in Slots BY ThreadsAssumption DEF Typed
    <3> QED BY <1>11, <3>1, <3>2, LeaveTyped DEF IngestTimesOut
  <2> QED BY <1>11, <2>1 DEF IngestTimesOut, Typed, TypeOK, Steps, Batch
<1>12. CASE BatchDone(t) \/ BatchFailed(t)
  <2>1. Finish(t) BY <1>12 DEF BatchDone, BatchFailed
  <2>2. HomeOf(t) \in Procs BY HomeIsProc
  <2>3. 1 \in 1..Len(setting.lists) /\ 1 \in 1..Len(setting.months) BY FirstOfEach DEF Typed
  <2> QED BY <2>1, <2>2, <2>3 DEF Finish, Typed, TypeOK, Steps
<1> QED BY <1>2, <1>3, <1>4, <1>5, <1>6, <1>7, <1>8, <1>9, <1>10, <1>11, <1>12 DEF Step

\* ... so does what was left behind ...
LEMMA TypedLeft == ASSUME Typed, NEW k \in Slots, LeftStep(k) PROVE Typed'
<1> USE DEF batches, script, disk
<1>1. left[k] \in Leftovers \cup {Gone, Container} /\ k \in Writers
  BY WritersAre DEF Typed, TypeOK
<1>2. left[k].step \in {"download", "transfer", "validate", "move"} =>
         left[k] \in Leftovers /\ left[k].file \in Files
  BY <1>1 DEF Leftovers, Gone, Container
<1>3. CASE LeftStarts(k)
  <2> DEFINE f == left[k].file
  <2>1. f \in Files /\ OpenPartial(f, k) BY <1>2, <1>3 DEF LeftStarts
  <2>2. Opened(f) \in Inodes BY <2>1, OpensInode DEF OpenPartial
  <2>3. /\ tmp' \in [Files -> Inodes \cup {NoInode}]
        /\ writer' \in [Files -> [Inodes -> Writers \cup {Nobody}]]
    BY <1>1, <2>1, OpenTyped
  <2>4. /\ touched' = [touched EXCEPT ![f] = @ \cup {Opened(f)}]
        /\ left' = [left EXCEPT ![k] = [@ EXCEPT !.step = "transfer", !.inode = Opened(f)]]
        /\ UNCHANGED <<batches, out>>
    BY <1>3 DEF LeftStarts, Typed, TypeOK
  <2>5. [left[k] EXCEPT !.step = "transfer", !.inode = Opened(f)] \in Leftovers
    BY <1>2, <1>3, <2>2 DEF LeftStarts, Leftovers
  <2> HIDE DEF f
  <2> QED BY <2>1, <2>2, <2>3, <2>4, <2>5 DEF Typed, TypeOK
<1>4. CASE LeftRetries(k) BY <1>1, <1>4 DEF LeftRetries, Again, Typed, TypeOK
<1>5. CASE LeftDone(k)
  <2>1. /\ writer' \in [Files -> [Inodes -> Writers \cup {Nobody}]]
        /\ touched' \in [Files -> SUBSET Inodes]
    BY <1>5, CompletedTyped, KeepTyped DEF LeftDone, Typed, TypeOK
  <2>2. left' \in [Slots -> Leftovers \cup {Gone, Container}]
    <3>1. [left[k] EXCEPT !.step = "validate", !.inode = NoInode] \in Leftovers
      BY <1>2, <1>5 DEF LeftDone, Leftovers
    <3> QED BY <1>5, <3>1 DEF LeftDone, Typed, TypeOK
  <2> QED BY <1>5, <2>1, <2>2 DEF LeftDone, Typed, TypeOK
<1>6. CASE LeftValidates(k)
  <2>1. [left[k] EXCEPT !.step = "move"] \in Leftovers
    BY <1>2, <1>6 DEF LeftValidates, Leftovers
  <2>2. left' = [left EXCEPT ![k] = [left[k] EXCEPT !.step = "move"]]
    BY <1>6 DEF LeftValidates, Typed, TypeOK
  <2> QED BY <1>6, <2>1, <2>2 DEF LeftValidates, Typed, TypeOK
<1>7. CASE LeftMoves(k)
  <2> DEFINE f == left[k].file
             T == [touched EXCEPT ![f] = @ \cup {tmp[f]}]
  <2>1. f \in Files /\ tmp[f] \in Inodes BY <1>2, <1>7 DEF LeftMoves, Typed, TypeOK
  <2>2. T \in [Files -> SUBSET Inodes] BY <2>1 DEF Typed, TypeOK
  <2>3. /\ out' = [out EXCEPT ![f] = tmp[f]] /\ tmp' = [tmp EXCEPT ![f] = NoInode]
        /\ left' = [left EXCEPT ![k] = Gone] /\ UNCHANGED batches /\ Keep(writer, T)
    BY <1>7 DEF LeftMoves
  <2> HIDE DEF f, T
  <2>4. /\ writer' \in [Files -> [Inodes -> Writers \cup {Nobody}]]
        /\ touched' \in [Files -> SUBSET Inodes]
    BY <2>2, <2>3, KeepTyped DEF Typed, TypeOK
  <2> QED BY <2>1, <2>3, <2>4 DEF Typed, TypeOK
<1>8. CASE LeftEnds(k)
  <2>1. /\ writer' \in [Files -> [Inodes -> Writers \cup {Nobody}]]
        /\ touched' \in [Files -> SUBSET Inodes]
    BY <1>8, KeepTyped DEF LeftEnds, Typed, TypeOK
  <2> QED BY <1>8, <2>1 DEF LeftEnds, Typed, TypeOK
<1> QED BY <1>3, <1>4, <1>5, <1>6, <1>7, <1>8 DEF LeftStep

\* ... and a restart, whatever it leaves behind.
LEMMA TypedRestart == ASSUME Typed, Restart PROVE Typed'
<1>1. 1 \in 1..Len(setting.lists) /\ 1 \in 1..Len(setting.months) BY FirstOfEach DEF Typed
<1>2. /\ left' \in [Slots -> Leftovers \cup {Gone, Container}]
      /\ writer' \in [Files -> [Inodes -> Writers \cup {Nobody}]]
      /\ touched' \in [Files -> SUBSET Inodes]
  <2>1. CASE UNCHANGED left /\ Keep(writer, touched) BY <2>1, KeepTyped DEF Typed, TypeOK
  <2>2. ASSUME NEW t \in Threads, NEW k \in setting.slots, Leave(t, k, TRUE),
               pc[t] \in {"download", "transfer", "validate", "move", "ingest"}
        PROVE /\ left' \in [Slots -> Leftovers \cup {Gone, Container}]
              /\ writer' \in [Files -> [Inodes -> Writers \cup {Nobody}]]
              /\ touched' \in [Files -> SUBSET Inodes]
    <3>1. k \in Slots BY ThreadsAssumption DEF Typed
    <3> QED BY <2>2, <3>1, LeaveTyped
  <2> QED BY <2>1, <2>2 DEF Restart, Typed, TypeOK
<1> QED BY <1>1, <1>2 DEF Restart, Typed, TypeOK, Steps

LEMMA TypedNext == Typed /\ [Next]_vars => Typed'
<1> SUFFICES ASSUME Typed, [Next]_vars PROVE Typed' OBVIOUS
<1> USE DEF Goto, script, disk
<1>1. ASSUME NEW t \in Workers, TriggerBatch(t) PROVE Typed'
  BY <1>1, ThreadsAssumption DEF TriggerBatch, Typed, TypeOK, Threads, Steps
<1>2. ASSUME NEW p \in Procs, StartScheduler(p) \/ SchedulerFires(p) PROVE Typed'
  BY <1>2 DEF StartScheduler, SchedulerFires, Typed, TypeOK, Threads, Steps
<1>3. CASE UNCHANGED vars
  BY <1>3 DEF vars, Typed, TypeOK
<1> QED BY <1>1, <1>2, <1>3, TypedStep, TypedLeft, TypedRestart
        DEF Next, StartByTrigger, StartByHour

\* The state keeps its type: months and lists are never indexed out of range, whatever
\* fails, hangs or is restarted.
THEOREM TypeCorrect == Spec => []TypeOK
<1>1. Typed => TypeOK BY DEF Typed
<1> QED BY TypedInit, TypedNext, <1>1, PTL DEF Spec

\* The setting stays, and what goes on in the disk alone moves no batch.
LEMMA LeftAlone == ASSUME NEW k, LeftStep(k) PROVE UNCHANGED batches
BY DEF LeftStep, LeftStarts, LeftRetries, LeftDone, LeftValidates, LeftMoves, LeftEnds

LEMMA SettingStays == [Next]_vars => UNCHANGED setting
<1>1. ASSUME NEW k, LeftStep(k) PROVE UNCHANGED setting BY <1>1, LeftAlone DEF batches
<1>2. ASSUME NEW t, Step(t) PROVE UNCHANGED setting
  BY <1>2 DEF Step, RunBatch, TransferStart, TransferDone, TransferFails, ScriptTimesOut,
         Validate, ValidateFails, Move, MoveFails, NextMonth, ListFailed, NextList, Ingest,
         IngestTimesOut, BatchDone, BatchFailed, Finish
<1> QED BY <1>1, <1>2 DEF Next, StartByTrigger, StartByHour, vars, TriggerBatch, StartScheduler,
         SchedulerFires, TransferRetries, Restart

-----------------------------------------------------------------------------
(* A failed month ends its batch *)

\* Only a list whose months all succeeded leads on to the ingest.
LEMMA NoIngestStep == Typed /\ NoIngestAfterFailure /\ [Next]_vars => NoIngestAfterFailure'
<1> SUFFICES ASSUME Typed, NoIngestAfterFailure, [Next]_vars, NEW s \in Threads,
                    pc'[s] = "ingest"
             PROVE ~failed'[s]
  BY DEF NoIngestAfterFailure
<1> USE DEF Goto, script, disk, NoIngestAfterFailure, Typed, TypeOK
<1>1. ASSUME NEW t \in Workers, TriggerBatch(t) PROVE ~failed'[s]
  BY <1>1 DEF TriggerBatch, Threads
<1>2. ASSUME NEW p \in Procs, StartScheduler(p) \/ SchedulerFires(p) PROVE ~failed'[s]
  BY <1>2 DEF StartScheduler, SchedulerFires, Threads
<1>3. ASSUME NEW t \in Threads, Step(t) PROVE ~failed'[s]
  <2>1. CASE NextList(t) BY <2>1 DEF NextList
  <2>2. CASE Ingest(t) BY <2>2 DEF Ingest
  <2>3. CASE BatchDone(t) \/ BatchFailed(t) BY <2>3 DEF BatchDone, BatchFailed, Finish
  <2>4. CASE TransferFails(t) \/ ValidateFails(t) BY <2>4 DEF TransferFails, ValidateFails
  <2>5. CASE \/ RunBatch(t) \/ TransferStart(t) \/ TransferDone(t) \/ ScriptTimesOut(t)
              \/ IngestTimesOut(t)
    BY <2>5 DEF RunBatch, TransferStart, TransferDone, ScriptTimesOut, IngestTimesOut
  <2>6. CASE Validate(t) \/ Move(t) \/ MoveFails(t) \/ NextMonth(t) \/ ListFailed(t)
    BY <2>6 DEF Validate, Move, MoveFails, NextMonth, ListFailed
  <2> QED BY <1>3, <2>1, <2>2, <2>3, <2>4, <2>5, <2>6 DEF Step
<1>4. CASE Restart BY <1>4 DEF Restart
<1>5. CASE UNCHANGED vars BY <1>5 DEF vars
<1>6. ASSUME NEW t \in Threads, TransferRetries(t) PROVE ~failed'[s]
  BY <1>6 DEF TransferRetries
<1>7. ASSUME NEW k \in Slots, LeftStep(k) PROVE ~failed'[s]
  BY <1>7, LeftAlone DEF batches
<1> QED BY <1>1, <1>2, <1>3, <1>4, <1>5, <1>6, <1>7 DEF Next, StartByTrigger, StartByHour

\* The ingester runs only in a batch none of whose months failed, whoever started it and
\* whatever runs beside it: run_batch's _run_download raises before.
THEOREM IngestsWholeDownloads == Spec => []NoIngestAfterFailure
<1>1. Init => NoIngestAfterFailure BY DEF Init, NoIngestAfterFailure
<1> QED BY TypedInit, TypedNext, NoIngestStep, <1>1, PTL DEF Spec

-----------------------------------------------------------------------------
(* One batch at a time, when only the button starts batches *)

Busy(t) == pc[t] # "off"

\* No scheduler wakes, at most one worker is busy, and the serving process's status says
\* whether one is.
OneBusy ==
    /\ \A p \in Procs : pc[Schedulers[p]] = "off" /\ (p # Serving => status[p] = "idle")
    /\ \A s, t \in Workers : Busy(s) /\ Busy(t) => s = t
    /\ \A t \in Workers : pc[t] # "waiting"
    /\ status[Serving] = "running" <=> \E t \in Workers : Busy(t)
OneBusyWhenTriggered == TriggeredOnly => OneBusy

\* A step of a thread that stays busy keeps OneBusy if no status changes.
LEMMA BusyGoesOn ==
    ASSUME Typed, OneBusy, NEW t \in Threads, NEW q \in Steps \ {"off", "waiting"},
           Busy(t), Goto(t, q), UNCHANGED status
    PROVE OneBusy'
<1>1. t \in Workers BY DEF OneBusy, Threads, Busy
<1> QED BY <1>1, ThreadsAssumption DEF OneBusy, Busy, Goto, Typed, TypeOK, Threads, Steps, Batch

\* A trigger is accepted only at "idle", and each end of a batch sets it.
LEMMA OneBusyStep == Typed /\ OneBusyWhenTriggered /\ [Next]_vars => OneBusyWhenTriggered'
<1> SUFFICES ASSUME Typed, OneBusyWhenTriggered, [Next]_vars, TriggeredOnly'
             PROVE OneBusy'
  BY DEF OneBusyWhenTriggered
<1>1. UNCHANGED setting BY SettingStays
<1>2. TriggeredOnly /\ OneBusy BY <1>1 DEF TriggeredOnly, OneBusyWhenTriggered
<1>3. ASSUME NEW t \in Workers, TriggerBatch(t) PROVE OneBusy'
  BY <1>2, <1>3, ThreadsAssumption
     DEF TriggerBatch, Goto, OneBusy, Busy, Typed, TypeOK, Threads
<1>4. ASSUME NEW p \in Procs, StartScheduler(p) \/ SchedulerFires(p) PROVE FALSE
  BY <1>2, <1>4, ThreadsAssumption
     DEF StartScheduler, SchedulerFires, OneBusy, TriggeredOnly
<1>5. ASSUME NEW t \in Threads, Step(t) PROVE OneBusy'
  <2>1. CASE BatchDone(t) \/ BatchFailed(t)
    <3>1. Busy(t) /\ Finish(t) BY <2>1 DEF BatchDone, BatchFailed, Busy
    <3>2. t \in Workers BY <3>1, <1>2 DEF OneBusy, Threads, Busy
    <3> QED BY <1>2, <3>1, <3>2, ThreadsAssumption
            DEF Finish, HomeOf, Goto, OneBusy, Busy, Typed, TypeOK, Threads
  <2>2. CASE RunBatch(t)
    <3>1. Busy(t) BY <2>2 DEF RunBatch, Busy
    <3>2. t \in Workers BY <3>1, <1>2 DEF OneBusy, Threads, Busy
    <3>3. status' = status BY <1>2, <2>2, <3>1, <3>2, ThreadsAssumption
            DEF RunBatch, HomeOf, OneBusy, Typed, TypeOK
    <3> QED BY <1>2, <2>2, <3>1, <3>3, BusyGoesOn DEF RunBatch, Steps, Batch
  <2>3. CASE TransferStart(t) \/ TransferDone(t) \/ TransferFails(t) \/ ScriptTimesOut(t)
    BY <1>2, <2>3, BusyGoesOn
       DEF TransferStart, TransferDone, TransferFails, ScriptTimesOut, Busy, Steps, Batch
  <2>4. CASE Validate(t) \/ ValidateFails(t) \/ Move(t) \/ MoveFails(t)
    BY <1>2, <2>4, BusyGoesOn DEF Validate, ValidateFails, Move, MoveFails, Busy, Steps, Batch
  <2>5. CASE NextMonth(t) \/ ListFailed(t) \/ NextList(t) \/ Ingest(t) \/ IngestTimesOut(t)
    BY <1>2, <2>5, BusyGoesOn
       DEF NextMonth, ListFailed, NextList, Ingest, IngestTimesOut, Busy, Steps, Batch
  <2> QED BY <1>5, <2>1, <2>2, <2>3, <2>4, <2>5 DEF Step
<1>6. CASE Restart
  BY <1>6, ThreadsAssumption DEF Restart, OneBusy, Busy, Threads
<1>7. CASE UNCHANGED vars
  BY <1>2, <1>7 DEF vars, OneBusy, Busy
<1>8. ASSUME NEW t \in Threads, TransferRetries(t) PROVE OneBusy'
  BY <1>2, <1>8 DEF TransferRetries, OneBusy, Busy
<1>9. ASSUME NEW k \in Slots, LeftStep(k) PROVE OneBusy'
  BY <1>2, <1>9, LeftAlone DEF batches, OneBusy, Busy
<1> QED BY <1>3, <1>4, <1>5, <1>6, <1>7, <1>8, <1>9 DEF Next, StartByTrigger, StartByHour

\* No batch is under way at first.
LEMMA OneBusyInit == Init => OneBusyWhenTriggered
BY ThreadsAssumption DEF Init, OneBusyWhenTriggered, OneBusy, Busy, Threads

\* What the status promises follows from there being one batch.
LEMMA OneBusyTells == Typed /\ OneBusyWhenTriggered => StatusTruth
<1> SUFFICES ASSUME Typed, OneBusy, NEW p \in Procs
             PROVE Cardinality(BusyIn(p)) = IF status[p] = "running" THEN 1 ELSE 0
  BY DEF OneBusyWhenTriggered, StatusTruth
<1>1. BusyIn(p) = {t \in Workers : p = Serving /\ Busy(t)}
  BY DEF BusyIn, OneBusy, Busy, Active, Batch, HomeOf, Threads, Typed, TypeOK, Steps
<1>2. CASE status[p] = "running"
  <2>1. p = Serving BY <1>2 DEF OneBusy
  <2>2. PICK t \in Workers : Busy(t) BY <1>2, <2>1 DEF OneBusy
  <2>3. BusyIn(p) = {t} BY <1>1, <2>1, <2>2 DEF OneBusy
  <2> QED BY <1>2, <2>3, FS_Singleton
<1>3. CASE status[p] # "running"
  <2>1. BusyIn(p) = {} BY <1>1, <1>3 DEF OneBusy
  <2> QED BY <1>3, <2>1, FS_EmptySet
<1> QED BY <1>2, <1>3

\* When only the button starts batches, one at a time is under way, in the process that
\* serves, and its status is "running" exactly then: trigger_batch_async tests and sets
\* the status, and every end of run_batch resets it.
THEOREM BatchesOneAtATime == Spec => []StatusTruth
<1> QED BY TypedInit, TypedNext, OneBusyInit, OneBusyStep, OneBusyTells, PTL DEF Spec

-----------------------------------------------------------------------------
(* Whole published months, when only the button starts batches *)

\* A published inode is never the one under the .partial name, and nobody is half-way
\* through it but what was left behind.
PublishedApart ==
    \A f \in Files : out[f] # NoInode => (Whole(f) \/ out[f] \in touched[f]) /\ tmp[f] # out[f]
\* The one transfer under way writes to the .partial of its month, and what is validated
\* and moved has been written to its end, unless something left behind had it open.
TransferWrites ==
    \A t \in Workers : LET f == FileOf(t) IN
        /\ pc[t] = "transfer" =>
              /\ \/ tmp[f] = NoInode \/ tmp[f] \in touched[f]
                 \/ tmp[f] = fd[t] /\ writer[f][fd[t]] = t
              /\ out[f] = fd[t] => out[f] \in touched[f]
        /\ pc[t] \in {"validate", "move"} =>
              tmp[f] = NoInode \/ tmp[f] \in touched[f] \/ writer[f][tmp[f]] = Nobody
\* What was left behind writes to nothing else.
LeftTouched ==
    \A k \in Slots : left[k].step = "transfer" => left[k].inode \in touched[left[k].file]
WholeInv == PublishedApart /\ TransferWrites /\ LeftTouched
WholeWhenTriggered == TriggeredOnly => WholeInv

\* TransferWrites is about the one busy worker, which a step of its own takes elsewhere.
LEMMA TransferStep ==
    ASSUME Typed, OneBusy, NEW t \in Threads, Busy(t), NEW q \in Steps, Goto(t, q),
           NEW s \in Workers, pc'[s] \in {"transfer", "validate", "move"}
    PROVE s = t /\ q \in {"transfer", "validate", "move"}
<1>1. t \in Workers BY DEF OneBusy, Threads, Busy
<1>2. s \in Threads /\ s = t BY <1>1 DEF OneBusy, Busy, Goto, Typed, TypeOK, Threads
<1> QED BY <1>2 DEF Goto, Typed, TypeOK

\* A left-behind transfer has an inode of a month there is.
LEMMA LeftHasFile ==
    ASSUME Typed, NEW k \in Slots,
           left[k].step \in {"download", "transfer", "validate", "move"}
    PROVE left[k].file \in Files /\ left[k].inode \in Inodes \cup {NoInode}
BY DEF Typed, TypeOK, Leftovers, Gone, Container

\* What is kept of the inodes: nothing whole is lost, nothing named or open is forgotten.
LEMMA KeepKeeps ==
    ASSUME NEW W, NEW T, Keep(W, T), NEW f \in Files
    PROVE /\ \A i \in Inodes : W[f][i] = Nobody => writer'[f][i] = Nobody
          /\ \A i \in Inodes : i \in Held(f)' => writer'[f][i] = W[f][i]
          /\ T[f] \cap Held(f)' \subseteq touched'[f]
BY DEF Keep

\* The names and the open inodes of a month are held.
LEMMA NamesHeld ==
    ASSUME NEW f \in Files
    PROVE /\ out[f] \in Held(f) /\ tmp[f] \in Held(f)
          /\ \A k \in Slots : left[k].file = f => left[k].inode \in Held(f)
BY DEF Held, LeftOpen

LEMMA NamesHeldNext ==
    ASSUME NEW f \in Files
    PROVE /\ out'[f] \in Held(f)' /\ tmp'[f] \in Held(f)'
          /\ \A k \in Slots : left'[k].file = f => left'[k].inode \in Held(f)'
BY DEF Held, LeftOpen

\* What is whole when a transfer has ended.
LEMMA CompletedKeeps ==
    ASSUME Typed, NEW f \in Files, NEW i \in Inodes, NEW g, NEW j, NEW w
    PROVE /\ writer[f][i] = Nobody => Completed(g, j, w)[f][i] = Nobody
          /\ writer[f][i] # w => Completed(g, j, w)[f][i] = writer[f][i]
          /\ f # g \/ i # j => Completed(g, j, w)[f][i] = writer[f][i]
          /\ f = g /\ i = j /\ writer[f][i] = w => Completed(g, j, w)[f][i] = Nobody
BY DEF Completed, Typed, TypeOK

\* A step that publishes nothing, gives no .partial a new inode, and keeps what is whole
\* and what is touched.
Calm ==
    \A f \in Files :
        /\ out'[f] = out[f] /\ tmp'[f] \in {tmp[f], NoInode}
        /\ \A i \in Inodes : writer[f][i] = Nobody => writer'[f][i] = Nobody
        /\ touched[f] \cap Held(f)' \subseteq touched'[f]

LEMMA CalmApart == ASSUME Typed, PublishedApart, Calm PROVE PublishedApart'
<1> SUFFICES ASSUME NEW f \in Files, out'[f] # NoInode
             PROVE (writer'[f][out'[f]] = Nobody \/ out'[f] \in touched'[f]) /\ tmp'[f] # out'[f]
  BY DEF PublishedApart, Whole
<1>1. out[f] \in Inodes /\ out'[f] = out[f] BY DEF Calm, Typed, TypeOK
<1>2. (Whole(f) \/ out[f] \in touched[f]) /\ tmp[f] # out[f] BY <1>1 DEF PublishedApart
<1>3. out'[f] \in Held(f)' BY NamesHeldNext
<1> QED BY <1>1, <1>2, <1>3 DEF Calm, Whole

\* Such a step leaves the left-behind transfers where they were.
LEMMA CalmLeft ==
    ASSUME Typed, LeftTouched, Calm,
           \A k \in Slots : left'[k] = left[k] \/ left'[k].step # "transfer"
    PROVE LeftTouched'
<1> SUFFICES ASSUME NEW k \in Slots, left'[k].step = "transfer"
             PROVE left'[k].inode \in touched'[left'[k].file]
  BY DEF LeftTouched
<1>1. left'[k] = left[k] OBVIOUS
<1>2. left[k].file \in Files BY <1>1, LeftHasFile
<1>3. left[k].inode \in touched[left[k].file] BY <1>1 DEF LeftTouched
<1>4. left'[k].inode \in Held(left[k].file)' BY <1>1, <1>2, NamesHeldNext
<1> QED BY <1>1, <1>2, <1>3, <1>4 DEF Calm

\* Keeping what there is, or a completed transfer, is calm.
LEMMA KeepIsCalm ==
    ASSUME Typed, NEW W, Keep(W, touched), UNCHANGED out,
           \A f \in Files : tmp'[f] \in {tmp[f], NoInode},
           \A f \in Files, i \in Inodes : writer[f][i] = Nobody => W[f][i] = Nobody
    PROVE Calm
BY KeepKeeps DEF Calm

\* A transfer that starts truncates an inode that is not published.
LEMMA StartsApart ==
    ASSUME Typed, OneBusy, WholeInv, NEW t \in Threads, TransferStart(t)
    PROVE WholeInv'
<1> DEFINE f == FileOf(t)
           i == Opened(f)
<1>1. f \in Files BY FileIsFile
<1>2. /\ i \in Inodes /\ i # out[f]
      /\ tmp[f] = NoInode => i \notin Held(f)
  <2>1. i \in Inodes /\ (tmp[f] # NoInode => i = tmp[f]) /\ (tmp[f] = NoInode => i \notin Held(f))
    BY <1>1, OpensInode DEF TransferStart, OpenPartial
  <2>2. out[f] \in Held(f) BY <1>1, NamesHeld
  <2> QED BY <1>1, <2>1, <2>2, ThreadsAssumption DEF WholeInv, PublishedApart
<1>3. /\ tmp' = [tmp EXCEPT ![f] = i] /\ fd' = [fd EXCEPT ![t] = i]
      /\ writer' = [writer EXCEPT ![f][i] = t]
      /\ touched' = [touched EXCEPT ![f] = IF i \in LeftOpen(f) THEN @ ELSE @ \ {i}]
      /\ UNCHANGED <<setting, out, li, mi, left>> /\ Goto(t, "transfer") /\ Busy(t)
  BY DEF TransferStart, OpenPartial, Busy
<1>4. /\ writer'[f][i] = t
      /\ \A j \in Inodes : j # i => writer'[f][j] = writer[f][j]
      /\ \A g \in Files \ {f} : writer'[g] = writer[g]
  BY <1>1, <1>2, <1>3 DEF Typed, TypeOK
<1>5. /\ tmp'[f] = i /\ \A g \in Files \ {f} : tmp'[g] = tmp[g] /\ touched'[g] = touched[g]
      /\ \A j : j # i /\ j \in touched[f] => j \in touched'[f]
      /\ i \in LeftOpen(f) => touched'[f] = touched[f]
  BY <1>1, <1>3 DEF Typed, TypeOK
<1>6. ASSUME NEW s \in Workers, pc'[s] \in {"transfer", "validate", "move"}
      PROVE s = t /\ pc'[s] = "transfer" /\ fd'[s] = i /\ FileOf(s)' = f
  <2>1. s = t BY <1>3, <1>6, TransferStep DEF Steps, Batch
  <2>2. FileOf(t)' = f BY <1>3 DEF FileOf
  <2> QED BY <2>1, <2>2, <1>3 DEF Goto, Typed, TypeOK
<1>7. LeftTouched'
  <2> SUFFICES ASSUME NEW k \in Slots, left[k].step = "transfer"
               PROVE left[k].inode \in touched'[left[k].file]
    BY <1>3 DEF LeftTouched
  <2>1. left[k].file \in Files /\ left[k].inode \in touched[left[k].file]
    BY LeftHasFile DEF WholeInv, LeftTouched
  <2>2. left[k].file = f /\ left[k].inode = i => i \in LeftOpen(f) BY DEF LeftOpen
  <2> QED BY <2>1, <2>2, <1>5
<1> HIDE DEF f, i
<1>8. PublishedApart'
  <2> SUFFICES ASSUME NEW g \in Files, out'[g] # NoInode
               PROVE (writer'[g][out'[g]] = Nobody \/ out'[g] \in touched'[g]) /\ tmp'[g] # out'[g]
    BY DEF PublishedApart, Whole
  <2>1. out'[g] = out[g] /\ out[g] \in Inodes BY <1>3 DEF Typed, TypeOK
  <2>2. (writer[g][out[g]] = Nobody \/ out[g] \in touched[g]) /\ tmp[g] # out[g]
    BY <2>1 DEF WholeInv, PublishedApart, Whole
  <2> QED BY <2>1, <2>2, <1>2, <1>4, <1>5
<1>9. TransferWrites'
  <2> SUFFICES ASSUME NEW s \in Workers, pc'[s] \in {"transfer", "validate", "move"}
               PROVE /\ pc'[s] = "transfer" /\ FileOf(s)' = f
                     /\ tmp'[f] = fd'[s] /\ writer'[f][fd'[s]] = s
                     /\ out'[f] # fd'[s]
    BY DEF TransferWrites
  <2>1. s = t /\ pc'[s] = "transfer" /\ fd'[s] = i /\ FileOf(s)' = f BY <1>6
  <2>2. out'[f] = out[f] BY <1>3
  <2> QED BY <2>1, <2>2, <1>2, <1>4, <1>5
<1> QED BY <1>7, <1>8, <1>9 DEF WholeInv

\* One that is left behind leaves its inode touched.
LEMMA LeaveCalm ==
    ASSUME Typed, LeftTouched, NEW t \in Threads, NEW k \in Slots, NEW shell, Leave(t, k, shell),
           UNCHANGED <<out, tmp>>
    PROVE Calm /\ LeftTouched'
<1> SUFFICES ASSUME NEW f \in Files, f = FileOf(t) PROVE Calm /\ LeftTouched'
  BY FileIsFile
<1> DEFINE W == IF writer[f][fd[t]] = t THEN [writer EXCEPT ![f][fd[t]] = k] ELSE writer
       T == [touched EXCEPT ![f] = @ \cup {fd[t]}]
<1>1. f \in Files OBVIOUS
<1>2. /\ left[k] = Gone
      /\ left' = [left EXCEPT ![k] =
            IF pc[t] = "ingest" THEN Container
            ELSE [step |-> pc[t], shell |-> shell, file |-> f, inode |-> fd[t]]]
      /\ IF pc[t] = "transfer" THEN Keep(W, T) ELSE UNCHANGED <<writer, touched>>
  BY DEF Leave
<1>3. \A g \in Files : touched[g] \subseteq T[g] BY <1>1 DEF Typed, TypeOK
<1>4. \A g \in Files, i \in Inodes : writer[g][i] = Nobody => W[g][i] = Nobody
  BY <1>1, ThreadsAssumption DEF Typed, TypeOK, Threads
<1>5. CASE pc[t] = "transfer"
  <2> HIDE DEF W, T
  <2>1. Keep(W, T) BY <1>2, <1>5
  <2>3. Calm BY <2>1, <1>3, <1>4, KeepKeeps DEF Calm
  <2>4. left'[k] = [step |-> "transfer", shell |-> shell, file |-> f, inode |-> fd[t]]
        /\ \A j \in Slots \ {k} : left'[j] = left[j]
    BY <1>2, <1>5 DEF Typed, TypeOK
  <2>5. fd[t] \in touched'[f]
    <3>1. fd[t] \in T[f] BY <1>1 DEF T, Typed, TypeOK
    <3>2. fd[t] \in Held(f)' BY <1>1, <2>4, NamesHeldNext
    <3> QED BY <1>1, <2>1, <3>1, <3>2, KeepKeeps
  <2> SUFFICES ASSUME NEW j \in Slots, left'[j].step = "transfer"
               PROVE left'[j].inode \in touched'[left'[j].file]
    BY <2>3 DEF LeftTouched
  <2>6. CASE j = k BY <2>4, <2>5, <2>6
  <2>7. CASE j # k
    <3>1. left'[j] = left[j] BY <2>4, <2>7
    <3>2. left[j].file \in Files BY <3>1, LeftHasFile
    <3>3. left[j].inode \in touched[left[j].file] BY <3>1 DEF LeftTouched
    <3>4. left'[j].inode \in Held(left[j].file)' BY <3>1, <3>2, NamesHeldNext
    <3> QED BY <2>3, <3>1, <3>2, <3>3, <3>4 DEF Calm
  <2> QED BY <2>6, <2>7
<1>6. CASE pc[t] # "transfer"
  <2>1. Calm BY <1>2, <1>6 DEF Calm
  <2>2. \A j \in Slots : left'[j] = left[j] \/ left'[j].step # "transfer"
    BY <1>2, <1>6 DEF Container, Gone, Typed, TypeOK
  <2> QED BY <2>1, <2>2, CalmLeft
<1> QED BY <1>5, <1>6

\* A step of what was left behind disturbs no transfer of a thread, but through inodes
\* that are touched then.
LEMMA LeftWrites ==
    ASSUME Typed, TransferWrites, UNCHANGED batches,
           \A f \in Files :
              /\ \/ tmp'[f] = NoInode \/ tmp'[f] \in touched'[f]
                 \/ /\ tmp'[f] = tmp[f] /\ tmp[f] \notin touched[f]
                    /\ writer'[f][tmp[f]] = writer[f][tmp[f]]
              /\ out'[f] \in touched'[f] \/ (out'[f] = out[f] /\ out[f] \notin touched[f])
    PROVE TransferWrites'
<1> SUFFICES ASSUME NEW t \in Workers
             PROVE LET f == FileOf(t)' IN
                   /\ pc'[t] = "transfer" =>
                         /\ \/ tmp'[f] = NoInode \/ tmp'[f] \in touched'[f]
                            \/ tmp'[f] = fd'[t] /\ writer'[f][fd'[t]] = t
                         /\ out'[f] = fd'[t] => out'[f] \in touched'[f]
                   /\ pc'[t] \in {"validate", "move"} =>
                         tmp'[f] = NoInode \/ tmp'[f] \in touched'[f] \/ writer'[f][tmp'[f]] = Nobody
  BY DEF TransferWrites
<1>1. FileOf(t)' = FileOf(t) /\ pc' = pc /\ fd' = fd BY DEF batches, script, FileOf
<1>2. t \in Threads /\ FileOf(t) \in Files BY FileIsFile DEF Threads
<1> QED BY <1>1, <1>2 DEF TransferWrites

LEMMA LeftWhole == ASSUME Typed, WholeInv, NEW k \in Slots, LeftStep(k) PROVE WholeInv'
<1> USE DEF WholeInv
<1>1. UNCHANGED batches BY LeftAlone
<1>2. ASSUME Calm,
             \A j \in Slots : left'[j] = left[j] \/ left'[j].step # "transfer",
             \A f \in Files : /\ tmp'[f] = tmp[f]
                              /\ tmp[f] \in Inodes => \/ tmp[f] \in touched[f]
                                                     \/ writer'[f][tmp[f]] = writer[f][tmp[f]],
             \A f \in Files : touched'[f] \subseteq touched[f]
      PROVE WholeInv'
  <2>1. PublishedApart' /\ LeftTouched' BY <1>2, CalmApart, CalmLeft
  <2>2. ASSUME NEW f \in Files
        PROVE /\ \/ tmp'[f] = NoInode \/ tmp'[f] \in touched'[f]
                 \/ /\ tmp'[f] = tmp[f] /\ tmp[f] \notin touched[f]
                    /\ writer'[f][tmp[f]] = writer[f][tmp[f]]
              /\ out'[f] \in touched'[f] \/ (out'[f] = out[f] /\ out[f] \notin touched[f])
    <3>1. tmp'[f] \in Held(f)' /\ out'[f] \in Held(f)' BY NamesHeldNext
    <3> QED BY <1>2, <3>1 DEF Calm, Typed, TypeOK
  <2>3. TransferWrites' BY <1>1, <2>2, LeftWrites
  <2> QED BY <2>1, <2>3
<1>3. ASSUME Keep(writer, touched), UNCHANGED <<out, tmp>>,
             \A j \in Slots : left'[j] = left[j] \/ left'[j].step # "transfer"
      PROVE WholeInv'
  <2>1. Calm BY <1>3, KeepIsCalm
  <2>2. ASSUME NEW f \in Files
        PROVE /\ tmp[f] \in Inodes => writer'[f][tmp[f]] = writer[f][tmp[f]]
              /\ touched'[f] \subseteq touched[f]
    <3>1. tmp'[f] \in Held(f)' BY NamesHeldNext
    <3>2. touched'[f] \subseteq touched[f] BY <1>3 DEF Keep
    <3> QED BY <1>3, <3>1, <3>2, KeepKeeps
  <2> QED BY <1>2, <1>3, <2>1, <2>2
<1>4. CASE LeftStarts(k)
  <2> DEFINE f == left[k].file
             i == Opened(f)
  <2>1. f \in Files /\ (tmp[f] # NoInode \/ FreeInodes(f) # {})
    BY <1>4, LeftHasFile DEF LeftStarts, OpenPartial
  <2>2. i \in Inodes /\ i # out[f]
    <3>1. i \in Inodes /\ (tmp[f] # NoInode => i = tmp[f]) /\ (tmp[f] = NoInode => i \notin Held(f))
      BY <2>1, OpensInode
    <3>2. out[f] \in Held(f) BY <2>1, NamesHeld
    <3> QED BY <2>1, <3>1, <3>2, ThreadsAssumption DEF PublishedApart
  <2>3. /\ tmp' = [tmp EXCEPT ![f] = i] /\ writer' = [writer EXCEPT ![f][i] = k]
        /\ touched' = [touched EXCEPT ![f] = @ \cup {i}]
        /\ left' = [left EXCEPT ![k] = [@ EXCEPT !.step = "transfer", !.inode = i]]
        /\ UNCHANGED out
    BY <1>4 DEF LeftStarts, OpenPartial, Typed, TypeOK
  <2>4. left'[k] = [left[k] EXCEPT !.step = "transfer", !.inode = i] /\ left[k] \in Leftovers
    <3>1. left[k].step = "download" BY <1>4 DEF LeftStarts
    <3>2. left[k] \in Leftovers BY <3>1 DEF Typed, TypeOK, Gone, Container
    <3> HIDE DEF f, i
    <3> QED BY <2>3, <3>2 DEF Typed, TypeOK
  <2>5. left'[k].file = f /\ left'[k].inode = i BY <2>4 DEF Leftovers
  <2> HIDE DEF f, i
  <2>6. /\ tmp'[f] = i /\ i \in touched'[f] /\ \A g \in Files : touched[g] \subseteq touched'[g]
        /\ \A g \in Files \ {f} : tmp'[g] = tmp[g] /\ touched'[g] = touched[g] /\ writer'[g] = writer[g]
        /\ \A j \in Inodes \ {i} : writer'[f][j] = writer[f][j]
    BY <2>1, <2>2, <2>3 DEF Typed, TypeOK
  <2>7. PublishedApart'
    <3> SUFFICES ASSUME NEW g \in Files, out'[g] # NoInode
                 PROVE (writer'[g][out'[g]] = Nobody \/ out'[g] \in touched'[g]) /\ tmp'[g] # out'[g]
      BY DEF PublishedApart, Whole
    <3>1. out'[g] = out[g] /\ out[g] \in Inodes BY <2>3 DEF Typed, TypeOK
    <3>2. (writer[g][out[g]] = Nobody \/ out[g] \in touched[g]) /\ tmp[g] # out[g]
      BY <3>1 DEF PublishedApart, Whole
    <3> QED BY <3>1, <3>2, <2>2, <2>6
  <2>8. LeftTouched'
    <3> SUFFICES ASSUME NEW j \in Slots, left'[j].step = "transfer"
                 PROVE left'[j].inode \in touched'[left'[j].file]
      BY DEF LeftTouched
    <3>1. CASE j = k BY <3>1, <2>5, <2>6
    <3>2. CASE j # k
      <4>1. left'[j] = left[j] BY <2>3, <3>2 DEF Typed, TypeOK
      <4>2. left[j].file \in Files /\ left[j].inode \in touched[left[j].file]
        BY <4>1, LeftHasFile DEF LeftTouched
      <4> QED BY <4>1, <4>2, <2>6
    <3> QED BY <3>1, <3>2
  <2>9. TransferWrites'
    <3>1. ASSUME NEW g \in Files
          PROVE /\ \/ tmp'[g] = NoInode \/ tmp'[g] \in touched'[g]
                   \/ /\ tmp'[g] = tmp[g] /\ tmp[g] \notin touched[g]
                      /\ writer'[g][tmp[g]] = writer[g][tmp[g]]
                /\ out'[g] \in touched'[g] \/ (out'[g] = out[g] /\ out[g] \notin touched[g])
      BY <2>3, <2>6
    <3> QED BY <1>1, <3>1, LeftWrites
  <2> QED BY <2>7, <2>8, <2>9
<1>5. CASE LeftRetries(k)
  <2> DEFINE f == left[k].file
             i == left[k].inode
  <2>1. f \in Files /\ i \in touched[f]
    BY <1>5, LeftHasFile DEF LeftRetries, LeftTouched
  <2>2. writer' = [writer EXCEPT ![f][i] = k] /\ UNCHANGED <<out, tmp, touched, left>>
    BY <1>5 DEF LeftRetries, Again
  <2> HIDE DEF f, i
  <2>3. \A g \in Files, j \in Inodes : j \in touched[g] \/ writer'[g][j] = writer[g][j]
    BY <2>1, <2>2 DEF Typed, TypeOK
  <2>4. PublishedApart' BY <2>2, <2>3 DEF PublishedApart, Whole, Typed, TypeOK
  <2>5. LeftTouched' BY <2>2 DEF LeftTouched
  <2>6. ASSUME NEW g \in Files
        PROVE /\ \/ tmp'[g] = NoInode \/ tmp'[g] \in touched'[g]
                 \/ /\ tmp'[g] = tmp[g] /\ tmp[g] \notin touched[g]
                    /\ writer'[g][tmp[g]] = writer[g][tmp[g]]
              /\ out'[g] \in touched'[g] \/ (out'[g] = out[g] /\ out[g] \notin touched[g])
    BY <2>2, <2>3 DEF Typed, TypeOK
  <2>7. TransferWrites' BY <1>1, <2>6, LeftWrites
  <2> QED BY <2>4, <2>5, <2>7
<1>6. CASE LeftDone(k)
  <2> DEFINE g == left[k].file
             j == left[k].inode
             W == Completed(g, j, k)
  <2>1. /\ Keep(W, touched) /\ UNCHANGED <<out, tmp>> /\ j \in touched[g]
        /\ left' = [left EXCEPT ![k] =
              IF @.shell THEN [@ EXCEPT !.step = "validate", !.inode = NoInode] ELSE Gone]
    BY <1>6 DEF LeftDone, LeftTouched
  <2>2. \A f \in Files, i \in Inodes : writer[f][i] = Nobody => W[f][i] = Nobody
    BY CompletedKeeps
  <2>3. \A f \in Files, i \in Inodes : i \in touched[f] \/ W[f][i] = writer[f][i]
    BY <2>1, CompletedKeeps
  <2>4. left[k].step = "transfer" /\ left[k] \in Leftovers
    BY <1>6 DEF LeftDone, Typed, TypeOK, Gone, Container
  <2>5. left'[k].step # "transfer" /\ \A h \in Slots \ {k} : left'[h] = left[h]
    BY <2>1, <2>4 DEF Leftovers, Gone, Typed, TypeOK
  <2> HIDE DEF g, j, W
  <2>6. Calm BY <2>1, <2>2, KeepIsCalm
  <2>7. ASSUME NEW f \in Files
        PROVE /\ tmp[f] \in Inodes => tmp[f] \in touched[f] \/ writer'[f][tmp[f]] = writer[f][tmp[f]]
              /\ touched'[f] \subseteq touched[f]
    <3>1. tmp'[f] \in Held(f)' BY NamesHeldNext
    <3>2. touched'[f] \subseteq touched[f] BY <2>1 DEF Keep
    <3>3. tmp[f] \in Inodes => writer'[f][tmp[f]] = W[f][tmp[f]] BY <2>1, <3>1, KeepKeeps
    <3> QED BY <2>3, <3>2, <3>3
  <2> QED BY <1>2, <2>1, <2>5, <2>6, <2>7
<1>7. CASE LeftValidates(k)
  <2>1. /\ UNCHANGED <<out, tmp, writer, touched>>
        /\ \A j \in Slots : left'[j] = left[j] \/ left'[j].step # "transfer"
    <3>1. left[k] \in Leftovers
      <4>1. left[k] \in Leftovers \cup {Gone, Container}
        BY DEF Typed, TypeOK
      <4>2. left[k].step = "validate"
        BY <1>7 DEF LeftValidates
      <4>3. Gone.step = "gone" /\ Container.step = "ingest"
        BY DEF Gone, Container
      <4> QED BY <4>1, <4>2, <4>3
    <3>2. left' = [left EXCEPT ![k] = [@ EXCEPT !.step = "move"]]
      BY <1>7 DEF LeftValidates, Typed, TypeOK
    <3>3. UNCHANGED <<out, tmp, writer, touched>>
      BY <1>7 DEF LeftValidates, disk
    <3>4. left'[k].step = "move"
      BY <3>1, <3>2 DEF Leftovers, Typed, TypeOK
    <3>5. \A j \in Slots : j # k => left'[j] = left[j]
      BY <3>2 DEF Typed, TypeOK
    <3> QED BY <3>3, <3>4, <3>5
  <2>2. Calm BY <2>1 DEF Calm
  <2> QED BY <1>2, <2>1, <2>2
<1>8. CASE LeftMoves(k)
  <2> SUFFICES ASSUME NEW f \in Files, f = left[k].file PROVE WholeInv'
    BY <1>8, LeftHasFile DEF LeftMoves
  <2> DEFINE T == [touched EXCEPT ![f] = @ \cup {tmp[f]}]
  <2>1. /\ out' = [out EXCEPT ![f] = tmp[f]] /\ tmp' = [tmp EXCEPT ![f] = NoInode]
        /\ left' = [left EXCEPT ![k] = Gone] /\ Keep(writer, T) /\ tmp[f] \in Inodes
    BY <1>8 DEF LeftMoves, Typed, TypeOK
  <2>2. /\ out'[f] = tmp[f] /\ tmp'[f] = NoInode
        /\ \A g \in Files \ {f} : out'[g] = out[g] /\ tmp'[g] = tmp[g] /\ T[g] = touched[g]
        /\ tmp[f] \in T[f] /\ \A g \in Files : touched[g] \subseteq T[g]
    BY <2>1 DEF Typed, TypeOK
  <2> HIDE DEF T
  <2>3. \A g \in Files : /\ T[g] \cap Held(g)' \subseteq touched'[g] /\ touched'[g] \subseteq T[g]
                         /\ \A i \in Inodes : i \in Held(g)' => writer'[g][i] = writer[g][i]
    BY <2>1 DEF Keep
  <2>4. \A g \in Files : out'[g] \in Held(g)' /\ tmp'[g] \in Held(g)' BY NamesHeldNext
  <2>5. PublishedApart'
    <3> SUFFICES ASSUME NEW g \in Files, out'[g] # NoInode
                 PROVE (writer'[g][out'[g]] = Nobody \/ out'[g] \in touched'[g]) /\ tmp'[g] # out'[g]
      BY DEF PublishedApart, Whole
    <3>1. CASE g = f BY <3>1, <2>1, <2>2, <2>3, <2>4
    <3>2. CASE g # f
      <4>1. out'[g] = out[g] /\ out[g] \in Inodes /\ tmp'[g] = tmp[g]
        BY <3>2, <2>2 DEF Typed, TypeOK
      <4>2. (writer[g][out[g]] = Nobody \/ out[g] \in touched[g]) /\ tmp[g] # out[g]
        BY <4>1 DEF PublishedApart, Whole
      <4> QED BY <4>1, <4>2, <2>2, <2>3, <2>4
    <3> QED BY <3>1, <3>2
  <2>6. LeftTouched'
    <3> SUFFICES ASSUME NEW j \in Slots, left'[j].step = "transfer"
                 PROVE left'[j].inode \in touched'[left'[j].file]
      BY DEF LeftTouched
    <3>1. left'[j] = left[j] BY <2>1 DEF Gone, Typed, TypeOK
    <3>2. left[j].file \in Files /\ left[j].inode \in touched[left[j].file]
      BY <3>1, LeftHasFile DEF LeftTouched
    <3>3. left'[j].inode \in Held(left[j].file)' BY <3>1, <3>2, NamesHeldNext
    <3> QED BY <3>1, <3>2, <3>3, <2>2, <2>3
  <2>7. ASSUME NEW g \in Files
        PROVE /\ \/ tmp'[g] = NoInode \/ tmp'[g] \in touched'[g]
                 \/ /\ tmp'[g] = tmp[g] /\ tmp[g] \notin touched[g]
                    /\ writer'[g][tmp[g]] = writer[g][tmp[g]]
              /\ out'[g] \in touched'[g] \/ (out'[g] = out[g] /\ out[g] \notin touched[g])
    <3>1. CASE g = f BY <3>1, <2>1, <2>2, <2>3, <2>4
    <3>2. CASE g # f BY <3>2, <2>2, <2>3, <2>4 DEF Typed, TypeOK
    <3> QED BY <3>1, <3>2
  <2>8. TransferWrites' BY <1>1, <2>7, LeftWrites
  <2> QED BY <2>5, <2>6, <2>8
<1>9. CASE LeftEnds(k)
  <2>1. \A j \in Slots : left'[j] = left[j] \/ left'[j].step # "transfer"
    BY <1>9 DEF LeftEnds, Gone, Typed, TypeOK
  <2> QED BY <1>3, <1>9, <2>1 DEF LeftEnds
<1> QED BY <1>4, <1>5, <1>6, <1>7, <1>8, <1>9 DEF LeftStep

\* Every step keeps published and partial months apart.
LEMMA WholeStep ==
    Typed /\ OneBusyWhenTriggered /\ WholeWhenTriggered /\ [Next]_vars => WholeWhenTriggered'
<1> SUFFICES ASSUME Typed, OneBusyWhenTriggered, WholeWhenTriggered, [Next]_vars, TriggeredOnly'
             PROVE WholeInv'
  BY DEF WholeWhenTriggered
<1>1. UNCHANGED setting BY SettingStays
<1>2. TriggeredOnly /\ OneBusy /\ PublishedApart /\ TransferWrites /\ LeftTouched
  BY <1>1 DEF TriggeredOnly, OneBusyWhenTriggered, WholeWhenTriggered, WholeInv
<1> USE DEF WholeInv
<1>3. ASSUME NEW t \in Workers, TriggerBatch(t) PROVE WholeInv'
  BY <1>2, <1>3 DEF TriggerBatch, Goto, disk, script, PublishedApart, TransferWrites, LeftTouched,
                    Whole, FileOf, Typed, TypeOK, Threads
<1>4. ASSUME NEW p \in Procs, StartScheduler(p) \/ SchedulerFires(p) PROVE FALSE
  BY <1>2, <1>4, ThreadsAssumption
     DEF StartScheduler, SchedulerFires, OneBusy, TriggeredOnly
<1>5. ASSUME NEW t \in Threads, TransferDone(t) PROVE WholeInv'
  <2> DEFINE W == Completed(FileOf(t), fd[t], t)
  <2>1. /\ Busy(t) /\ Goto(t, "validate") /\ Keep(W, touched)
        /\ UNCHANGED <<setting, out, tmp, li, mi, left>>
    BY <1>5 DEF TransferDone, Busy
  <2>2. t \in Workers BY <1>2, <2>1 DEF OneBusy, Busy, Threads
  <2>3. Calm
    <3>1. \A f \in Files, i \in Inodes : writer[f][i] = Nobody => W[f][i] = Nobody
      BY CompletedKeeps
    <3> HIDE DEF W
    <3> QED BY <2>1, <3>1, KeepIsCalm
  <2>4. PublishedApart' /\ LeftTouched' BY <1>2, <2>1, <2>3, CalmApart, CalmLeft
  <2>5. ASSUME NEW s \in Workers, pc'[s] \in {"transfer", "validate", "move"}
        PROVE s = t /\ pc'[s] = "validate" /\ FileOf(s)' = FileOf(t)
    <3>1. s = t BY <1>2, <2>1, <2>5, TransferStep DEF Steps, Batch
    <3> QED BY <3>1, <2>1 DEF FileOf, Goto, Typed, TypeOK
  <2> SUFFICES ASSUME NEW f \in Files, f = FileOf(t), tmp[f] # NoInode
               PROVE tmp[f] \in touched'[f] \/ writer'[f][tmp[f]] = Nobody
    <3>1. FileOf(t) \in Files BY FileIsFile
    <3> QED BY <2>1, <2>4, <2>5, <3>1 DEF TransferWrites
  <2>6. tmp[f] \in touched[f] \/ (tmp[f] = fd[t] /\ writer[f][fd[t]] = t)
    BY <1>2, <1>5, <2>2 DEF TransferDone, TransferWrites
  <2>7. tmp[f] \in Inodes /\ tmp[f] \in Held(f)' BY <2>1, NamesHeldNext DEF Typed, TypeOK
  <2>8. CASE tmp[f] \in touched[f] BY <2>3, <2>7, <2>8 DEF Calm
  <2>9. CASE tmp[f] = fd[t] /\ writer[f][fd[t]] = t
    <3>1. W[f][tmp[f]] = Nobody BY <2>7, <2>9, CompletedKeeps
    <3> HIDE DEF W
    <3> QED BY <2>1, <2>7, <3>1, KeepKeeps
  <2> QED BY <2>6, <2>8, <2>9
<1>6. ASSUME NEW t \in Threads, TransferRetries(t) PROVE WholeInv'
  <2> DEFINE f == FileOf(t)
  <2>1. /\ Busy(t) /\ writer' = [writer EXCEPT ![f][fd[t]] = t] /\ pc[t] = "transfer"
        /\ UNCHANGED <<setting, pc, out, tmp, touched, li, mi, fd, left>>
    BY <1>6 DEF TransferRetries, Again, script, Busy
  <2>2. t \in Workers BY <1>2, <2>1 DEF OneBusy, Busy, Threads
  <2>3. f \in Files /\ fd[t] \in Inodes BY <2>1, FileIsFile DEF Typed, TypeOK
  <2>4. /\ tmp[f] = NoInode \/ tmp[f] \in touched[f] \/ (tmp[f] = fd[t] /\ writer[f][fd[t]] = t)
        /\ out[f] = fd[t] => out[f] \in touched[f]
    BY <1>2, <2>1, <2>2 DEF TransferWrites
  <2>5. ASSUME NEW s \in Workers, pc'[s] \in {"transfer", "validate", "move"}
        PROVE s = t /\ pc'[s] = "transfer" /\ FileOf(s)' = FileOf(t)
    BY <1>2, <2>1, <2>2, <2>5 DEF OneBusy, Busy, FileOf
  <2> HIDE DEF f
  <2>6. writer'[f][fd[t]] = t /\ \A g \in Files, i \in Inodes : g # f \/ i # fd[t] => writer'[g][i] = writer[g][i]
    BY <2>1, <2>3 DEF Typed, TypeOK
  <2>7. PublishedApart'
    BY <1>2, <2>1, <2>3, <2>4, <2>6 DEF PublishedApart, Whole, Typed, TypeOK
  <2>8. TransferWrites' BY <2>1, <2>4, <2>5, <2>6 DEF TransferWrites, f
  <2>9. LeftTouched' BY <1>2, <2>1 DEF LeftTouched
  <2> QED BY <2>7, <2>8, <2>9
<1>7. ASSUME NEW t \in Threads, ScriptTimesOut(t) \/ IngestTimesOut(t) PROVE WholeInv'
  <2>1. /\ Busy(t) /\ Goto(t, "raise") /\ UNCHANGED <<setting, out, tmp>>
        /\ \/ \E k \in setting.slots : Leave(t, k, FALSE)
           \/ UNCHANGED <<left, writer, touched>>
    BY <1>7 DEF ScriptTimesOut, IngestTimesOut, Busy
  <2>2. Calm /\ LeftTouched'
    <3>1. ASSUME NEW k \in setting.slots, Leave(t, k, FALSE) PROVE Calm /\ LeftTouched'
      <4>1. k \in Slots BY ThreadsAssumption DEF Typed
      <4> QED BY <1>2, <2>1, <3>1, <4>1, LeaveCalm
    <3>2. CASE UNCHANGED <<left, writer, touched>>
      BY <1>2, <2>1, <3>2 DEF Calm, LeftTouched
    <3> QED BY <2>1, <3>1, <3>2
  <2>3. PublishedApart' BY <1>2, <2>2, CalmApart
  <2>4. TransferWrites' BY <1>2, <2>1, TransferStep DEF TransferWrites, Steps, Batch
  <2> QED BY <2>2, <2>3, <2>4
<1>8. ASSUME NEW t \in Threads, TransferFails(t) \/ ValidateFails(t) PROVE WholeInv'
  <2>1. /\ Busy(t) /\ Goto(t, "next") /\ UNCHANGED <<setting, out, li, mi, left>>
        /\ tmp' = [tmp EXCEPT ![FileOf(t)] = NoInode] /\ Keep(writer, touched)
    BY <1>8 DEF TransferFails, ValidateFails, Busy
  <2>2. Calm
    <3>1. \A f \in Files : tmp'[f] \in {tmp[f], NoInode} BY <2>1 DEF Typed, TypeOK
    <3> QED BY <2>1, <3>1, KeepIsCalm
  <2>3. PublishedApart' /\ LeftTouched' BY <1>2, <2>1, <2>2, CalmApart, CalmLeft
  <2>4. TransferWrites' BY <1>2, <2>1, TransferStep DEF TransferWrites, Steps, Batch
  <2> QED BY <2>3, <2>4
<1>9. ASSUME NEW t \in Threads, Validate(t) PROVE WholeInv'
  <2>1. Busy(t) /\ Goto(t, "move") /\ UNCHANGED <<setting, out, tmp, writer, touched, li, mi, fd, left>>
    BY <1>9 DEF Validate, Busy, disk, script
  <2>2. t \in Workers BY <1>2, <2>1 DEF OneBusy, Busy, Threads
  <2>3. PublishedApart' /\ LeftTouched' BY <1>2, <2>1 DEF PublishedApart, LeftTouched, Whole
  <2>4. ASSUME NEW s \in Workers, pc'[s] \in {"transfer", "validate", "move"}
        PROVE s = t /\ pc'[s] = "move" /\ FileOf(s)' = FileOf(t)
    <3>1. s = t BY <1>2, <2>1, <2>4, TransferStep DEF Steps, Batch
    <3> QED BY <3>1, <2>1 DEF FileOf, Goto, Typed, TypeOK
  <2>5. TransferWrites' BY <1>2, <1>9, <2>1, <2>2, <2>4 DEF TransferWrites, Validate
  <2> QED BY <2>3, <2>5
<1>10. ASSUME NEW t \in Threads, Move(t) PROVE WholeInv'
  <2> SUFFICES ASSUME NEW f \in Files, f = FileOf(t) PROVE WholeInv'
    BY FileIsFile
  <2>1. /\ Busy(t) /\ Goto(t, "next") /\ UNCHANGED <<setting, li, mi, left>>
        /\ out' = [out EXCEPT ![f] = tmp[f]] /\ tmp[f] \in Inodes
        /\ tmp' = [tmp EXCEPT ![f] = NoInode] /\ Keep(writer, touched)
    BY <1>10 DEF Move, Busy, script, Typed, TypeOK
  <2>2. tmp[f] \in touched[f] \/ writer[f][tmp[f]] = Nobody
    BY <1>2, <1>10, <2>1, ThreadsAssumption DEF OneBusy, Busy, Threads, Move, TransferWrites
  <2>3. \A g \in Files : /\ touched[g] \cap Held(g)' \subseteq touched'[g]
                         /\ \A i \in Inodes : writer[g][i] = Nobody => writer'[g][i] = Nobody
                         /\ out'[g] \in Held(g)'
    BY <2>1, KeepKeeps, NamesHeldNext
  <2>4. PublishedApart'
    <3> SUFFICES ASSUME NEW g \in Files, out'[g] # NoInode
                 PROVE (writer'[g][out'[g]] = Nobody \/ out'[g] \in touched'[g]) /\ tmp'[g] # out'[g]
      BY DEF PublishedApart, Whole
    <3>1. CASE g = f
      <4>1. out'[f] = tmp[f] /\ tmp'[f] = NoInode BY <2>1 DEF Typed, TypeOK
      <4> QED BY <3>1, <4>1, <2>1, <2>2, <2>3
    <3>2. CASE g # f
      <4>1. out'[g] = out[g] /\ out[g] \in Inodes /\ tmp'[g] = tmp[g]
        BY <3>2, <2>1 DEF Typed, TypeOK
      <4> QED BY <1>2, <4>1, <2>3 DEF PublishedApart, Whole
    <3> QED BY <3>1, <3>2
  <2>5. LeftTouched'
    <3> SUFFICES ASSUME NEW j \in Slots, left[j].step = "transfer"
                 PROVE left[j].inode \in touched'[left[j].file]
      BY <2>1 DEF LeftTouched
    <3>1. left[j].file \in Files /\ left[j].inode \in touched[left[j].file]
      BY <1>2, LeftHasFile DEF LeftTouched
    <3>2. left'[j].inode \in Held(left[j].file)' BY <2>1, <3>1, NamesHeldNext
    <3> QED BY <2>1, <2>3, <3>1, <3>2
  <2>6. TransferWrites' BY <1>2, <2>1, TransferStep DEF TransferWrites, Steps, Batch
  <2> QED BY <2>4, <2>5, <2>6
<1>11. ASSUME NEW t \in Threads,
              \/ RunBatch(t) \/ MoveFails(t) \/ NextMonth(t) \/ ListFailed(t) \/ NextList(t)
              \/ Ingest(t) \/ BatchDone(t) \/ BatchFailed(t)
       PROVE WholeInv'
  <2>1. Busy(t) /\ UNCHANGED <<out, tmp, writer, touched, left>>
    BY <1>11 DEF RunBatch, MoveFails, NextMonth, ListFailed, NextList, Ingest, BatchDone,
                 BatchFailed, Finish, Busy, disk
  <2>2. PICK q \in Steps \ {"transfer", "validate", "move"} : Goto(t, q)
    BY <1>11 DEF RunBatch, MoveFails, NextMonth, ListFailed, NextList, Ingest, BatchDone,
                 BatchFailed, Finish, Steps, Batch
  <2>3. PublishedApart' /\ LeftTouched' BY <1>2, <2>1 DEF PublishedApart, LeftTouched, Whole
  <2>4. TransferWrites' BY <1>2, <2>1, <2>2, TransferStep DEF TransferWrites
  <2> QED BY <2>3, <2>4
<1>12. CASE Restart
  <2>1. UNCHANGED <<out, tmp>> /\ \A t \in Threads : pc'[t] = "off" BY <1>12 DEF Restart
  <2>2. Calm /\ LeftTouched'
    <3>1. ASSUME NEW t \in Threads, NEW k \in setting.slots, Leave(t, k, TRUE)
          PROVE Calm /\ LeftTouched'
      <4>1. k \in Slots BY ThreadsAssumption DEF Typed
      <4> QED BY <1>2, <2>1, <3>1, <4>1, LeaveCalm
    <3>2. CASE UNCHANGED left /\ Keep(writer, touched)
      <4>1. Calm BY <2>1, <3>2, KeepIsCalm
      <4> QED BY <1>2, <3>2, <4>1, CalmLeft
    <3> QED BY <1>12, <3>1, <3>2 DEF Restart
  <2>3. PublishedApart' BY <1>2, <2>2, CalmApart
  <2>4. TransferWrites' BY <2>1 DEF TransferWrites, Threads
  <2> QED BY <2>2, <2>3, <2>4
<1>13. CASE UNCHANGED vars
  BY <1>2, <1>13 DEF vars, PublishedApart, TransferWrites, LeftTouched, Whole, FileOf
<1>14. ASSUME NEW t \in Threads, TransferStart(t) PROVE WholeInv'
  BY <1>2, <1>14, StartsApart
<1>15. ASSUME NEW k \in Slots, LeftStep(k) PROVE WholeInv'
  BY <1>2, <1>15, LeftWhole
<1> QED BY <1>3, <1>4, <1>5, <1>6, <1>7, <1>8, <1>9, <1>10, <1>11, <1>12, <1>13, <1>14, <1>15
        DEF Next, StartByTrigger, StartByHour, Step

\* When only the button starts batches, a published month is a whole month, whatever
\* transfers fail or are started again, whatever the time limits and restarts cut off, but
\* for a month that a curl or a bash they left behind has written or published: the next
\* transfer truncates the .partial file, never the published one, and only a transfer
\* that ended is moved.
THEOREM PublishesWholeMonths == Spec => []TriggeredWhole
<1>1. Init => WholeWhenTriggered
  BY DEF Init, WholeWhenTriggered, WholeInv, PublishedApart, TransferWrites, LeftTouched, Gone, Threads
<1>2. WholeWhenTriggered => TriggeredWhole
  BY DEF WholeWhenTriggered, WholeInv, PublishedApart, TriggeredWhole
<1> QED BY TypedInit, TypedNext, OneBusyInit, OneBusyStep, WholeStep, <1>1, <1>2, PTL DEF Spec
=============================================================================
