------------------------------ MODULE McpBatch ------------------------------
(***************************************************************************)
(* The daily mailing-list batch (lib/mcp_status.py, app.py) and the        *)
(* download script it runs (mcp/scripts/download_mbox.sh).                 *)
(*                                                                         *)
(* Every dashboard process has its own batch state and its own scheduler   *)
(* thread; the process that serves HTTP also gets threads from             *)
(* trigger_batch_async.  All of them write the same mbox directory: the    *)
(* ".partial" file of a month, a transfer into it, its validation, and the *)
(* mv that publishes it.  A transfer goes to the inode it opened, whatever *)
(* name that inode has by then; transfers of a month write the same bytes  *)
(* at the same places.                                                     *)
(*                                                                         *)
(* A time limit kills bash or the compose command, and nothing they        *)
(* started: curl and the ingester's container go on.  A dashboard that is  *)
(* killed leaves its bash behind as well, until that writes to the pipe    *)
(* nobody reads.                                                           *)
(***************************************************************************)
EXTENDS Integers, Sequences, FiniteSets

CONSTANTS
    Procs,          \* processes that run app.py (the reloader's parent is one)
    Serving,        \* the one that answers HTTP requests
    Schedulers,     \* Schedulers[p]: p's scheduler thread
    Workers,        \* threads trigger_batch_async may have started at a time
    Settings,       \* what is considered together: see setting
    Lists, Months,  \* mailing lists and months there are to download
    Slots,          \* processes that may be left behind at a time (a bound)
    Inodes,         \* inode numbers, per month: no inode ever serves two months
    NoInode, Nobody

ASSUME ThreadsAssumption ==
    /\ Serving \in Procs /\ Schedulers \in [Procs -> {Schedulers[p] : p \in Procs}]
    /\ \A p, q \in Procs : Schedulers[p] = Schedulers[q] => p = q
    /\ \A p \in Procs : Schedulers[p] \notin Workers \cup Slots
    /\ Workers \cap Slots = {}
    /\ NoInode \notin Inodes /\ Nobody \notin Workers \cup {Schedulers[p] : p \in Procs}
    /\ \A s \in Settings :
          /\ s.awake \subseteq Workers \cup {Schedulers[p] : p \in Procs}
          /\ s.slots \subseteq Slots
          /\ s.months \in Seq(Months) /\ Len(s.months) > 0
          /\ s.lists \in Seq(Lists) /\ Len(s.lists) > 0

Threads == Workers \cup {Schedulers[p] : p \in Procs}
HomeOf(t) == IF t \in Workers THEN Serving ELSE CHOOSE p \in Procs : Schedulers[p] = t
Files == Lists \X Months

VARIABLES
    setting,    \* the threads that are ever started, MCP_LISTS, the months a run
                \* downloads, and the slots there are for what is left behind
    status,     \* _batch_state["status"] of each process
    pc,         \* what each batch thread does next
    li, mi,     \* list and month each thread is at
    failed,     \* the script's "failed" flag
    out, tmp,   \* inode of each published month, and of its .partial
    writer,     \* writer[f][i]: the last transfer that truncated inode i of month f,
                \* Nobody when that transfer has written the whole month
    fd,         \* inode each thread's curl has open
    left,       \* what runs on after its batch thread went on or died
    touched     \* history: the inodes of a month that something left behind has had
                \* open, or has published

vars == <<setting, status, pc, li, mi, failed, out, tmp, writer, fd, left, touched>>
disk == <<out, tmp, writer, touched>>
script == <<li, mi, failed, fd>>

Batch == {"download", "transfer", "validate", "move", "next", "ingest", "raise", "end"}
Steps == {"off", "waiting", "called"} \cup Batch

\* The curls that may be writing, and what may be left behind: a transfer, with or without
\* its bash, or an ingester's container.
Writers == Threads \cup Slots
NoFile == <<>>
Gone == [step |-> "gone", shell |-> FALSE, file |-> NoFile, inode |-> NoInode]
Container == [Gone EXCEPT !.step = "ingest"]
Leftovers == [step : {"download", "transfer", "validate", "move"}, shell : BOOLEAN,
              file : Files, inode : Inodes \cup {NoInode}]

Init ==
    /\ setting \in Settings
    /\ status = [p \in Procs |-> "idle"]
    /\ pc = [t \in Threads |-> "off"]
    /\ li = [t \in Threads |-> 1]
    /\ mi = [t \in Threads |-> 1]
    /\ failed = [t \in Threads |-> FALSE]
    /\ out = [f \in Files |-> NoInode]
    /\ tmp = [f \in Files |-> NoInode]
    /\ writer = [f \in Files |-> [i \in Inodes |-> Nobody]]
    /\ fd = [t \in Threads |-> NoInode]
    /\ left = [k \in Slots |-> Gone]
    /\ touched = [f \in Files |-> {}]

Goto(t, s) == pc' = [pc EXCEPT ![t] = s]
FileOf(t) == <<setting.lists[li[t]], setting.months[mi[t]]>>
Whole(f) == writer[f][out[f]] = Nobody

\* The inodes of month f that have a name or are open; nothing is known of the others.
LeftOpen(f) == {left[k].inode : k \in {j \in Slots : left[j].file = f}}
Held(f) == {out[f], tmp[f]} \cup {fd[t] : t \in {u \in Threads : FileOf(u) = f}} \cup LeftOpen(f)
FreeInodes(f) == Inodes \ Held(f)
Keep(W, T) ==
    /\ writer' = [f \in Files |-> [i \in Inodes |-> IF i \in Held(f)' THEN W[f][i] ELSE Nobody]]
    /\ touched' = [f \in Files |-> T[f] \cap Held(f)']

-----------------------------------------------------------------------------
(* Starting batches *)

\* app.py: "if not app.debug or WERKZEUG_RUN_MAIN".  app.debug becomes true in
\* app.run(debug=True), which comes later, so the test holds in every process.
AppDebug == FALSE
StartScheduler(p) ==
    /\ Schedulers[p] \in setting.awake
    /\ ~AppDebug \/ p = Serving
    /\ pc[Schedulers[p]] = "off"
    /\ Goto(Schedulers[p], "waiting")
    /\ UNCHANGED <<setting, left, status, disk, script>>

\* _scheduler_loop: the hour has come; run_batch is called whatever the status is
SchedulerFires(p) ==
    /\ pc[Schedulers[p]] = "waiting"
    /\ Goto(Schedulers[p], "called")
    /\ UNCHANGED <<setting, left, status, disk, script>>

\* Mutant: the status is not looked at.
TriggerAnyway(t) ==
    /\ pc[t] = "off"
    /\ status' = [status EXCEPT ![Serving] = "running"]
    /\ Goto(t, "called")
    /\ UNCHANGED <<setting, left, disk, script>>

\* trigger_batch_async returning True (when the status is "running" it returns
\* False and changes nothing)
TriggerBatch(t) ==
    /\ pc[t] = "off"
    /\ status[Serving] # "running"
    /\ status' = [status EXCEPT ![Serving] = "running"]
    /\ Goto(t, "called")
    /\ UNCHANGED <<setting, left, disk, script>>

RunBatch(t) ==
    /\ pc[t] = "called"
    /\ status' = [status EXCEPT ![HomeOf(t)] = "running"]
    /\ Goto(t, "download")
    /\ UNCHANGED <<setting, left, disk, script>>

-----------------------------------------------------------------------------
(* download_mbox.sh for one month; the months a batch asks for are never skipped *)

\* The inode that curl -o "$tmp" opens: what is there, or a new one.
Opened(f) == IF tmp[f] # NoInode THEN tmp[f] ELSE CHOOSE j \in FreeInodes(f) : TRUE

\* curl's first byte: w truncates what is there, or makes a new file.
OpenPartial(f, w) ==
    /\ tmp[f] # NoInode \/ FreeInodes(f) # {}
    /\ tmp' = [tmp EXCEPT ![f] = Opened(f)]
    /\ writer' = [writer EXCEPT ![f][Opened(f)] = w]

\* w's transfer into inode i of month f has ended; w starts it again (--retry), from an
\* empty file.
Completed(f, i, w) ==
    IF writer[f][i] = w THEN [writer EXCEPT ![f][i] = Nobody] ELSE writer
Again(f, i, w) == writer' = [writer EXCEPT ![f][i] = w]

TransferStart(t) ==
    /\ pc[t] = "download"
    /\ OpenPartial(FileOf(t), t)
    /\ touched' = [touched EXCEPT ![FileOf(t)] =
          IF Opened(FileOf(t)) \in LeftOpen(FileOf(t)) THEN @ ELSE @ \ {Opened(FileOf(t))}]
    /\ fd' = [fd EXCEPT ![t] = Opened(FileOf(t))]
    /\ Goto(t, "transfer")
    /\ UNCHANGED <<setting, status, out, li, mi, failed, left>>

TransferRetries(t) ==
    /\ pc[t] = "transfer"
    /\ Again(FileOf(t), fd[t], t)
    /\ UNCHANGED <<setting, status, pc, out, tmp, touched, script, left>>

TransferDone(t) ==
    /\ pc[t] = "transfer"
    /\ fd' = [fd EXCEPT ![t] = NoInode]
    /\ Goto(t, "validate")
    /\ UNCHANGED <<setting, status, out, tmp, li, mi, failed, left>>
    /\ Keep(Completed(FileOf(t), fd[t], t), touched)

\* Mutant: curl's exit status is ignored.
TransferFailsUnseen(t) ==
    /\ pc[t] \in {"download", "transfer"}
    /\ fd' = [fd EXCEPT ![t] = NoInode]
    /\ Goto(t, "validate")
    /\ UNCHANGED <<setting, left, status, disk, li, mi, failed>>

\* curl gives up after its retries, before its first byte or later: rm -f "$tmp"; failed=1
TransferFails(t) ==
    /\ pc[t] \in {"download", "transfer"}
    /\ fd' = [fd EXCEPT ![t] = NoInode]
    /\ tmp' = [tmp EXCEPT ![FileOf(t)] = NoInode]
    /\ failed' = [failed EXCEPT ![t] = TRUE]
    /\ Goto(t, "next")
    /\ UNCHANGED <<setting, status, out, li, mi, left>>
    /\ Keep(writer, touched)

\* The script or the ingester of t is left behind, and its transfer is t's no more.
Leave(t, k, shell) ==
    LET f == FileOf(t) IN
    /\ left[k] = Gone
    /\ left' = [left EXCEPT ![k] =
          IF pc[t] = "ingest" THEN Container
          ELSE [step |-> pc[t], shell |-> shell, file |-> f, inode |-> fd[t]]]
    /\ IF pc[t] = "transfer"
       THEN Keep(IF writer[f][fd[t]] = t THEN [writer EXCEPT ![f][fd[t]] = k] ELSE writer,
                 [touched EXCEPT ![f] = @ \cup {fd[t]}])
       ELSE UNCHANGED <<writer, touched>>

\* The 600 s limit: bash is killed, curl goes on, and nothing is cleaned up.
ScriptTimesOut(t) ==
    /\ fd' = [fd EXCEPT ![t] = NoInode]
    /\ Goto(t, "raise")
    /\ UNCHANGED <<setting, status, out, tmp, li, mi, failed>>
    /\ \/ pc[t] \in {"download", "transfer"} /\ \E k \in setting.slots : Leave(t, k, FALSE)
       \/ pc[t] \in {"validate", "move", "next"} /\ UNCHANGED <<left, writer, touched>>

\* [[ -s "$tmp" ]] && head -n 1 | grep '^From ': half a month may pass as well
Validate(t) ==
    /\ pc[t] = "validate"
    /\ tmp[FileOf(t)] # NoInode
    /\ Goto(t, "move")
    /\ UNCHANGED <<setting, left, status, disk, script>>

\* not an mbox (an error page, a hole at the start), or no file at all
ValidateFails(t) ==
    /\ pc[t] = "validate"
    /\ tmp' = [tmp EXCEPT ![FileOf(t)] = NoInode]
    /\ failed' = [failed EXCEPT ![t] = TRUE]
    /\ Goto(t, "next")
    /\ UNCHANGED <<setting, left, status, out, li, mi, fd>>
    /\ Keep(writer, touched)

\* mv -f "$tmp" "$outpath"
Move(t) ==
    /\ pc[t] = "move"
    /\ tmp[FileOf(t)] # NoInode
    /\ out' = [out EXCEPT ![FileOf(t)] = tmp[FileOf(t)]]
    /\ tmp' = [tmp EXCEPT ![FileOf(t)] = NoInode]
    /\ Goto(t, "next")
    /\ UNCHANGED <<setting, left, status, script>>
    /\ Keep(writer, touched)

\* The loop's mv fails under set -e: the script ends at once
MoveFails(t) ==
    /\ pc[t] = "move"
    /\ tmp[FileOf(t)] = NoInode
    /\ Goto(t, "raise")
    /\ UNCHANGED <<setting, left, status, disk, script>>

\* The loop over months; after the last one a failed month ends the batch
\* (_run_download raises), otherwise run_batch goes on with the next list.
NextMonthPastEnd(t) ==   \* mutant: one month too many
    /\ pc[t] = "next"
    /\ mi[t] <= Len(setting.months)
    /\ mi' = [mi EXCEPT ![t] = mi[t] + 1]
    /\ Goto(t, "download")
    /\ UNCHANGED <<setting, left, status, disk, li, failed, fd>>

NextMonth(t) ==
    /\ pc[t] = "next"
    /\ mi[t] < Len(setting.months)
    /\ mi' = [mi EXCEPT ![t] = mi[t] + 1]
    /\ Goto(t, "download")
    /\ UNCHANGED <<setting, left, status, disk, li, failed, fd>>

ListFailed(t) ==
    /\ pc[t] = "next"
    /\ mi[t] = Len(setting.months) /\ failed[t]
    /\ Goto(t, "raise")
    /\ UNCHANGED <<setting, left, status, disk, script>>

NextList(t) ==
    /\ pc[t] = "next"
    /\ mi[t] = Len(setting.months) /\ ~failed[t]
    /\ IF li[t] < Len(setting.lists)
       THEN /\ li' = [li EXCEPT ![t] = li[t] + 1]
            /\ mi' = [mi EXCEPT ![t] = 1]
            /\ Goto(t, "download")
       ELSE /\ Goto(t, "ingest")
            /\ UNCHANGED <<li, mi>>
    /\ UNCHANGED <<setting, left, status, disk, failed, fd>>

-----------------------------------------------------------------------------
\* docker compose run --rm ingester: it succeeds or fails ...
Ingest(t) ==
    /\ pc[t] = "ingest"
    /\ \/ Goto(t, "end")
       \/ Goto(t, "raise")
    /\ UNCHANGED <<setting, left, status, disk, script>>

\* ... or the 1800 s limit kills the command, not the container it waits for.
IngestTimesOut(t) ==
    /\ pc[t] = "ingest"
    /\ Goto(t, "raise")
    /\ UNCHANGED <<setting, status, out, tmp, script>>
    /\ \E k \in setting.slots : Leave(t, k, FALSE)

\* The end of run_batch; the thread ends, the scheduler waits for the next day.
Finish(t) ==
    /\ status' = [status EXCEPT ![HomeOf(t)] = "idle"]
    /\ Goto(t, IF t \in Workers THEN "off" ELSE "waiting")
    /\ li' = [li EXCEPT ![t] = 1]
    /\ mi' = [mi EXCEPT ![t] = 1]
    /\ failed' = [failed EXCEPT ![t] = FALSE]
    /\ UNCHANGED <<setting, left, disk, fd>>

BatchDone(t) == pc[t] = "end" /\ Finish(t)

\* Mutant: only a successful batch resets the status.
BatchFailedStaysRunning(t) ==
    /\ pc[t] = "raise"
    /\ Goto(t, IF t \in Workers THEN "off" ELSE "waiting")
    /\ UNCHANGED <<setting, left, status, disk, script>>

\* except Exception: status idle, error set
BatchFailed(t) == pc[t] = "raise" /\ Finish(t)

\* The dashboard is restarted: its threads die, and the disk stays.  What ran for a thread
\* dies as well (Ctrl-C reaches all of it) or is left behind (the reloader's exit reaches
\* none of it); of several, one at most (a bound).
Restart ==
    /\ status' = [p \in Procs |-> "idle"]
    /\ pc' = [t \in Threads |-> "off"]
    /\ li' = [t \in Threads |-> 1]
    /\ mi' = [t \in Threads |-> 1]
    /\ failed' = [t \in Threads |-> FALSE]
    /\ fd' = [t \in Threads |-> NoInode]
    /\ UNCHANGED <<setting, out, tmp>>
    /\ \/ UNCHANGED left /\ Keep(writer, touched)
       \/ \E t \in Threads, k \in setting.slots :
             /\ pc[t] \in {"download", "transfer", "validate", "move", "ingest"}
             /\ Leave(t, k, TRUE)

-----------------------------------------------------------------------------
(* What was left behind goes on *)

batches == <<setting, status, pc, script>>

LeftStarts(k) ==
    /\ left[k].step = "download"
    /\ LET f == left[k].file IN
       /\ OpenPartial(f, k)
       /\ touched' = [touched EXCEPT ![f] = @ \cup {Opened(f)}]
       /\ left' = [left EXCEPT ![k].step = "transfer", ![k].inode = Opened(f)]
    /\ UNCHANGED <<batches, out>>

LeftRetries(k) ==
    /\ left[k].step = "transfer"
    /\ Again(left[k].file, left[k].inode, k)
    /\ UNCHANGED <<batches, out, tmp, touched, left>>

\* An orphaned curl ends here; under a bash the validation comes next.
LeftDone(k) ==
    /\ left[k].step = "transfer"
    /\ left' = [left EXCEPT ![k] =
          IF @.shell THEN [@ EXCEPT !.step = "validate", !.inode = NoInode] ELSE Gone]
    /\ UNCHANGED <<batches, out, tmp>>
    /\ Keep(Completed(left[k].file, left[k].inode, k), touched)

LeftValidates(k) ==
    /\ left[k].step = "validate"
    /\ tmp[left[k].file] # NoInode
    /\ left' = [left EXCEPT ![k].step = "move"]
    /\ UNCHANGED <<batches, disk>>

\* mv, and then an echo to the closed pipe
LeftMoves(k) ==
    /\ left[k].step = "move"
    /\ LET f == left[k].file IN
       /\ tmp[f] # NoInode
       /\ out' = [out EXCEPT ![f] = tmp[f]]
       /\ tmp' = [tmp EXCEPT ![f] = NoInode]
       /\ left' = [left EXCEPT ![k] = Gone]
       /\ UNCHANGED batches
       /\ Keep(writer, [touched EXCEPT ![f] = @ \cup {tmp[f]}])

\* It fails, is killed, or dies of the error it writes to the closed pipe, before its rm.
LeftEnds(k) ==
    /\ left[k] # Gone
    /\ left' = [left EXCEPT ![k] = Gone]
    /\ UNCHANGED <<batches, out, tmp>>
    /\ Keep(writer, touched)

LeftStep(k) ==
    \/ LeftStarts(k) \/ LeftRetries(k) \/ LeftDone(k) \/ LeftValidates(k) \/ LeftMoves(k)
    \/ LeftEnds(k)

Step(t) ==
    \/ RunBatch(t) \/ TransferStart(t) \/ TransferDone(t) \/ TransferFails(t)
    \/ ScriptTimesOut(t) \/ Validate(t) \/ ValidateFails(t) \/ Move(t) \/ MoveFails(t)
    \/ NextMonth(t) \/ ListFailed(t) \/ NextList(t) \/ Ingest(t) \/ IngestTimesOut(t)
    \/ BatchDone(t) \/ BatchFailed(t)

StartByTrigger == \E t \in Workers \cap setting.awake : TriggerBatch(t)
StartByHour == \E p \in Procs : StartScheduler(p) \/ SchedulerFires(p)

Next ==
    \/ StartByTrigger
    \/ StartByHour
    \/ \E t \in Threads : Step(t) \/ TransferRetries(t)
    \/ \E k \in Slots : LeftStep(k)
    \/ Restart

Spec == Init /\ [][Next]_vars

\* A batch thread keeps running: every subprocess it waits for has a time limit.
FairSpec == Spec /\ \A t \in Threads : WF_vars(Step(t))

-----------------------------------------------------------------------------
TypeOK ==
    /\ status \in [Procs -> {"idle", "running"}]
    /\ pc \in [Threads -> Steps]
    /\ li \in [Threads -> 1 .. Len(setting.lists)]
    /\ mi \in [Threads -> 1 .. Len(setting.months)]
    /\ failed \in [Threads -> BOOLEAN]
    /\ out \in [Files -> Inodes \cup {NoInode}]
    /\ tmp \in [Files -> Inodes \cup {NoInode}]
    /\ writer \in [Files -> [Inodes -> Writers \cup {Nobody}]]
    /\ fd \in [Threads -> Inodes \cup {NoInode}]
    /\ \A t \in Threads : pc[t] = "transfer" => fd[t] \in Inodes
    /\ left \in [Slots -> Leftovers \cup {Gone, Container}]
    /\ touched \in [Files -> SUBSET Inodes]

TriggeredOnly == setting.awake \subseteq Workers   \* every batch came from the button
Active(t) == pc[t] \in Batch

\* A published month is a whole month ("A failed or truncated transfer therefore
\* never overwrites a known-good file"): of failed, killed, repeated and timed-out batches
\* that do not overlap, unless what a time limit or a restart left behind wrote that month
\* or published it ...
TriggeredWhole ==
    TriggeredOnly =>
        \A f \in Files : out[f] # NoInode => Whole(f) \/ out[f] \in touched[f]

\* ... and as it is promised, of all.
PublishedWhole == \A f \in Files : out[f] # NoInode => Whole(f)

\* The ingester runs only when every month of every list was replaced in this run:
\* a failed month ends the batch, and no later list hides it.
NoIngestAfterFailure == \A t \in Threads : pc[t] = "ingest" => ~failed[t]

\* The batches under way in a process, or about to be.
BusyIn(p) == {t \in Threads : HomeOf(t) = p /\ (Active(t) \/ (t \in Workers /\ pc[t] = "called"))}

\* When only the button starts batches, whatever is clicked and whatever fails: at most one
\* thread is in a batch, and "running" is shown, and triggers are refused, exactly while
\* one is (what a batch left behind is shown by nothing).
StatusTruth ==
    TriggeredOnly =>
        \A p \in Procs : Cardinality(BusyIn(p)) = IF status[p] = "running" THEN 1 ELSE 0

\* A batch that runs ends, and then the next trigger is accepted.
BatchEnds == \A p \in Procs : status[p] = "running" ~> status[p] = "idle"
=============================================================================
