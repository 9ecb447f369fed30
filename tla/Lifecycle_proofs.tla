-------------------------- MODULE Lifecycle_proofs --------------------------
(***************************************************************************)
(* Theorems about Lifecycle: the state keeps its types; the ports of       *)
(* clusters never meet; when calls do not overlap, every project directory *)
(* is registered; and, however they do, the task table tells which         *)
(* branches are being created. While calls do not overlap, no server that  *)
(* an archive knows of and can stop is left behind, and no other takes a   *)
(* cluster's port, through failures and restarts anywhere, for every       *)
(* number of branches and standbys.                                        *)
(***************************************************************************)
EXTENDS Lifecycle, FiniteSetTheorems, SequenceTheorems, TLAPS

\* A multiple of the stride that is closer to 0 than the stride is 0.
LEMMA SmallMultiple ==
    ASSUME NEW s \in Nat, NEW d \in Int, d * s < s, -s < d * s
    PROVE  d = 0
<1>1. CASE d >= 1
  <2>1. d * s >= s BY <1>1, SMT
  <2> QED BY <2>1
<1>2. CASE d <= -1
  <2>1. (-d) * s >= s BY <1>2, SMT
  <2>2. (-d) * s = -(d * s) BY SMT
  <2> QED BY <2>1, <2>2
<1> QED BY <1>1, <1>2

\* standby_port (lib/config.py) maps different primaries (master's included) and
\* different indexes to different ports, for every port range and stride.
THEOREM StandbyPortInjective ==
    \A p, q \in PrimaryPortMin .. PrimaryPortMax, i, j \in Nat :
        StandbyPort(p, i) = StandbyPort(q, j) => p = q /\ i = j
<1> SUFFICES ASSUME NEW p \in PrimaryPortMin .. PrimaryPortMax,
                    NEW q \in PrimaryPortMin .. PrimaryPortMax,
                    NEW i \in Nat, NEW j \in Nat,
                    StandbyPort(p, i) = StandbyPort(q, j)
             PROVE  p = q /\ i = j
    OBVIOUS
<1> DEFINE s == StandbyPortStride
           d == j - i
<1>1. s \in Nat /\ p \in Int /\ q \in Int /\ p - q < s /\ -s < p - q
    BY PortsAssumption
<1>2. p + i * s = q + j * s
    BY DEF StandbyPort
<1>3. d * s = j * s - i * s
    BY <1>1, SMT
<1>4. d * s = p - q
  <2>1. i * s \in Int /\ j * s \in Int BY <1>1
  <2> QED BY <1>1, <1>2, <1>3, <2>1
<1>5. d = 0
    BY <1>1, <1>4, SmallMultiple
<1>6. i = j
    BY <1>5
<1> QED BY <1>1, <1>4, <1>5, <1>6

-----------------------------------------------------------------------------
\* Where a call has its branch, and what holds of the branch there.
InitHolds(r) ==
    /\ pc[r] \in {"mkdir", "worktree", "build"} => name[r] \in Branches /\ reg[name[r]] # NoPort
    /\ pc[r] \in {"worktree", "build"} => dir[name[r]]
ArchiveHolds(r) ==
    pc[r] \in {"push", "unregister"} => ~dir[name[r]]

\* What holds however calls overlap; calls that do not take part stay where they are.
RegType ==
    /\ setting \in Settings
    /\ dir \in [Branches -> BOOLEAN]
    /\ DOMAIN reg = Branches /\ DOMAIN pc = Calls /\ DOMAIN name = Calls
    /\ \A r \in Calls \ setting.calls : pc[r] = "off"
    /\ \A r \in Calls : pc[r] # "off" => name[r] \in Branches

\* What one call at a time keeps.
Held ==
    /\ \A b \in Branches : dir[b] => reg[b] # NoPort
    /\ \A r \in Calls : InitHolds(r) /\ ArchiveHolds(r)

\* DirRegistered made inductive: what each call under way knows of its branch, while
\* calls do not overlap.
RegInv == RegType /\ (Serial => Held)

\* No directory and no call at first.
LEMMA RegInit == Init => RegInv
BY DEF Init, RegInv, RegType, Held, InitHolds, ArchiveHolds

\* Every step keeps the types, whether calls overlap or not.
LEMMA RegTypeStep ==
    ASSUME RegType, Next
    PROVE  RegType'
<1> USE DEF RegType, disk, db, locals
<1>0. setting' = setting /\ setting.calls \subseteq Calls /\ setting.branches \subseteq Branches
    BY SettingsAssumption DEF Next
<1>2. ASSUME NEW r \in setting.calls, NEW b \in setting.branches, NEW n \in 0 .. MaxStandbys, PgInit(r, b, n)
      PROVE RegType'
    BY <1>0, <1>2 DEF PgInit, Goto
<1>3. ASSUME NEW r \in setting.calls, NEW b \in setting.branches, StartArchive(r, b)
      PROVE RegType'
    BY <1>0, <1>3 DEF StartArchive, Goto
<1>4. ASSUME NEW r \in setting.calls, NEW b \in setting.branches, NEW i \in Instances,
             PgStart(r, b, i) \/ PgStop(r, b, i)
      PROVE RegType'
    BY <1>0, <1>4 DEF PgStart, PgStop
<1>5. ASSUME NEW r \in setting.calls, NEW b \in setting.branches, NEW action, ClusterAction(r, b, action)
      PROVE RegType'
    BY <1>0, <1>5 DEF ClusterAction, Goto
<1>6. ASSUME NEW r \in setting.calls, InitStep(r)
      PROVE RegType'
  <2>1. CASE Allocate(r) BY <1>0, <2>1 DEF Allocate, Goto, Pruned
  <2>2. CASE AllocateRaises(r) BY <1>0, <2>2 DEF AllocateRaises, Leave, Goto, Pruned
  <2>3. CASE Mkdir(r) BY <1>0, <2>3 DEF Mkdir, Goto
  <2>4. CASE Worktree(r) BY <1>0, <2>4 DEF Worktree, Goto
  <2>5. CASE Build(r) BY <1>0, <2>5 DEF Build, Goto
  <2>6. CASE InitDb(r) BY <1>0, <2>6 DEF InitDb, AfterStandby, Goto
  <2>7. CASE CreateStandby(r) BY <1>0, <2>7 DEF CreateStandby, Goto
  <2>8. CASE AddStandby(r) BY <1>0, <2>8 DEF AddStandby, AfterStandby, Goto
  <2>9. CASE InitDone(r) BY <1>0, <2>9 DEF InitDone, Leave, Goto
  <2>10. CASE InitRaises(r) BY <1>0, <2>10 DEF InitRaises, Leave, Goto
  <2> QED BY <1>6, <2>1, <2>2, <2>3, <2>4, <2>5, <2>6, <2>7, <2>8, <2>9, <2>10 DEF InitStep
<1>7. ASSUME NEW r \in setting.calls, ArchiveStep(r)
      PROVE RegType'
  <2>1. CASE StopStandby(r) BY <1>0, <2>1 DEF StopStandby
  <2>2. CASE StandbysDone(r) BY <1>0, <2>2 DEF StandbysDone, Goto
  <2>3. CASE StopPrimary(r) BY <1>0, <2>3 DEF StopPrimary, Goto
  <2>4. CASE Move(r) BY <1>0, <2>4 DEF Move, Goto
  <2>5. CASE Push(r) BY <1>0, <2>5 DEF Push, Goto
  <2>6. CASE RemovePortEntry(r) BY <1>0, <2>6 DEF RemovePortEntry, Goto
  <2>7. CASE RemoveStandbys(r) BY <1>0, <2>7 DEF RemoveStandbys, Goto
  <2>8. CASE SetArchived(r) BY <1>0, <2>8 DEF SetArchived, Leave, Goto
  <2>9. CASE ArchiveRaises(r) BY <1>0, <2>9 DEF ArchiveRaises, Leave, Goto
  <2> QED BY <1>7, <2>1, <2>2, <2>3, <2>4, <2>5, <2>6, <2>7, <2>8, <2>9 DEF ArchiveStep
<1>8. ASSUME NEW r \in setting.calls, ClusterStep(r) \/ ClusterRaises(r) \/ ClusterDone(r)
      PROVE RegType'
    BY <1>0, <1>8 DEF ClusterStep, ClusterRaises, ClusterDone, Leave, Goto
<1>9. CASE SyncBranches BY <1>0, <1>9 DEF SyncBranches
<1>10. ASSUME NEW b \in setting.branches, DeleteRow(b)
       PROVE RegType'
    BY <1>0, <1>10 DEF DeleteRow
<1>11. CASE Restart BY <1>0, <1>11 DEF Restart
<1> QED BY <1>2, <1>3, <1>4, <1>5, <1>6, <1>7, <1>8, <1>9, <1>10, <1>11 DEF Next

\* One call at a time keeps every directory registered.
LEMMA HeldStep ==
    ASSUME RegType, Serial, Held, Next
    PROVE  Held'
<1> USE DEF Held, InitHolds, ArchiveHolds, disk, db, locals
<1>0. /\ setting' = setting /\ setting.calls \subseteq Calls /\ setting.branches \subseteq Branches
      /\ dir \in [Branches -> BOOLEAN]
      /\ DOMAIN reg = Branches /\ DOMAIN pc = Calls /\ DOMAIN name = Calls
      /\ \A r \in Calls : pc[r] # "off" => name[r] \in Branches
      /\ \A r \in setting.calls, q \in Calls : q # r => pc[q] = "off"
    BY SettingsAssumption DEF Next, RegType, Serial
<1>2. ASSUME NEW r \in setting.calls, NEW b \in setting.branches, NEW n \in 0 .. MaxStandbys, PgInit(r, b, n)
      PROVE Held'
    BY <1>0, <1>2 DEF PgInit, Goto
<1>3. ASSUME NEW r \in setting.calls, NEW b \in setting.branches, StartArchive(r, b)
      PROVE Held'
    BY <1>0, <1>3 DEF StartArchive, Goto
<1>4. ASSUME NEW r \in setting.calls, NEW b \in setting.branches, NEW i \in Instances,
             PgStart(r, b, i) \/ PgStop(r, b, i)
      PROVE Held'
    BY <1>0, <1>4 DEF PgStart, PgStop
<1>5. ASSUME NEW r \in setting.calls, NEW b \in setting.branches, NEW action, ClusterAction(r, b, action)
      PROVE Held'
    BY <1>0, <1>5 DEF ClusterAction, Goto
<1>6. ASSUME NEW r \in setting.calls, InitStep(r)
      PROVE Held'
  <2>1. CASE Allocate(r)
    <3>1. PICK q \in FreePorts : reg' = [Pruned EXCEPT ![name[r]] = q]
        BY <2>1 DEF Allocate
    <3>2. q # NoPort
        BY PortsAssumption DEF FreePorts, Ports
    <3> QED BY <1>0, <2>1, <3>1, <3>2 DEF Allocate, Goto, Pruned
  <2>2. CASE AllocateRaises(r) BY <1>0, <2>2 DEF AllocateRaises, Leave, Goto, Pruned
  <2>3. CASE Mkdir(r) BY <1>0, <2>3 DEF Mkdir, Goto
  <2>4. CASE Worktree(r) BY <1>0, <2>4 DEF Worktree, Goto
  <2>5. CASE Build(r) BY <1>0, <2>5 DEF Build, Goto
  <2>6. CASE InitDb(r) BY <1>0, <2>6 DEF InitDb, AfterStandby, Goto
  <2>7. CASE CreateStandby(r) BY <1>0, <2>7 DEF CreateStandby, Goto
  <2>8. CASE AddStandby(r) BY <1>0, <2>8 DEF AddStandby, AfterStandby, Goto
  <2>9. CASE InitDone(r) BY <1>0, <2>9 DEF InitDone, Leave, Goto
  <2>10. CASE InitRaises(r) BY <1>0, <2>10 DEF InitRaises, Leave, Goto
  <2> QED BY <1>6, <2>1, <2>2, <2>3, <2>4, <2>5, <2>6, <2>7, <2>8, <2>9, <2>10 DEF InitStep
<1>7. ASSUME NEW r \in setting.calls, ArchiveStep(r)
      PROVE Held'
  <2>1. CASE StopStandby(r) BY <1>0, <2>1 DEF StopStandby
  <2>2. CASE StandbysDone(r) BY <1>0, <2>2 DEF StandbysDone, Goto
  <2>3. CASE StopPrimary(r) BY <1>0, <2>3 DEF StopPrimary, Goto
  <2>4. CASE Move(r) BY <1>0, <2>4 DEF Move, Goto
  <2>5. CASE Push(r) BY <1>0, <2>5 DEF Push, Goto
  <2>6. CASE RemovePortEntry(r) BY <1>0, <2>6 DEF RemovePortEntry, Goto
  <2>7. CASE RemoveStandbys(r) BY <1>0, <2>7 DEF RemoveStandbys, Goto
  <2>8. CASE SetArchived(r) BY <1>0, <2>8 DEF SetArchived, Leave, Goto
  <2>9. CASE ArchiveRaises(r) BY <1>0, <2>9 DEF ArchiveRaises, Leave, Goto
  <2> QED BY <1>7, <2>1, <2>2, <2>3, <2>4, <2>5, <2>6, <2>7, <2>8, <2>9 DEF ArchiveStep
<1>8. ASSUME NEW r \in setting.calls, ClusterStep(r) \/ ClusterRaises(r) \/ ClusterDone(r)
      PROVE Held'
    BY <1>0, <1>8 DEF ClusterStep, ClusterRaises, ClusterDone, Leave, Goto
<1>9. CASE SyncBranches BY <1>0, <1>9 DEF SyncBranches
<1>10. ASSUME NEW b \in setting.branches, DeleteRow(b)
       PROVE Held'
    BY <1>0, <1>10 DEF DeleteRow
<1>11. CASE Restart BY <1>0, <1>11 DEF Restart
<1> QED BY <1>2, <1>3, <1>4, <1>5, <1>6, <1>7, <1>8, <1>9, <1>10, <1>11 DEF Next

\* Every step keeps the invariant.
LEMMA RegStep ==
    ASSUME RegInv, [Next]_vars
    PROVE  RegInv'
<1>1. CASE Next
  <2>1. Serial' => Serial BY <1>1 DEF Next, Serial
  <2> QED BY <1>1, <2>1, RegTypeStep, HeldStep DEF RegInv
<1>2. CASE UNCHANGED vars
    BY <1>2 DEF vars, RegInv, RegType, Held, Serial, InitHolds, ArchiveHolds
<1> QED BY <1>1, <1>2

\* While calls do not overlap, a project directory has its port_lock entry at every
\* moment, through failures, restarts and archiving, for every number of branches.
THEOREM RegisteredWhenSerial == Spec => []DirRegistered
<1>1. Init => RegInv BY RegInit
<1>2. RegInv /\ [Next]_vars => RegInv' BY RegStep
<1>3. RegInv => DirRegistered BY DEF RegInv, Held, DirRegistered
<1> QED BY <1>1, <1>2, <1>3, PTL DEF Spec

\* While calls do not overlap, only init_branch's mkdir brings a directory into being:
\* neither git worktree add nor make install makes one that was archived.
THEOREM OnlyMkdirWhenSerial == Spec => OnlyMkdirCreates
<1> DEFINE MkdirOnly ==
        Serial =>
            \A b \in Branches :
                dir'[b] /\ ~dir[b] => \E r \in Calls : pc[r] = "mkdir" /\ name[r] = b
<1>1. Init => RegInv BY RegInit
<1>2. RegInv /\ [Next]_vars => RegInv' BY RegStep
<1>3. RegInv /\ [Next]_vars => [MkdirOnly]_vars
  <2> SUFFICES ASSUME RegInv, Next, Serial PROVE MkdirOnly
      OBVIOUS
  <2> USE SettingsAssumption DEF RegInv, RegType, Held, disk
  <2>1. ASSUME NEW r \in setting.calls, InitStep(r)
        PROVE  MkdirOnly
    <3>1. CASE Mkdir(r) BY <3>1 DEF Mkdir
    <3>2. CASE Worktree(r) BY <3>2 DEF Worktree, InitHolds
    <3>3. CASE Build(r) BY <3>3 DEF Build, InitHolds
    <3>4. CASE ~Mkdir(r) /\ ~Worktree(r) /\ ~Build(r)
      <4>1. dir' = dir
          BY <2>1, <3>4 DEF InitStep, Allocate, AllocateRaises, InitDb, CreateStandby,
                            AddStandby, InitDone, InitRaises
      <4> QED BY <4>1
    <3> QED BY <3>1, <3>2, <3>3, <3>4
  <2>2. ASSUME NEW r \in setting.calls, ArchiveStep(r)
        PROVE  MkdirOnly
    <3>1. CASE Move(r) BY <3>1 DEF Move
    <3>2. CASE ~Move(r)
      <4>1. dir' = dir
          BY <2>2, <3>2 DEF ArchiveStep, StopStandby, StandbysDone, StopPrimary, Push,
                            RemovePortEntry, RemoveStandbys, SetArchived, ArchiveRaises
      <4> QED BY <4>1
    <3> QED BY <3>1, <3>2
  <2>3. CASE /\ \A r \in setting.calls : ~InitStep(r) /\ ~ArchiveStep(r)
    <3>1. dir' = dir
        BY <2>3 DEF Next, PgInit, StartArchive, PgStart, PgStop, ClusterAction, ClusterStep,
                    ClusterRaises, ClusterDone, SyncBranches, DeleteRow, Restart
    <3> QED BY <3>1
  <2> QED BY <2>1, <2>2, <2>3
<1> QED BY <1>1, <1>2, <1>3, PTL DEF Spec, OnlyMkdirCreates

-----------------------------------------------------------------------------
(* The task table *)

\* The pg_init threads and the branches whose task is "running" belong together one to one.
OneThread ==
    /\ DOMAIN task = Branches
    /\ \A r \in Calls : pc[r] \in InitPcs => task[name[r]] = "running"
    /\ \A q, r \in Calls : pc[q] \in InitPcs /\ pc[r] \in InitPcs /\ name[q] = name[r] => q = r
    /\ \A b \in Branches :
          task[b] = "running" => \E r \in Calls : pc[r] \in InitPcs /\ name[r] = b

TaskInv == RegType /\ OneThread

\* A step that starts and ends no thread.
LEMMA SameThreads ==
    ASSUME OneThread, task' = task,
           \A r \in Calls : /\ (pc'[r] \in InitPcs) = (pc[r] \in InitPcs)
                            /\ pc[r] \in InitPcs => name'[r] = name[r]
    PROVE  OneThread'
BY DEF OneThread

\* The end of a thread, with its outcome.
LEMMA ThreadEnds ==
    ASSUME TaskInv, NEW r \in Calls, pc[r] \in InitPcs, NEW outcome \in {"done", "error"},
           task' = [task EXCEPT ![name[r]] = outcome], Leave(r)
    PROVE  OneThread'
<1>1. /\ name[r] \in Branches /\ DOMAIN pc = Calls /\ DOMAIN name = Calls
      /\ \A q \in Calls : pc[q] # "off" => name[q] \in Branches
  BY DEF TaskInv, RegType, InitPcs
<1>2. pc'[r] \notin InitPcs /\ \A q \in Calls \ {r} : pc'[q] = pc[q] /\ name'[q] = name[q]
  BY <1>1 DEF Leave, Goto, InitPcs
<1>3. \A q \in Calls \ {r} : pc[q] \in InitPcs => name[q] # name[r] /\ task'[name[q]] = task[name[q]]
  BY <1>1 DEF TaskInv, OneThread, InitPcs
<1>4. task'[name[r]] # "running" /\ DOMAIN task' = Branches
      /\ \A b \in Branches \ {name[r]} : task'[b] = task[b]
  BY <1>1 DEF TaskInv, OneThread
<1> QED BY <1>2, <1>3, <1>4 DEF TaskInv, OneThread

\* The start of one, after the look at the task table.
LEMMA ThreadStarts ==
    ASSUME TaskInv, NEW r \in Calls, NEW b \in Branches, NEW n, PgInit(r, b, n)
    PROVE  OneThread'
<1>1. DOMAIN pc = Calls /\ DOMAIN name = Calls /\ DOMAIN task = Branches
  BY DEF TaskInv, RegType, OneThread
<1>2. /\ pc[r] = "off" /\ pc'[r] = "allocate" /\ name'[r] = b
      /\ \A q \in Calls \ {r} : pc'[q] = pc[q] /\ name'[q] = name[q]
      /\ task' = [task EXCEPT ![b] = "running"] /\ task[b] # "running"
  BY <1>1 DEF PgInit, Goto
<1>3. \A q \in Calls : pc[q] \in InitPcs => name[q] # b
  BY <1>2 DEF TaskInv, OneThread
<1>4. task'[b] = "running" /\ DOMAIN task' = Branches /\ \A d \in Branches \ {b} : task'[d] = task[d]
  BY <1>1, <1>2
<1>5. "off" \notin InitPcs /\ "allocate" \in InitPcs
  BY DEF InitPcs
<1>6. \A q \in Calls : pc[q] \in InitPcs => name[q] \in Branches
  BY <1>5 DEF TaskInv, RegType
<1> QED BY <1>2, <1>3, <1>4, <1>5, <1>6 DEF TaskInv, OneThread

\* Every step of every call keeps it, whatever the calls overlap with.
LEMMA OneThreadStep ==
    ASSUME TaskInv, Next
    PROVE  OneThread'
<1>0. /\ setting.calls \subseteq Calls /\ setting.branches \subseteq Branches
      /\ DOMAIN pc = Calls /\ DOMAIN name = Calls /\ OneThread
  BY SettingsAssumption DEF TaskInv, RegType
<1> USE <1>0 DEF InitPcs, ArchivePcs, Goto, Leave, locals
<1>1. ASSUME NEW r \in setting.calls, NEW b \in setting.branches, NEW n \in 0 .. MaxStandbys, PgInit(r, b, n)
      PROVE OneThread'
  BY <1>1, ThreadStarts
<1>2. ASSUME NEW r \in setting.calls, NEW b \in setting.branches, StartArchive(r, b)
      PROVE OneThread'
  BY <1>2, SameThreads DEF StartArchive
<1>3. ASSUME NEW r \in setting.calls, NEW b \in setting.branches, NEW i \in Instances,
             PgStart(r, b, i) \/ PgStop(r, b, i)
      PROVE OneThread'
  BY <1>3, SameThreads DEF PgStart, PgStop
<1>4. ASSUME NEW r \in setting.calls, NEW b \in setting.branches, NEW action, ClusterAction(r, b, action)
      PROVE OneThread'
  BY <1>4, SameThreads DEF ClusterAction
<1>5. ASSUME NEW r \in setting.calls, InitStep(r)
      PROVE OneThread'
  <2>1. CASE AllocateRaises(r)
    BY <2>1, ThreadEnds DEF AllocateRaises
  <2>2. CASE InitDone(r)
    BY <2>2, ThreadEnds DEF InitDone
  <2>3. CASE InitRaises(r)
    BY <2>3, ThreadEnds DEF InitRaises
  <2>4. CASE Allocate(r) \/ Mkdir(r) \/ Worktree(r) \/ Build(r) \/ CreateStandby(r)
    BY <2>4, SameThreads DEF Allocate, Mkdir, Worktree, Build, CreateStandby
  <2>5. CASE InitDb(r) \/ AddStandby(r)
    BY <2>5, SameThreads DEF InitDb, AddStandby, AfterStandby
  <2> QED BY <1>5, <2>1, <2>2, <2>3, <2>4, <2>5 DEF InitStep
<1>6. ASSUME NEW r \in setting.calls, ArchiveStep(r)
      PROVE OneThread'
  BY <1>6, SameThreads DEF ArchiveStep, StopStandby, StandbysDone, StopPrimary, Move, Push,
                           RemovePortEntry, RemoveStandbys, SetArchived, ArchiveRaises
<1>7. ASSUME NEW r \in setting.calls, ClusterStep(r) \/ ClusterRaises(r) \/ ClusterDone(r)
      PROVE OneThread'
  BY <1>7, SameThreads DEF ClusterStep, ClusterRaises, ClusterDone
<1>8. CASE SyncBranches
  BY <1>8, SameThreads DEF SyncBranches
<1>9. ASSUME NEW b \in setting.branches, DeleteRow(b)
      PROVE OneThread'
  BY <1>9, SameThreads DEF DeleteRow
<1>10. CASE Restart
  BY <1>10 DEF Restart, OneThread
<1> QED BY <1>1, <1>2, <1>3, <1>4, <1>5, <1>6, <1>7, <1>8, <1>9, <1>10 DEF Next

\* At most one pg_init thread works on a branch, and the page shows the branch as being
\* created exactly while one does, for any number of clicks, calls and restarts at once:
\* api_pg_init looks at the task and sets it under one lock.
THEOREM TasksAreTrue == Spec => []TaskTruth
<1>1. Init => TaskInv
  BY RegInit DEF Init, TaskInv, OneThread, RegInv, InitPcs
<1>2. TaskInv /\ [Next]_vars => TaskInv'
  <2>1. CASE UNCHANGED vars
    BY <2>1 DEF vars, TaskInv, RegType, OneThread
  <2> QED BY <2>1, RegTypeStep, OneThreadStep DEF TaskInv
<1>3. TaskInv => TaskTruth
  <2> SUFFICES ASSUME TaskInv, NEW b \in Branches
               PROVE  Cardinality({r \in Calls : Initializing(r, b)})
                         = IF task[b] = "running" THEN 1 ELSE 0
      BY DEF TaskTruth
  <2> DEFINE T == {r \in Calls : Initializing(r, b)}
  <2>1. CASE task[b] = "running"
    <3>1. PICK r \in Calls : pc[r] \in InitPcs /\ name[r] = b
      BY <2>1 DEF TaskInv, OneThread
    <3>2. T = {r}
      BY <3>1 DEF TaskInv, OneThread, Initializing
    <3> QED BY <2>1, <3>2, FS_Singleton
  <2>2. CASE task[b] # "running"
    <3>1. T = {}
      BY <2>2 DEF TaskInv, OneThread, Initializing
    <3> QED BY <2>2, <3>1, FS_EmptySet
  <2> QED BY <2>1, <2>2
<1> QED BY <1>1, <1>2, <1>3, PTL DEF Spec

-----------------------------------------------------------------------------
(* Sorting the indexes of standbys *)

\* The elements before i in the order R, and their number.
Below(S, R, i) == {j \in S : <<j, i>> \in R}
Rank(S, R, i) == Cardinality(Below(S, R, i))

\* In a strict total order on a finite set every rank is had by exactly one element.
LEMMA Ranking ==
    ASSUME NEW S, IsFiniteSet(S), NEW R,
           \A i \in S : <<i, i>> \notin R,
           \A i, j, k \in S : <<i, j>> \in R /\ <<j, k>> \in R => <<i, k>> \in R,
           \A i, j \in S : i # j => <<i, j>> \in R \/ <<j, i>> \in R
    PROVE  /\ \A i \in S : Rank(S, R, i) + 1 \in 1 .. Cardinality(S)
           /\ \A i, j \in S : Rank(S, R, i) = Rank(S, R, j) => i = j
           /\ \A k \in 1 .. Cardinality(S) : \E i \in S : Rank(S, R, i) = k - 1
<1> DEFINE n == Cardinality(S)
           rank(i) == Rank(S, R, i)
<1>1. n \in Nat
  BY FS_CardinalityType
<1>2. \A i \in S : rank(i) \in 0 .. n - 1
  <2> SUFFICES ASSUME NEW i \in S PROVE rank(i) \in 0 .. n - 1
      OBVIOUS
  <2>1. Below(S, R, i) \in SUBSET S /\ Below(S, R, i) # S
    BY DEF Below
  <2>2. IsFiniteSet(Below(S, R, i)) /\ rank(i) <= n /\ rank(i) # n
    BY <2>1, FS_Subset DEF Rank
  <2>3. rank(i) \in Nat
    BY <2>2, FS_CardinalityType DEF Rank
  <2> QED BY <1>1, <2>2, <2>3
<1>3. \A i, j \in S : <<i, j>> \in R => rank(i) < rank(j)
  <2> SUFFICES ASSUME NEW i \in S, NEW j \in S, <<i, j>> \in R PROVE rank(i) < rank(j)
      OBVIOUS
  <2>1. Below(S, R, i) \in SUBSET Below(S, R, j) /\ Below(S, R, i) # Below(S, R, j)
    BY DEF Below
  <2>2. Below(S, R, j) \in SUBSET S
    BY DEF Below
  <2>3. IsFiniteSet(Below(S, R, j))
    BY <2>2, FS_Subset
  <2>4. rank(i) <= rank(j) /\ rank(i) # rank(j)
    BY <2>1, <2>3, FS_Subset DEF Rank
  <2>5. rank(i) \in Int /\ rank(j) \in Int
    BY <1>2
  <2> QED BY <2>4, <2>5
<1>4. \A i, j \in S : rank(i) = rank(j) => i = j
  <2> SUFFICES ASSUME NEW i \in S, NEW j \in S, rank(i) = rank(j), i # j PROVE FALSE
      OBVIOUS
  <2> HIDE DEF rank
  <2>1. rank(i) < rank(j) \/ rank(j) < rank(i)
    BY <1>3
  <2> QED BY <2>1, <1>2
<1>5. \A k \in 0 .. n - 1 : \E i \in S : rank(i) = k
  <2> DEFINE T == 0 .. n - 1
             f == [i \in S |-> rank(i)]
  <2> HIDE DEF rank
  <2>1. f \in Injection(S, T)
    BY <1>2, <1>4 DEF Injection, IsInjective
  <2>2. IsFiniteSet(T) /\ Cardinality(T) = n
    <3>1. n - 1 \in Int
      BY <1>1
    <3>2. IsFiniteSet(0 .. n - 1) /\ Cardinality(0 .. n - 1) = IF 0 > n - 1 THEN 0 ELSE (n - 1) - 0 + 1
      BY <3>1, FS_Interval
    <3> QED BY <1>1, <3>2
  <2>3. f \in Surjection(S, T)
    <3> HIDE DEF f, T
    <3> QED BY <2>1, <2>2, FS_Injection
  <2> QED BY <2>3 DEF Surjection
<1> HIDE DEF rank
<1>6. \A i \in S : rank(i) + 1 \in 1 .. n
  BY <1>1, <1>2
<1>7. \A k \in 1 .. n : k - 1 \in 0 .. n - 1
  BY <1>1
<1> QED BY <1>4, <1>5, <1>6, <1>7 DEF rank

\* A function on 1 .. n is a sequence of length n.
LEMMA FunctionIsSeq ==
    ASSUME NEW S, NEW n \in Nat, NEW seq \in [1 .. n -> S]
    PROVE  seq \in Seq(S) /\ Len(seq) = n
<1>1. seq \in Seq(S)
  BY SeqDef
<1>2. DOMAIN seq = 1 .. Len(seq) /\ Len(seq) \in Nat
  BY <1>1, LenProperties
<1>3. 1 .. n = 1 .. Len(seq)
  BY <1>2
<1>4. \A m \in Nat : 1 .. n = 1 .. m => n = m
  <2> SUFFICES ASSUME NEW m \in Nat, 1 .. n = 1 .. m PROVE n = m
      OBVIOUS
  <2>1. n \in 1 .. m \/ n = 0
    OBVIOUS
  <2>2. m \in 1 .. n \/ m = 0
    OBVIOUS
  <2>3. CASE n = 0 \/ m = 0
    <3>1. 1 \notin 1 .. n \/ 1 \notin 1 .. m
      BY <2>3
    <3> QED BY <3>1
  <2> QED BY <2>1, <2>2, <2>3
<1> QED BY <1>1, <1>2, <1>3, <1>4

\* seq lists the elements of S, each once or more, and nothing else.
Lists(seq, S) ==
    /\ seq \in Seq(S)
    /\ \A i \in S : \E k \in 1 .. Len(seq) : seq[k] = i

\* Taking the element of each rank in turn lists the whole set.
LEMMA ListedInOrder ==
    ASSUME NEW S, IsFiniteSet(S), NEW R,
           \A i \in S : <<i, i>> \notin R,
           \A i, j, k \in S : <<i, j>> \in R /\ <<j, k>> \in R => <<i, k>> \in R,
           \A i, j \in S : i # j => <<i, j>> \in R \/ <<j, i>> \in R,
           NEW seq,
           seq = [k \in 1 .. Cardinality(S) |-> seq[k]],
           \A k \in 1 .. Cardinality(S) :
               (\E i \in S : Rank(S, R, i) = k - 1) => seq[k] \in S /\ Rank(S, R, seq[k]) = k - 1
    PROVE  Lists(seq, S)
<1> DEFINE n == Cardinality(S)
<1>1. n \in Nat
  BY FS_CardinalityType
<1>2. /\ \A i \in S : Rank(S, R, i) + 1 \in 1 .. n
      /\ \A i, j \in S : Rank(S, R, i) = Rank(S, R, j) => i = j
      /\ \A k \in 1 .. n : \E i \in S : Rank(S, R, i) = k - 1
  BY Ranking
<1>3. \A k \in 1 .. n : seq[k] \in S /\ Rank(S, R, seq[k]) = k - 1
  BY <1>2
<1> HIDE DEF n
<1>4. seq \in Seq(S) /\ Len(seq) = n
  <2>1. seq \in [1 .. n -> S]
    BY <1>3 DEF n
  <2> QED BY <1>1, <2>1, FunctionIsSeq
<1>5. ASSUME NEW i \in S PROVE \E k \in 1 .. n : seq[k] = i
  <2> DEFINE k == Rank(S, R, i) + 1
  <2>1. k \in 1 .. n
    BY <1>2
  <2>2. seq[k] \in S /\ Rank(S, R, seq[k]) = k - 1
    BY <1>3, <2>1
  <2>3. Rank(S, R, i) = k - 1
    <3>1. Below(S, R, i) \in SUBSET S
      BY DEF Below
    <3>2. IsFiniteSet(Below(S, R, i))
      BY <3>1, FS_Subset
    <3>3. Rank(S, R, i) \in Nat
      BY <3>2, FS_CardinalityType DEF Rank
    <3> QED BY <3>3
  <2> HIDE DEF k
  <2>4. seq[k] = i
    BY <1>2, <2>2, <2>3
  <2> QED BY <2>1, <2>4
<1> QED BY <1>4, <1>5 DEF Lists

\* The rows of a branch's standbys, as archive_branch and the cluster actions sort them.
LEMMA StandbysInOrder ==
    ASSUME NEW S \in SUBSET Instances
    PROVE  Lists(Ascending(S), S) /\ Lists(Descending(S), S)
<1>1. IsFiniteSet(S)
  <2>1. IsFiniteSet(0 .. MaxStandbys)
    BY PortsAssumption, FS_Interval
  <2> QED BY <2>1, FS_Subset DEF Instances
<1>2. S \subseteq Int
  BY DEF Instances
<1>3. Lists(Ascending(S), S)
  <2> DEFINE R == {p \in S \X S : p[1] < p[2]}
  <2>1. \A i, j \in S : <<i, j>> \in R <=> i < j
    OBVIOUS
  <2> HIDE DEF R
  <2>2. /\ \A i \in S : <<i, i>> \notin R
        /\ \A i, j, k \in S : <<i, j>> \in R /\ <<j, k>> \in R => <<i, k>> \in R
        /\ \A i, j \in S : i # j => <<i, j>> \in R \/ <<j, i>> \in R
    BY <1>2, <2>1
  <2>3. \A i \in S : Below(S, R, i) = {j \in S : j < i}
    BY <2>1 DEF Below
  <2>4. \A i \in S : Rank(S, R, i) = Cardinality({j \in S : j < i})
    BY <2>3 DEF Rank
  <2>5. Ascending(S) = [k \in 1 .. Cardinality(S) |->
                 CHOOSE i \in S : Cardinality({j \in S : j < i}) = k - 1]
    BY DEF Ascending, Ordered
  <2>6. ASSUME NEW k \in 1 .. Cardinality(S), \E i \in S : Rank(S, R, i) = k - 1
        PROVE  Ascending(S)[k] \in S /\ Rank(S, R, Ascending(S)[k]) = k - 1
    <3>1. \E i \in S : Cardinality({j \in S : j < i}) = k - 1
      BY <2>4, <2>6
    <3>2. Ascending(S)[k] \in S /\ Cardinality({j \in S : j < Ascending(S)[k]}) = k - 1
      BY <2>5, <3>1
    <3> QED BY <2>4, <3>2
  <2>7. Ascending(S) = [k \in 1 .. Cardinality(S) |-> Ascending(S)[k]]
    BY <2>5
  <2> QED BY <1>1, <2>2, <2>6, <2>7, ListedInOrder
<1>4. Lists(Descending(S), S)
  <2> DEFINE R == {p \in S \X S : p[1] > p[2]}
  <2>1. \A i, j \in S : <<i, j>> \in R <=> i > j
    OBVIOUS
  <2> HIDE DEF R
  <2>2. /\ \A i \in S : <<i, i>> \notin R
        /\ \A i, j, k \in S : <<i, j>> \in R /\ <<j, k>> \in R => <<i, k>> \in R
        /\ \A i, j \in S : i # j => <<i, j>> \in R \/ <<j, i>> \in R
    BY <1>2, <2>1
  <2>3. \A i \in S : Below(S, R, i) = {j \in S : j > i}
    BY <2>1 DEF Below
  <2>4. \A i \in S : Rank(S, R, i) = Cardinality({j \in S : j > i})
    BY <2>3 DEF Rank
  <2>5. Descending(S) = [k \in 1 .. Cardinality(S) |->
                 CHOOSE i \in S : Cardinality({j \in S : j > i}) = k - 1]
    BY DEF Descending, Ordered
  <2>6. ASSUME NEW k \in 1 .. Cardinality(S), \E i \in S : Rank(S, R, i) = k - 1
        PROVE  Descending(S)[k] \in S /\ Rank(S, R, Descending(S)[k]) = k - 1
    <3>1. \E i \in S : Cardinality({j \in S : j > i}) = k - 1
      BY <2>4, <2>6
    <3>2. Descending(S)[k] \in S /\ Cardinality({j \in S : j > Descending(S)[k]}) = k - 1
      BY <2>5, <3>1
    <3> QED BY <2>4, <3>2
  <2>7. Descending(S) = [k \in 1 .. Cardinality(S) |-> Descending(S)[k]]
    BY <2>5
  <2> QED BY <1>1, <2>2, <2>6, <2>7, ListedInOrder
<1> QED BY <1>3, <1>4

Acts == {"create", "start", "stop"}

\* Pairing an action with each element keeps order and length.
LEMMA OnSeq ==
    ASSUME NEW T, NEW is \in Seq(T), NEW action \in Acts
    PROVE  /\ On(action, is) \in Seq(Acts \X T)
           /\ Len(On(action, is)) = Len(is)
           /\ \A k \in 1 .. Len(is) : On(action, is)[k][2] = is[k]
<1>1. Len(is) \in Nat /\ DOMAIN is = 1 .. Len(is) /\ \A k \in 1 .. Len(is) : is[k] \in T
  BY LenProperties, ElementOfSeq
<1>2. On(action, is) \in [1 .. Len(is) -> Acts \X T]
  BY <1>1 DEF On
<1>3. On(action, is) \in Seq(Acts \X T) /\ Len(On(action, is)) = Len(is)
  BY <1>1, <1>2, FunctionIsSeq
<1>4. \A k \in 1 .. Len(is) : On(action, is)[k][2] = is[k]
  BY <1>1 DEF On
<1> QED BY <1>3, <1>4

\* init_database is followed by one create_standby for each index asked for.
LEMMA CreatesAllWanted ==
    ASSUME NEW n \in Instances
    PROVE  [i \in 1 .. n |-> <<"create", i>>] \in Seq(Acts \X (Instances \ {0}))
<1>1. n \in Nat /\ 1 .. n \subseteq Instances \ {0}
  BY PortsAssumption DEF Instances
<1>2. [i \in 1 .. n |-> <<"create", i>>] \in [1 .. n -> Acts \X (Instances \ {0})]
  BY <1>1 DEF Acts
<1> QED BY <1>1, <1>2, FunctionIsSeq

\* archive_branch stops every standby that has a row.
LEMMA StopsAllListed ==
    ASSUME NEW S \in SUBSET Instances
    PROVE  LET q == On("stop", Descending(S))
           IN q \in Seq(Acts \X Instances) /\ \A i \in S : \E k \in 1 .. Len(q) : q[k][2] = i
<1> DEFINE seq == Descending(S)
           q == On("stop", seq)
<1>1. Lists(seq, S)
  BY StandbysInOrder
<1> HIDE DEF seq
<1>2. seq \in Seq(Instances)
  BY <1>1, SeqMonotonic DEF Lists
<1>3. "stop" \in Acts
  BY DEF Acts
<1>4. q \in Seq(Acts \X Instances) /\ Len(q) = Len(seq) /\ \A k \in 1 .. Len(seq) : q[k][2] = seq[k]
  BY <1>2, <1>3, OnSeq
<1> HIDE DEF q
<1>5. \A i \in S : \E k \in 1 .. Len(q) : q[k][2] = i
  BY <1>1, <1>4 DEF Lists
<1> QED BY <1>4, <1>5 DEF q, seq

\* A cluster action treats instances.
LEMMA ClusterQueueTyped ==
    ASSUME NEW b, standbys[b] \in SUBSET Instances, NEW action
    PROVE  ClusterQueue(b, action) \in Seq(Acts \X Instances)
<1> DEFINE S == standbys[b]
           T == Instances
<1>1. Ascending(S) \in Seq(S) /\ Descending(S) \in Seq(S)
  BY StandbysInOrder DEF Lists
<1> HIDE DEF S
<1>2. Ascending(S) \in Seq(T) /\ Descending(S) \in Seq(T)
  <2> S \subseteq T
    BY DEF S
  <2> HIDE DEF T
  <2> QED BY <1>1, SeqMonotonic
<1>3. <<0>> \in Seq(T)
  BY PortsAssumption DEF Instances
<1> HIDE DEF T
<1>4. <<0>> \o Ascending(S) \in Seq(T) /\ Descending(S) \o <<0>> \in Seq(T)
  BY <1>2, <1>3, ConcatProperties
<1> DEFINE up == On("start", <<0>> \o Ascending(S))
           down == On("stop", Descending(S) \o <<0>>)
<1>5. up \in Seq(Acts \X T) /\ down \in Seq(Acts \X T)
  <2>1. "start" \in Acts /\ "stop" \in Acts
    BY DEF Acts
  <2>2. up \in Seq(Acts \X T)
    BY <1>4, <2>1, OnSeq
  <2>3. down \in Seq(Acts \X T)
    BY <1>4, <2>1, OnSeq
  <2> QED BY <2>2, <2>3
<1> HIDE DEF up, down
<1>6. down \o up \in Seq(Acts \X T)
  BY <1>5, ConcatProperties
<1>7. ClusterQueue(b, action) \in {up, down, down \o up}
  BY DEF ClusterQueue, up, down, S
<1> QED BY <1>5, <1>6, <1>7 DEF S, T

-----------------------------------------------------------------------------
(* What holds of every server *)

\* The server is where its branch is, on the port the registry gives it.
Housed(s) ==
    /\ s.branch \in Branches /\ s.inst \in Instances
    /\ HasInstance(s.branch, s.inst)
    /\ reg[s.branch] \in Ports
    /\ s.port = StandbyPort(reg[s.branch], s.inst)

Shaped(s) == s = [branch |-> s.branch, inst |-> s.inst, port |-> s.port,
                  here |-> s.here, listed |-> s.listed]

\* ... or it was left behind by an archive that could not know of it or stop it.
Placed(s) == Shaped(s) /\ IF s.here THEN Housed(s) ELSE ~s.listed

\* What an update of a server leaves as it was.
LEMMA ListedFields ==
    ASSUME NEW s, Shaped(s), NEW v
    PROVE  LET l == [s EXCEPT !.listed = v]
           IN /\ Shaped(l) /\ l.branch = s.branch /\ l.inst = s.inst /\ l.port = s.port
              /\ l.here = s.here /\ l.listed = v
BY DEF Shaped
LEMMA MovedFields ==
    ASSUME NEW s, Shaped(s), NEW v
    PROVE  LET h == [s EXCEPT !.here = v]
           IN Shaped(h) /\ h.here = v /\ h.listed = s.listed
BY DEF Shaped

\* An archive marks the servers in place that its list has.
LEMMA MarkedAtStart ==
    ASSUME NEW b, NEW S, NEW s \in ListedIn(b, S), \A t \in servers : Placed(t)
    PROVE  \E t \in servers :
               /\ Shaped(s) /\ s.branch = t.branch /\ s.inst = t.inst /\ s.port = t.port
               /\ s.here = t.here
               /\ ~s.here => ~s.listed
               /\ s.branch = b /\ s.listed => s.inst \in {0} \cup S
<1>1. PICK t \in servers :
          s = IF t.branch = b THEN [t EXCEPT !.listed = t.here /\ t.inst \in {0} \cup S] ELSE t
  BY DEF ListedIn
<1>2. Placed(t) /\ Shaped(t)
  BY DEF Placed
<1>3. CASE t.branch = b
  <2> DEFINE v == t.here /\ t.inst \in {0} \cup S
             l == [t EXCEPT !.listed = v]
  <2>1. /\ Shaped(l) /\ l.branch = t.branch /\ l.inst = t.inst /\ l.port = t.port
        /\ l.here = t.here /\ l.listed = v
    BY <1>2, ListedFields
  <2>2. s = l
    BY <1>1, <1>3
  <2> HIDE DEF l
  <2> QED BY <2>1, <2>2
<1>4. CASE t.branch # b
  BY <1>1, <1>2, <1>4 DEF Placed
<1> QED BY <1>3, <1>4

\* A stop that fails unnoticed unmarks the server.
LEMMA UnmarkedStillUp ==
    ASSUME NEW b, NEW i, NEW s \in StillUp(b, i), \A t \in servers : Placed(t)
    PROVE  \E t \in servers :
               /\ Shaped(s) /\ s.branch = t.branch /\ s.inst = t.inst /\ s.port = t.port
               /\ s.here = t.here
               /\ s.listed => s = t /\ ~Is(t, b, i)
<1>1. PICK t \in servers : s = IF Is(t, b, i) THEN [t EXCEPT !.listed = FALSE] ELSE t
  BY DEF StillUp
<1>2. Shaped(t)
  BY DEF Placed
<1>3. CASE Is(t, b, i)
  <2> DEFINE l == [t EXCEPT !.listed = FALSE]
  <2>1. /\ Shaped(l) /\ l.branch = t.branch /\ l.inst = t.inst /\ l.port = t.port
        /\ l.here = t.here /\ ~l.listed
    BY <1>2, ListedFields
  <2>2. s = l
    BY <1>1, <1>3
  <2> HIDE DEF l
  <2> QED BY <2>1, <2>2
<1>4. CASE ~Is(t, b, i)
  BY <1>1, <1>2, <1>4
<1> QED BY <1>3, <1>4

\* What the call under way knows of its branch at each step.
CallKnows(r) ==
    /\ pc[r] \in InitPcs => want[r] \in Instances
    /\ pc[r] \in InitPcs \ {"allocate"} => port[r] = reg[name[r]] /\ reg[name[r]] \in Ports
    /\ pc[r] \in {"standby", "addrow"} =>
           queue[r] # <<>> /\ queue[r] \in Seq(Acts \X (Instances \ {0}))
    /\ pc[r] = "stopstandby" =>
           /\ queue[r] \in Seq(Acts \X Instances)
           /\ \A s \in servers : s.branch = name[r] /\ s.listed /\ s.inst # 0
                  => \E k \in 1 .. Len(queue[r]) : queue[r][k][2] = s.inst
    /\ pc[r] = "stopprimary" => \A s \in servers : s.branch = name[r] /\ s.listed => s.inst = 0
    /\ pc[r] = "move" => \A s \in servers : s.branch = name[r] => ~s.listed
    /\ pc[r] \in {"push", "unregister", "unrow", "archived"} => ~dir[name[r]]
    /\ pc[r] = "cluster" =>
           /\ port[r] = reg[name[r]] /\ reg[name[r]] \in Ports
           /\ queue[r] \in Seq(Acts \X Instances)

\* The types of what the steps below read.
LocalTypes ==
    /\ conf \in [Branches -> Ports \cup {NoPort}]
    /\ data \in [Branches -> SUBSET Instances]
    /\ reg \in [Branches -> Ports \cup {NoPort}]
    /\ standbys \in [Branches -> SUBSET (Instances \ {0})]
    /\ port \in [Calls -> Ports \cup {NoPort}]
    /\ DOMAIN want = Calls /\ DOMAIN queue = Calls

\* No two branches have one entry.
Distinct == \A b, c \in Branches : reg[b] # NoPort /\ reg[b] = reg[c] => b = c

\* What one call at a time keeps.
Kept ==
    /\ LocalTypes /\ Distinct
    /\ \A s \in servers : Placed(s)
    /\ \A r \in setting.calls : CallKnows(r)

\* ServersReachable and PortsNotTaken made inductive.
ServInv == RegInv /\ (Serial => Kept)

\* No servers, no calls and no entries at first.
LEMMA ServInit == Init => ServInv
<1> SUFFICES ASSUME Init PROVE Kept
    BY RegInit DEF ServInv
<1>1. \A b, c \in Branches : reg[b] = NoPort
  BY DEF Init
<1>2. \A r \in Calls : pc[r] = "off"
  BY DEF Init
<1>3. setting.calls \subseteq Calls
  BY SettingsAssumption DEF Init
<1>4. \A r \in setting.calls : CallKnows(r)
  BY <1>2, <1>3 DEF CallKnows, InitPcs
<1>5. LocalTypes
  BY DEF Init, LocalTypes
<1> QED BY <1>1, <1>4, <1>5 DEF Init, Kept, Distinct

\* Rows of table branches and tasks are no part of it.
LEMMA Untouched ==
    ASSUME Kept,
           UNCHANGED <<setting, dir, conf, data, reg, standbys, servers, pc, name, port, want, queue>>
    PROVE  Kept'
<1>1. LocalTypes' /\ Distinct'
  BY DEF Kept, LocalTypes, Distinct
<1>2. \A s \in servers' : Placed(s)'
  BY DEF Kept, Placed, Housed, HasInstance
<1>3. \A r \in setting'.calls : CallKnows(r)'
  <2> SUFFICES ASSUME NEW r \in setting.calls PROVE CallKnows(r)'
      OBVIOUS
  <2>1. CallKnows(r)
    BY DEF Kept
  <2> QED BY <2>1 DEF CallKnows
<1> QED BY <1>1, <1>2, <1>3 DEF Kept

\* With one call at a time, every step keeps Kept.
LEMMA KeptStep ==
    ASSUME RegInv, Serial, Kept, Next
    PROVE  Kept'
<1> USE DEF disk, db, locals
<1>0. /\ setting' = setting /\ setting.calls \subseteq Calls /\ setting.branches \subseteq Branches
      /\ \A q, r \in setting.calls : q = r
      /\ dir \in [Branches -> BOOLEAN]
      /\ DOMAIN pc = Calls /\ DOMAIN name = Calls
      /\ \A r \in Calls : pc[r] # "off" => name[r] \in Branches
      /\ \A r \in Calls : InitHolds(r) /\ ArchiveHolds(r)
      /\ \A b \in Branches : dir[b] => reg[b] # NoPort
    BY SettingsAssumption DEF Next, RegInv, RegType, Serial, Held
<1>1. /\ LocalTypes /\ Distinct
      /\ \A s \in servers : Placed(s)
      /\ \A r \in setting.calls : CallKnows(r)
    BY DEF Kept
<1>2. ASSUME NEW r \in setting.calls, NEW b \in setting.branches, NEW n \in 0 .. MaxStandbys, PgInit(r, b, n)
      PROVE Kept'
  <2> USE <1>0, <1>2 DEF PgInit, Goto
  <2>1. LocalTypes' /\ Distinct'
    BY <1>1 DEF LocalTypes, Distinct
  <2>2. \A s \in servers' : Placed(s)'
    BY <1>1 DEF Placed, Housed, HasInstance
  <2>3. \A c \in setting.calls : CallKnows(c)'
    BY <1>1 DEF CallKnows, InitPcs, Instances, LocalTypes
  <2> QED BY <2>1, <2>2, <2>3 DEF Kept
<1>3. ASSUME NEW r \in setting.calls, NEW b \in setting.branches, StartArchive(r, b)
      PROVE Kept'
  <2> USE <1>0, <1>3 DEF StartArchive, Goto
  <2>1. LocalTypes' /\ Distinct'
    BY <1>1 DEF LocalTypes, Distinct
  <2>2. \A s \in servers' : Placed(s)'
    <3>1. UNCHANGED <<dir, conf, data, reg>> /\ servers' = ListedIn(b, standbys[b])
      OBVIOUS
    <3> SUFFICES ASSUME NEW s \in servers' PROVE Placed(s)'
        OBVIOUS
    <3>2. PICK t \in servers :
               /\ Shaped(s) /\ s.branch = t.branch /\ s.inst = t.inst /\ s.port = t.port
               /\ s.here = t.here
               /\ ~s.here => ~s.listed
      BY <1>1, <3>1, MarkedAtStart
    <3> QED BY <1>1, <3>1, <3>2 DEF Placed, Housed, HasInstance
  <2>3. CallKnows(r)'
    <3> DEFINE S == standbys[b]
    <3>1. S \in SUBSET Instances
      BY <1>1 DEF LocalTypes
    <3> DEFINE q == On("stop", Descending(S))
    <3>2. q \in Seq(Acts \X Instances) /\ \A i \in S : \E k \in 1 .. Len(q) : q[k][2] = i
      BY <3>1, StopsAllListed
    <3>3. queue'[r] = q /\ name'[r] = b /\ pc'[r] = "stopstandby"
      BY <1>1 DEF LocalTypes
    <3>4. \A s \in servers' : s.branch = b /\ s.listed /\ s.inst # 0 => s.inst \in S
      BY <1>1, MarkedAtStart DEF S
    <3> HIDE DEF S, q
    <3>5. \A s \in servers' : s.branch = name'[r] /\ s.listed /\ s.inst # 0
              => \E k \in 1 .. Len(queue'[r]) : queue'[r][k][2] = s.inst
      BY <3>2, <3>3, <3>4
    <3>6. queue'[r] \in Seq(Acts \X Instances)
      BY <3>2, <3>3
    <3> QED BY <3>3, <3>5, <3>6 DEF CallKnows, InitPcs
  <2> QED BY <2>1, <2>2, <2>3 DEF Kept
<1>4. ASSUME NEW r \in setting.calls, NEW b \in setting.branches, NEW i \in Instances,
             PgStart(r, b, i) \/ PgStop(r, b, i)
      PROVE Kept'
  <2> USE <1>0
  <2>1. LocalTypes' /\ Distinct'
    BY <1>1, <1>4 DEF LocalTypes, Distinct, PgStart, PgStop
  <2>2. \A s \in servers' : Placed(s)'
    <3>1. CASE PgStart(r, b, i)
      <4>1. reg[b] \in Ports /\ PortOf(b, i) = StandbyPort(reg[b], i)
        BY <1>1, <3>1 DEF PgStart, PortOf, LocalTypes, Startable
      <4> QED BY <1>1, <3>1, <4>1 DEF PgStart, Startable, Server, Shaped, Placed, Housed, HasInstance
    <3>2. CASE PgStop(r, b, i)
      BY <1>1, <3>2 DEF PgStop, Without, Placed, Housed, HasInstance
    <3> QED BY <1>4, <3>1, <3>2
  <2>3. \A c \in setting.calls : CallKnows(c)'
    BY <1>1, <1>4 DEF PgStart, PgStop, CallKnows, InitPcs
  <2> QED BY <2>1, <2>2, <2>3 DEF Kept
<1>5. ASSUME NEW r \in setting.calls, NEW b \in setting.branches, NEW action, ClusterAction(r, b, action)
      PROVE Kept'
  <2> USE <1>0, <1>5 DEF ClusterAction, Goto
  <2>1. LocalTypes' /\ Distinct'
    BY <1>1 DEF LocalTypes, Distinct
  <2>2. \A s \in servers' : Placed(s)'
    BY <1>1 DEF Placed, Housed, HasInstance
  <2>3. CallKnows(r)'
    <3>1. standbys[b] \in SUBSET Instances /\ reg[b] \in Ports
      BY <1>1 DEF LocalTypes
    <3>2. ClusterQueue(b, action) \in Seq(Acts \X Instances)
      BY <3>1, ClusterQueueTyped
    <3> QED BY <1>1, <3>1, <3>2 DEF CallKnows, InitPcs, LocalTypes
  <2> QED BY <2>1, <2>2, <2>3 DEF Kept
<1>6. ASSUME NEW r \in setting.calls, InitStep(r)
      PROVE Kept'
  <2> USE <1>0
  <2>0. /\ LocalTypes /\ Distinct /\ CallKnows(r) /\ r \in Calls
        /\ \A s \in servers : Placed(s)
    BY <1>1
  <2>1. CASE Allocate(r)
    <3>1. PICK q \in FreePorts : /\ reg' = [Pruned EXCEPT ![name[r]] = q]
                                 /\ port' = [port EXCEPT ![r] = q]
        BY <2>1 DEF Allocate
    <3>2. q \in Ports /\ q # NoPort /\ \A b \in Branches : Pruned[b] # q
        BY PortsAssumption DEF FreePorts, Ports
    <3>3. name[r] \in Branches /\ ~dir[name[r]]
        BY <2>1 DEF Allocate
    <3>4. LocalTypes' /\ Distinct'
        BY <2>0, <2>1, <3>1, <3>2, <3>3 DEF Allocate, LocalTypes, Distinct, Pruned
    <3>5. \A s \in servers' : Placed(s)'
        BY <2>0, <2>1, <3>1, <3>3 DEF Allocate, Goto, Placed, Housed, HasInstance, Pruned, LocalTypes
    <3>6. CallKnows(r)'
        BY <2>0, <2>1, <3>1, <3>2, <3>3 DEF Allocate, Goto, CallKnows, InitPcs, Pruned, LocalTypes
    <3> QED BY <3>4, <3>5, <3>6 DEF Kept
  <2>2. CASE AllocateRaises(r)
    <3>4. LocalTypes' /\ Distinct'
        BY <2>0, <2>2 DEF AllocateRaises, Leave, LocalTypes, Distinct, Pruned
    <3>5. \A s \in servers' : Placed(s)'
        BY <2>0, <2>2 DEF AllocateRaises, Leave, Goto, Placed, Housed, HasInstance, Pruned, LocalTypes
    <3>6. CallKnows(r)'
        BY <2>2 DEF AllocateRaises, Leave, Goto, CallKnows, InitPcs
    <3> QED BY <3>4, <3>5, <3>6 DEF Kept
  <2>3. CASE Mkdir(r) \/ Worktree(r) \/ Build(r)
    <3>1. reg[name[r]] \in Ports /\ port[r] = reg[name[r]] /\ port[r] # NoPort /\ name[r] \in Branches
        BY <2>0, <2>3, PortsAssumption DEF Mkdir, Worktree, Build, CallKnows, InitPcs, Ports
    <3>4. LocalTypes' /\ Distinct'
        BY <2>0, <2>3, <3>1 DEF Mkdir, Worktree, Build, LocalTypes, Distinct
    <3>5. \A s \in servers' : Placed(s)'
        BY <2>0, <2>3, <3>1 DEF Mkdir, Worktree, Build, Goto, Placed, Housed, HasInstance, LocalTypes
    <3>6. CallKnows(r)'
        BY <2>0, <2>3, <3>1 DEF Mkdir, Worktree, Build, Goto, CallKnows, InitPcs
    <3> QED BY <3>4, <3>5, <3>6 DEF Kept
  <2>4. CASE InitDb(r)
    <3>1. reg[name[r]] \in Ports /\ port[r] = reg[name[r]] /\ name[r] \in Branches /\ want[r] \in Instances
        BY <2>0, <2>4 DEF InitDb, CallKnows, InitPcs
    <3>2. StandbyPort(port[r], 0) = port[r]
        BY <3>1, PortsAssumption DEF StandbyPort, Ports
    <3>3. 0 \in Instances
        BY PortsAssumption DEF Instances
    <3>4. LocalTypes' /\ Distinct'
        BY <2>0, <2>4, <3>3 DEF InitDb, Made, LocalTypes, Distinct
    <3>5. \A s \in servers' : Placed(s)'
        BY <2>0, <2>4, <3>1, <3>2, <3>3
           DEF InitDb, Made, Started, AfterStandby, Goto, Server, Shaped, Placed, Housed, HasInstance, LocalTypes
    <3>6. CallKnows(r)'
      <4>1. [i \in 1 .. want[r] |-> <<"create", i>>] \in Seq(Acts \X (Instances \ {0}))
        BY <3>1, CreatesAllWanted
      <4>2. queue'[r] = [i \in 1 .. want[r] |-> <<"create", i>>]
        BY <2>0, <2>4 DEF InitDb, LocalTypes
      <4>3. pc'[r] = (IF queue'[r] = <<>> THEN "tmux" ELSE "standby")
        BY <2>4 DEF InitDb, AfterStandby, Goto
      <4> QED BY <2>4, <3>1, <4>1, <4>2, <4>3 DEF InitDb, CallKnows, InitPcs
    <3> QED BY <3>4, <3>5, <3>6 DEF Kept
  <2>5. CASE CreateStandby(r)
    <3>0. PICK i, b, q : i = Head(queue[r])[2] /\ b = name[r] /\ q = StandbyPort(port[r], i)
        OBVIOUS
    <3>1. reg[b] \in Ports /\ port[r] = reg[b] /\ b \in Branches /\ want[r] \in Instances
        BY <2>0, <2>5, <3>0 DEF CreateStandby, CallKnows, InitPcs
    <3>2. i \in Instances /\ i # 0
        BY <2>0, <2>5, <3>0, HeadTailProperties DEF CreateStandby, CallKnows
    <3>3. dir[b] /\ conf[b] # NoPort
        BY <2>5, <3>0 DEF CreateStandby, Made
    <3>4. /\ data' = [data EXCEPT ![b] = @ \cup {i}]
          /\ servers' = servers \cup {Server(b, i, q)}
          /\ pc[r] = "standby" /\ pc' = [pc EXCEPT ![r] = "addrow"]
          /\ UNCHANGED <<dir, conf, reg, standbys, name, port, want, queue>>
        BY <2>5, <3>0 DEF CreateStandby, Made, Started, Goto
    <3>5. LocalTypes' /\ Distinct'
        BY <2>0, <3>2, <3>4 DEF LocalTypes, Distinct
    <3>6. \A s \in servers' : Placed(s)'
      <4>1. \A s \in servers : Placed(s)'
        BY <2>0, <3>2, <3>4 DEF Placed, Housed, HasInstance, LocalTypes
      <4>2. Placed(Server(b, i, q))'
        BY <2>0, <3>0, <3>1, <3>2, <3>3, <3>4 DEF Placed, Housed, Server, Shaped, HasInstance, LocalTypes
      <4> QED BY <3>4, <4>1, <4>2
    <3>7. CallKnows(r)'
        BY <2>0, <3>1, <3>4 DEF CallKnows, InitPcs
    <3> QED BY <3>5, <3>6, <3>7 DEF Kept
  <2>6. CASE AddStandby(r)
    <3> DEFINE i == Head(queue[r])[2]
    <3>1. /\ queue[r] # <<>> /\ queue[r] \in Seq(Acts \X (Instances \ {0})) /\ want[r] \in Instances
          /\ port[r] = reg[name[r]] /\ reg[name[r]] \in Ports
        BY <2>0, <2>6 DEF AddStandby, CallKnows, InitPcs
    <3>2. i \in Instances \ {0} /\ Tail(queue[r]) \in Seq(Acts \X (Instances \ {0}))
        BY <3>1, HeadTailProperties
    <3> HIDE DEF i
    <3>3. /\ standbys' = [standbys EXCEPT ![name[r]] = @ \cup {i}]
          /\ queue' = [queue EXCEPT ![r] = Tail(@)]
          /\ pc[r] = "addrow"
          /\ pc' = [pc EXCEPT ![r] = IF queue'[r] = <<>> THEN "tmux" ELSE "standby"]
          /\ UNCHANGED <<dir, conf, data, reg, servers, name, port, want>>
        BY <2>6 DEF AddStandby, AfterStandby, Goto, i
    <3>4. LocalTypes' /\ Distinct'
        BY <2>0, <3>2, <3>3 DEF LocalTypes, Distinct
    <3>6. \A s \in servers' : Placed(s)'
        BY <2>0, <3>3 DEF Placed, Housed, HasInstance, LocalTypes
    <3>7. CallKnows(r)'
        BY <2>0, <3>1, <3>2, <3>3 DEF CallKnows, InitPcs, LocalTypes
    <3> QED BY <3>4, <3>6, <3>7 DEF Kept
  <2>7. CASE InitDone(r)
    <3>4. LocalTypes' /\ Distinct'
        BY <2>0, <2>7 DEF InitDone, Leave, LocalTypes, Distinct
    <3>5. \A s \in servers' : Placed(s)'
        BY <2>0, <2>7 DEF InitDone, Leave, Goto, Placed, Housed, HasInstance
    <3>6. CallKnows(r)'
        BY <2>7 DEF InitDone, Leave, Goto, CallKnows, InitPcs
    <3> QED BY <3>4, <3>5, <3>6 DEF Kept
  <2>8. CASE InitRaises(r)
    <3>1. PICK b, i, q : /\ b = name[r] /\ i = IF pc[r] = "standby" THEN Head(queue[r])[2] ELSE 0
                         /\ q = StandbyPort(port[r], i)
        OBVIOUS
    <3>2. b \in Branches /\ i \in Instances
      <4>1. 0 \in Instances
        BY PortsAssumption DEF Instances
      <4>2. ASSUME pc[r] = "standby" PROVE Head(queue[r])[2] \in Instances
        BY <2>0, <4>2, HeadTailProperties DEF CallKnows
      <4> QED BY <2>8, <3>1, <4>1, <4>2 DEF InitRaises, InitPcs
    <3>3. pc[r] \in {"initdb", "standby"} => port[r] = reg[b] /\ reg[b] \in Ports
        BY <2>0, <3>1 DEF CallKnows, InitPcs
    <3>4. pc[r] = "initdb" => q = port[r]
        BY <3>1, <3>3, PortsAssumption DEF StandbyPort, Ports
    <3>5. /\ \/ data' = data
             \/ Made(b, i) /\ pc[r] \in {"initdb", "standby"}
          /\ \/ servers' \subseteq servers
             \/ Made(b, i) /\ Started(b, i, q) /\ pc[r] \in {"initdb", "standby"}
          /\ pc' = [pc EXCEPT ![r] = "off"]
          /\ UNCHANGED <<dir, conf, reg, standbys>>
        BY <2>8, <3>1, <3>4 DEF InitRaises, Leave, Goto, Without
    <3>6. LocalTypes' /\ Distinct'
      <4>1. data' \in [Branches -> SUBSET Instances]
        BY <2>0, <3>2, <3>5 DEF Made, LocalTypes
      <4> QED BY <2>0, <2>8, <4>1 DEF InitRaises, Leave, LocalTypes, Distinct
    <3>7. \A s \in servers' : Placed(s)'
      <4>1. \A s \in servers : Placed(s)'
        BY <2>0, <3>2, <3>5 DEF Made, Placed, Housed, HasInstance, LocalTypes
      <4>2. ASSUME Made(b, i), pc[r] \in {"initdb", "standby"} PROVE Placed(Server(b, i, q))'
        <5>1. /\ dir'[b] /\ conf'[b] # NoPort /\ i \in data'[b]
              /\ reg'[b] \in Ports /\ q = StandbyPort(reg'[b], i)
          BY <2>0, <3>1, <3>2, <3>3, <3>5, <4>2 DEF Made, LocalTypes
        <5> QED BY <3>2, <5>1 DEF Placed, Housed, Server, Shaped, HasInstance
      <4> QED BY <3>5, <4>1, <4>2 DEF Started
    <3>8. CallKnows(r)'
        BY <3>5 DEF CallKnows, InitPcs
    <3> QED BY <3>6, <3>7, <3>8 DEF Kept
  <2> QED BY <1>6, <2>1, <2>2, <2>3, <2>4, <2>5, <2>6, <2>7, <2>8 DEF InitStep
<1>7. ASSUME NEW r \in setting.calls, ArchiveStep(r)
      PROVE Kept'
  <2> USE <1>0
  <2>0. /\ LocalTypes /\ Distinct /\ CallKnows(r) /\ r \in Calls
        /\ \A s \in servers : Placed(s)
    BY <1>1
  <2>1. CASE StopStandby(r)
    <3>0. PICK q, i : q = queue[r] /\ i = Head(queue[r])[2]
        OBVIOUS
    <3>1. /\ pc[r] = "stopstandby" /\ q # <<>> /\ q \in Seq(Acts \X Instances)
          /\ \A s \in servers : s.branch = name[r] /\ s.listed /\ s.inst # 0
                 => \E k \in 1 .. Len(q) : q[k][2] = s.inst
        BY <2>0, <2>1, <3>0 DEF StopStandby, CallKnows
    <3>2. /\ Tail(q) \in Seq(Acts \X Instances) /\ Head(q) = q[1]
          /\ Len(q) \in Nat /\ Len(Tail(q)) = Len(q) - 1
          /\ \A k \in 1 .. Len(Tail(q)) : Tail(q)[k] = q[k + 1]
        BY <3>1, HeadTailProperties, LenProperties
    <3>3. \/ servers' = Without(name[r], i)
          \/ ~HasInstance(name[r], i) /\ servers' = servers
          \/ servers' = StillUp(name[r], i)
        BY <2>1, <3>0 DEF StopStandby
    <3>10. \A s \in servers' : s.listed =>
               s \in servers /\ ~(s.branch = name[r] /\ s.inst = i)
      <4>1. CASE servers' = StillUp(name[r], i)
        BY <2>0, <4>1, UnmarkedStillUp DEF Is, Placed
      <4>2. CASE servers' # StillUp(name[r], i)
        BY <2>0, <3>3, <4>2 DEF Without, Is, Placed, Housed
      <4> QED BY <4>1, <4>2
    <3>4. queue' = [queue EXCEPT ![r] = Tail(q)] /\ UNCHANGED <<dir, conf, data, reg, standbys, pc, name, port, want>>
        BY <2>1, <3>0 DEF StopStandby
    <3>5. LocalTypes' /\ Distinct'
        BY <2>0, <3>4 DEF LocalTypes, Distinct
    <3>6. \A s \in servers' : Placed(s)'
      <4> SUFFICES ASSUME NEW s \in servers' PROVE Placed(s)'
          OBVIOUS
      <4>1. PICK t \in servers :
                /\ Shaped(s) /\ s.branch = t.branch /\ s.inst = t.inst /\ s.port = t.port
                /\ s.here = t.here /\ (s.listed => t.listed)
        <5>1. CASE servers' = StillUp(name[r], i)
          BY <2>0, <5>1, UnmarkedStillUp
        <5>2. CASE servers' # StillUp(name[r], i)
          BY <2>0, <3>3, <5>2 DEF Without, Placed
        <5> QED BY <5>1, <5>2
      <4> QED BY <2>0, <3>4, <4>1 DEF Placed, Housed, HasInstance
    <3>7. \A s \in servers' : s.branch = name[r] /\ s.listed /\ s.inst # 0
             => \E k \in 1 .. Len(Tail(q)) : Tail(q)[k][2] = s.inst
      <4> SUFFICES ASSUME NEW s \in servers', s.branch = name[r], s.listed, s.inst # 0
                   PROVE  \E k \in 1 .. Len(Tail(q)) : Tail(q)[k][2] = s.inst
          OBVIOUS
      <4>1. PICK k \in 1 .. Len(q) : q[k][2] = s.inst
          BY <3>1, <3>10
      <4>2. k # 1
          BY <3>0, <3>2, <3>10, <4>1
      <4>3. k - 1 \in 1 .. Len(Tail(q)) /\ Tail(q)[k - 1] = q[k]
        <5>1. k - 1 \in 1 .. Len(Tail(q)) /\ (k - 1) + 1 = k
          BY <3>2, <4>1, <4>2
        <5> QED BY <3>2, <5>1
      <4> QED BY <4>1, <4>3
    <3>8. queue'[r] = Tail(q) /\ name' = name /\ pc' = pc
        BY <2>0, <3>4 DEF LocalTypes
    <3>9. CallKnows(r)'
        BY <3>1, <3>2, <3>7, <3>8 DEF CallKnows, InitPcs
    <3> QED BY <3>5, <3>6, <3>9 DEF Kept
  <2>2. CASE StandbysDone(r)
    <3>1. LocalTypes' /\ Distinct'
        BY <2>0, <2>2 DEF StandbysDone, LocalTypes, Distinct
    <3>2. \A s \in servers' : Placed(s)'
        BY <2>0, <2>2 DEF StandbysDone, Goto, Placed, Housed, HasInstance, LocalTypes
    <3>3. CallKnows(r)'
        BY <2>0, <2>2 DEF StandbysDone, Goto, CallKnows, InitPcs, LocalTypes
    <3> QED BY <3>1, <3>2, <3>3 DEF Kept
  <2>3. CASE StopPrimary(r)
    <3>1. LocalTypes' /\ Distinct'
        BY <2>0, <2>3 DEF StopPrimary, LocalTypes, Distinct
    <3>0. /\ pc[r] = "stopprimary" /\ servers' \subseteq servers
          /\ UNCHANGED <<dir, conf, data, reg, standbys, name, queue>>
        BY <2>3 DEF StopPrimary, Without
    <3>2. \A s \in servers' : Placed(s)'
        BY <2>0, <3>0 DEF Placed, Housed, HasInstance
    <3>3. CallKnows(r)'
      <4>1. ASSUME NEW s \in servers, s.branch = name[r], s.listed PROVE s \notin servers'
        <5>1. s.inst = 0 /\ s.here /\ HasInstance(name[r], 0)
            BY <2>0, <3>0, <4>1 DEF CallKnows, Placed, Housed
        <5> QED BY <2>3, <4>1, <5>1 DEF StopPrimary, Without, Is
      <4>2. pc'[r] = "move"
          BY <2>3 DEF StopPrimary, Goto
      <4> QED BY <3>0, <4>1, <4>2 DEF CallKnows, InitPcs
    <3> QED BY <3>1, <3>2, <3>3 DEF Kept
  <2>4. CASE Move(r)
    <3>1. LocalTypes' /\ Distinct'
        BY <2>0, <2>4 DEF Move, LocalTypes, Distinct
    <3>0. \A s \in servers : s.branch = name[r] => ~s.listed
        BY <2>0, <2>4 DEF Move, CallKnows
    <3>2. \A s \in servers' : Placed(s)'
      <4>1. ASSUME NEW s \in servers, s.branch = name[r] PROVE Placed([s EXCEPT !.here = FALSE])'
        BY <2>0, <3>0, <4>1, MovedFields DEF Placed
      <4>2. ASSUME NEW s \in servers, s.branch # name[r] PROVE Placed(s)'
        BY <2>0, <2>4, <4>2 DEF Move, Placed, Housed, HasInstance, LocalTypes
      <4> QED BY <2>4, <4>1, <4>2 DEF Move
    <3>3. CallKnows(r)'
        BY <2>0, <2>4 DEF Move, Goto, CallKnows, InitPcs, LocalTypes
    <3> QED BY <3>1, <3>2, <3>3 DEF Kept
  <2>5. CASE Push(r)
    <3>1. LocalTypes' /\ Distinct'
        BY <2>0, <2>5 DEF Push, LocalTypes, Distinct
    <3>2. \A s \in servers' : Placed(s)'
        BY <2>0, <2>5 DEF Push, Goto, Placed, Housed, HasInstance, LocalTypes
    <3>3. CallKnows(r)'
        BY <2>0, <2>5 DEF Push, Goto, CallKnows, InitPcs, LocalTypes
    <3> QED BY <3>1, <3>2, <3>3 DEF Kept
  <2>6. CASE RemovePortEntry(r)
    <3>1. LocalTypes' /\ Distinct'
        BY <2>0, <2>6 DEF RemovePortEntry, LocalTypes, Distinct
    <3>0. \A s \in servers : s.branch = name[r] => ~s.here
        BY <2>0, <2>6 DEF RemovePortEntry, CallKnows, Placed, Housed, HasInstance
    <3>2. \A s \in servers' : Placed(s)'
        BY <2>0, <2>6, <3>0 DEF RemovePortEntry, Goto, Placed, Housed, HasInstance, LocalTypes
    <3>3. CallKnows(r)'
        BY <2>0, <2>6 DEF RemovePortEntry, Goto, CallKnows, InitPcs, LocalTypes
    <3> QED BY <3>1, <3>2, <3>3 DEF Kept
  <2>7. CASE RemoveStandbys(r)
    <3>1. LocalTypes' /\ Distinct'
        BY <2>0, <2>7 DEF RemoveStandbys, LocalTypes, Distinct
    <3>0. \A s \in servers : s.branch = name[r] => ~s.here
        BY <2>0, <2>7 DEF RemoveStandbys, CallKnows, Placed, Housed, HasInstance
    <3>2. \A s \in servers' : Placed(s)'
        BY <2>0, <2>7, <3>0 DEF RemoveStandbys, Goto, Placed, Housed, HasInstance, LocalTypes
    <3>3. CallKnows(r)'
        BY <2>0, <2>7 DEF RemoveStandbys, Goto, CallKnows, InitPcs, LocalTypes
    <3> QED BY <3>1, <3>2, <3>3 DEF Kept
  <2>8. CASE SetArchived(r)
    <3>1. LocalTypes' /\ Distinct'
        BY <2>0, <2>8 DEF SetArchived, Leave, LocalTypes, Distinct
    <3>2. \A s \in servers' : Placed(s)'
        BY <2>0, <2>8 DEF SetArchived, Leave, Goto, Placed, Housed, HasInstance, LocalTypes
    <3>3. CallKnows(r)'
        BY <2>0, <2>8 DEF SetArchived, Leave, Goto, CallKnows, InitPcs, LocalTypes
    <3> QED BY <3>1, <3>2, <3>3 DEF Kept
  <2>9. CASE ArchiveRaises(r)
    <3>1. LocalTypes' /\ Distinct'
        BY <2>0, <2>9 DEF ArchiveRaises, Leave, LocalTypes, Distinct
    <3>2. \A s \in servers' : Placed(s)'
        BY <2>0, <2>9 DEF ArchiveRaises, Leave, Goto, Placed, Housed, HasInstance, LocalTypes
    <3>3. CallKnows(r)'
        BY <2>0, <2>9 DEF ArchiveRaises, Leave, Goto, CallKnows, InitPcs, LocalTypes
    <3> QED BY <3>1, <3>2, <3>3 DEF Kept
  <2> QED BY <1>7, <2>1, <2>2, <2>3, <2>4, <2>5, <2>6, <2>7, <2>8, <2>9 DEF ArchiveStep
<1>8. ASSUME NEW r \in setting.calls, ClusterStep(r) \/ ClusterRaises(r) \/ ClusterDone(r)
      PROVE Kept'
  <2> USE <1>0
  <2>0. /\ LocalTypes /\ Distinct /\ CallKnows(r) /\ r \in Calls
        /\ \A s \in servers : Placed(s)
    BY <1>1
  <2>1. CASE ClusterStep(r)
    <3>0. PICK q, i, b, p : /\ q = queue[r] /\ i = Head(queue[r])[2] /\ b = name[r]
                           /\ p = StandbyPort(port[r], i)
        OBVIOUS
    <3>1. /\ pc[r] = "cluster" /\ q # <<>> /\ b \in Branches
          /\ port[r] = reg[b] /\ reg[b] \in Ports /\ q \in Seq(Acts \X Instances)
        BY <2>0, <2>1, <3>0 DEF ClusterStep, CallKnows
    <3>2. i \in Instances /\ Tail(q) \in Seq(Acts \X Instances)
        BY <3>0, <3>1, HeadTailProperties
    <3>4. queue' = [queue EXCEPT ![r] = Tail(q)] /\ UNCHANGED <<dir, conf, data, reg, standbys, pc, name, port, want>>
        BY <2>1, <3>0 DEF ClusterStep
    <3>5. servers' \subseteq servers \/ (Startable(b, i, p) /\ servers' = servers \cup {Server(b, i, p)})
        BY <2>1, <3>0 DEF ClusterStep, Without
    <3>6. LocalTypes' /\ Distinct'
        BY <2>0, <3>4 DEF LocalTypes, Distinct
    <3>7. \A s \in servers : Placed(s)'
        BY <2>0, <3>1, <3>4 DEF Placed, Housed, HasInstance
    <3>8. Startable(b, i, p) => Placed(Server(b, i, p))'
        BY <3>0, <3>1, <3>2, <3>4 DEF Startable, Server, Shaped, Placed, Housed, HasInstance
    <3>9. CallKnows(r)'
        BY <2>0, <3>0, <3>1, <3>2, <3>4 DEF CallKnows, InitPcs, LocalTypes
    <3> QED BY <3>5, <3>6, <3>7, <3>8, <3>9 DEF Kept
  <2>2. CASE ClusterRaises(r) \/ ClusterDone(r)
    <3>0. PICK i, b, p : i = Head(queue[r])[2] /\ b = name[r] /\ p = StandbyPort(port[r], i)
        OBVIOUS
    <3>1. LocalTypes' /\ Distinct'
        BY <2>0, <2>2 DEF ClusterRaises, ClusterDone, Leave, LocalTypes, Distinct
    <3>2. \/ servers' = servers
          \/ Startable(b, i, p) /\ queue[r] # <<>> /\ servers' = servers \cup {Server(b, i, p)}
        BY <2>2, <3>0 DEF ClusterRaises, ClusterDone
    <3>3. pc[r] = "cluster" /\ UNCHANGED <<dir, conf, data, reg>>
        BY <2>2 DEF ClusterRaises, ClusterDone
    <3>4. \A s \in servers : Placed(s)'
        BY <2>0, <3>3 DEF Placed, Housed, HasInstance
    <3>5. Startable(b, i, p) /\ queue[r] # <<>> => Placed(Server(b, i, p))'
      <4>1. ASSUME queue[r] # <<>> PROVE i \in Instances
          BY <2>0, <3>0, <3>3, <4>1, HeadTailProperties DEF CallKnows
      <4>2. port[r] = reg[b] /\ reg[b] \in Ports /\ b \in Branches
          BY <2>0, <3>0, <3>3 DEF CallKnows
      <4> QED BY <3>0, <3>3, <4>1, <4>2 DEF Startable, Server, Shaped, Placed, Housed, HasInstance
    <3>6. CallKnows(r)'
        BY <2>2 DEF ClusterRaises, ClusterDone, Leave, Goto, CallKnows, InitPcs
    <3> QED BY <3>1, <3>2, <3>4, <3>5, <3>6 DEF Kept
  <2> QED BY <1>8, <2>1, <2>2
<1>9. CASE SyncBranches
  BY <1>9, <1>0, Untouched DEF SyncBranches
<1>10. ASSUME NEW b \in setting.branches, DeleteRow(b) PROVE Kept'
  <2>1. UNCHANGED <<dir, conf, data, reg, servers, pc, name, port, want, queue>>
    BY <1>10 DEF DeleteRow
  <2>2. LocalTypes' /\ Distinct'
    BY <1>1, <1>10, <2>1 DEF DeleteRow, LocalTypes, Distinct
  <2>3. \A s \in servers' : Placed(s)'
    BY <1>1, <2>1 DEF Placed, Housed, HasInstance
  <2>4. \A r \in setting.calls : CallKnows(r)'
    BY <1>1, <2>1 DEF CallKnows
  <2> QED BY <1>0, <2>2, <2>3, <2>4 DEF Kept
<1>11. CASE Restart
  <2>1. /\ servers' \subseteq servers /\ \A r \in setting.calls : pc'[r] = "off"
        /\ UNCHANGED <<dir, conf, data, reg>>
    BY <1>0, <1>11 DEF Restart
  <2>2. LocalTypes' /\ Distinct'
    BY <1>1, <1>11 DEF Restart, LocalTypes, Distinct
  <2>3. \A r \in setting.calls : CallKnows(r)'
    BY <2>1 DEF CallKnows, InitPcs
  <2>4. \A s \in servers' : Placed(s)'
    BY <1>1, <2>1 DEF Placed, Housed, HasInstance
  <2> QED BY <1>0, <2>2, <2>3, <2>4 DEF Kept
<1> QED BY <1>2, <1>3, <1>4, <1>5, <1>6, <1>7, <1>8, <1>9, <1>10, <1>11 DEF Next

\* Every step keeps the invariant; nothing is claimed when calls overlap.
LEMMA ServStep ==
    ASSUME ServInv, [Next]_vars
    PROVE  ServInv'
<1>1. CASE Next
  <2>1. Serial' => Serial
    BY <1>1 DEF Next, Serial
  <2> QED BY <1>1, <2>1, RegStep, KeptStep DEF ServInv
<1>2. CASE UNCHANGED vars
  <2>1. RegInv'
    BY <1>2, RegStep DEF ServInv
  <2>2. Serial' => Serial
    BY <1>2 DEF vars, Serial
  <2>3. Serial => Kept'
    BY <1>2, Untouched DEF ServInv, vars
  <2> QED BY <2>1, <2>2, <2>3 DEF ServInv
<1> QED BY <1>1, <1>2

\* While calls do not overlap, archive_branch leaves no server running in the directory it
\* moves away, but a standby that no row told of or whose stop failed, for every number of
\* branches and standbys and through failures, deleted rows and restarts anywhere.
THEOREM ReachableWhenSerial == Spec => []ServersReachable
<1>1. Init => ServInv BY ServInit
<1>2. ServInv /\ [Next]_vars => ServInv' BY ServStep
<1>3. ServInv => ServersReachable
  BY DEF ServInv, Kept, Placed, ServersReachable
<1> QED BY <1>1, <1>2, <1>3, PTL DEF Spec

\* ... and no server of one branch, standbys included, sits on a port of a branch that
\* exists: the ports computed outside the registry are as distinct as those in it.
THEOREM PortsFreeWhenSerial == Spec => []PortsNotTaken
<1>1. Init => ServInv BY ServInit
<1>2. ServInv /\ [Next]_vars => ServInv' BY ServStep
<1>3. ServInv => PortsNotTaken
  <2> SUFFICES ASSUME Kept, NEW b \in Branches, NEW s \in servers, NEW i \in Instances,
                      dir[b], reg[b] # NoPort, s.branch # b, s.here \/ s.listed,
                      s.port = StandbyPort(reg[b], i)
               PROVE  FALSE
      BY DEF ServInv, PortsNotTaken
  <2>1. s.branch \in Branches /\ s.inst \in Instances /\ reg[s.branch] \in Ports
        /\ s.port = StandbyPort(reg[s.branch], s.inst)
    BY DEF Kept, Placed, Housed
  <2>2. reg[b] \in Ports
    BY DEF Kept, LocalTypes
  <2>3. \A p \in Ports : p \in PrimaryPortMin .. PrimaryPortMax /\ p # NoPort
    BY PortsAssumption DEF Ports
  <2>4. s.inst \in Nat /\ i \in Nat
    BY <2>1, PortsAssumption DEF Instances
  <2>5. reg[b] = reg[s.branch]
    <3>1. reg[b] \in PrimaryPortMin .. PrimaryPortMax /\ reg[s.branch] \in PrimaryPortMin .. PrimaryPortMax
      BY <2>1, <2>2, <2>3
    <3>2. StandbyPort(reg[b], i) = StandbyPort(reg[s.branch], s.inst)
      BY <2>1
    <3> QED BY <3>1, <3>2, <2>4, StandbyPortInjective
  <2> QED BY <2>1, <2>2, <2>3, <2>5 DEF Kept, Distinct
<1> QED BY <1>1, <1>2, <1>3, PTL DEF Spec
-----------------------------------------------------------------------------
(* Types *)

\* A pg_init that makes standbys has one at the head of its list.
QueueTyped(r) ==
    pc[r] \in {"standby", "addrow"} =>
        queue[r] # <<>> /\ queue[r] \in Seq(Acts \X (Instances \ {0}))

\* TypeOK made inductive.
TypeInv == TypeOK /\ DOMAIN queue = Calls /\ \A r \in Calls : QueueTyped(r)

\* The number of a branch's standbys is one that a pg_init may ask for.
LEMMA StandbysCounted ==
    ASSUME NEW S \in SUBSET (Instances \ {0})
    PROVE  Cardinality(S) \in Instances
<1>1. Instances \ {0} = 1 .. MaxStandbys
  BY PortsAssumption DEF Instances
<1>2. IsFiniteSet(1 .. MaxStandbys) /\ Cardinality(1 .. MaxStandbys) = MaxStandbys
  <2>1. 1 \in Int /\ MaxStandbys \in Int /\ MaxStandbys - 1 + 1 = MaxStandbys
    BY PortsAssumption
  <2>2. IsFiniteSet(1 .. MaxStandbys)
    BY <2>1, FS_Interval
  <2>3. Cardinality(1 .. MaxStandbys) = IF 1 > MaxStandbys THEN 0 ELSE MaxStandbys - 1 + 1
    BY <2>1, FS_Interval
  <2> QED BY <2>1, <2>2, <2>3, PortsAssumption
<1>3. IsFiniteSet(S) /\ Cardinality(S) <= MaxStandbys
  <2>1. S \in SUBSET (1 .. MaxStandbys)
    BY <1>1
  <2>2. IsFiniteSet(S) /\ Cardinality(S) <= Cardinality(1 .. MaxStandbys)
    BY <1>2, <2>1, FS_Subset
  <2> QED BY <1>2, <2>2
<1>4. Cardinality(S) \in Nat
  BY <1>3, FS_CardinalityType
<1> QED BY <1>3, <1>4, PortsAssumption DEF Instances

\* Every step keeps the types.
LEMMA TypeStep ==
    ASSUME TypeInv, Next
    PROVE  TypeInv'
<1> USE DEF TypeInv, TypeOK, disk, db, locals
<1>0. /\ setting' = setting /\ setting.calls \subseteq Calls /\ setting.branches \subseteq Branches
      /\ 0 \in Instances
    BY SettingsAssumption, PortsAssumption DEF Next, Instances
<1>1. ASSUME NEW r \in Calls, pc[r] \in {"standby", "addrow"}
      PROVE  Head(queue[r])[2] \in Instances \ {0} /\ Tail(queue[r]) \in Seq(Acts \X (Instances \ {0}))
    BY <1>1, HeadTailProperties DEF QueueTyped
<1>2. ASSUME NEW r \in setting.calls, NEW b \in setting.branches, NEW n \in 0 .. MaxStandbys, PgInit(r, b, n)
      PROVE TypeInv'
    BY <1>0, <1>2 DEF PgInit, Goto, QueueTyped, InitPcs, Instances
<1>3. ASSUME NEW r \in setting.calls, NEW b \in setting.branches, StartArchive(r, b)
      PROVE TypeInv'
  <2>1. Cardinality(standbys[b]) \in Instances
    BY <1>0, StandbysCounted
  <2> QED BY <1>0, <1>3, <2>1 DEF StartArchive, Goto, QueueTyped, ArchivePcs
<1>4. ASSUME NEW r \in setting.calls, NEW b \in setting.branches, NEW i \in Instances,
             PgStart(r, b, i) \/ PgStop(r, b, i)
      PROVE TypeInv'
    BY <1>0, <1>4 DEF PgStart, PgStop, QueueTyped
<1>5. ASSUME NEW r \in setting.calls, NEW b \in setting.branches, NEW action, ClusterAction(r, b, action)
      PROVE TypeInv'
    BY <1>0, <1>5 DEF ClusterAction, Goto, QueueTyped
<1>6. ASSUME NEW r \in setting.calls, InitStep(r)
      PROVE TypeInv'
  <2>1. CASE Allocate(r)
    <3>1. PICK q \in FreePorts : /\ reg' = [Pruned EXCEPT ![name[r]] = q]
                                 /\ port' = [port EXCEPT ![r] = q]
        BY <2>1 DEF Allocate
    <3>2. q \in Ports /\ Pruned \in [Branches -> Ports \cup {NoPort}]
        BY DEF FreePorts, Pruned
    <3> QED BY <1>0, <2>1, <3>1, <3>2 DEF Allocate, Goto, QueueTyped, InitPcs
  <2>2. CASE AllocateRaises(r) BY <1>0, <2>2 DEF AllocateRaises, Leave, Goto, Pruned, QueueTyped
  <2>3. CASE Mkdir(r) BY <1>0, <2>3 DEF Mkdir, Goto, QueueTyped, InitPcs
  <2>4. CASE Worktree(r) BY <1>0, <2>4 DEF Worktree, Goto, QueueTyped, InitPcs
  <2>5. CASE Build(r) BY <1>0, <2>5 DEF Build, Goto, QueueTyped, InitPcs
  <2>6. CASE InitDb(r)
    <3>1. [i \in 1 .. want[r] |-> <<"create", i>>] \in Seq(Acts \X (Instances \ {0}))
      BY <1>0, CreatesAllWanted
    <3>2. pc'[r] = (IF queue'[r] = <<>> THEN "tmux" ELSE "standby")
      BY <1>0, <2>6 DEF InitDb, AfterStandby, Goto
    <3>3. \A q \in Calls : QueueTyped(q)'
      BY <1>0, <2>6, <3>1, <3>2 DEF InitDb, AfterStandby, Goto, QueueTyped
    <3> QED BY <1>0, <2>6, <3>3 DEF InitDb, Made, AfterStandby, Goto, InitPcs
  <2>7. CASE CreateStandby(r)
    <3>1. Head(queue[r])[2] \in Instances
      BY <1>0, <1>1, <2>7 DEF CreateStandby
    <3> QED BY <1>0, <2>7, <3>1 DEF CreateStandby, Made, Goto, QueueTyped, InitPcs
  <2>8. CASE AddStandby(r)
    <3>1. Head(queue[r])[2] \in Instances \ {0} /\ Tail(queue[r]) \in Seq(Acts \X (Instances \ {0}))
      BY <1>0, <1>1, <2>8 DEF AddStandby
    <3>2. queue'[r] = Tail(queue[r]) /\ pc'[r] = (IF queue'[r] = <<>> THEN "tmux" ELSE "standby")
      BY <1>0, <2>8 DEF AddStandby, AfterStandby, Goto
    <3>3. \A q \in Calls : QueueTyped(q)'
      BY <1>0, <2>8, <3>1, <3>2 DEF AddStandby, AfterStandby, Goto, QueueTyped
    <3> QED BY <1>0, <2>8, <3>1, <3>3 DEF AddStandby, AfterStandby, Goto, InitPcs
  <2>9. CASE InitDone(r) BY <1>0, <2>9 DEF InitDone, Leave, Goto, QueueTyped
  <2>10. CASE InitRaises(r)
    <3>1. \/ data' = data
          \/ Made(name[r], 0)
          \/ pc[r] = "standby" /\ Made(name[r], Head(queue[r])[2])
      BY <2>10 DEF InitRaises
    <3>2. data' \in [Branches -> SUBSET Instances]
      BY <1>0, <1>1, <3>1 DEF Made
    <3> QED BY <1>0, <2>10, <3>2 DEF InitRaises, Leave, Goto, QueueTyped
  <2> QED BY <1>6, <2>1, <2>2, <2>3, <2>4, <2>5, <2>6, <2>7, <2>8, <2>9, <2>10 DEF InitStep
<1>7. ASSUME NEW r \in setting.calls, ArchiveStep(r)
      PROVE TypeInv'
  <2> USE DEF QueueTyped, ArchivePcs
  <2>1. CASE StopStandby(r) BY <1>0, <2>1 DEF StopStandby
  <2>2. CASE StandbysDone(r) BY <1>0, <2>2 DEF StandbysDone, Goto
  <2>3. CASE StopPrimary(r) BY <1>0, <2>3 DEF StopPrimary, Goto
  <2>4. CASE Move(r) BY <1>0, <2>4 DEF Move, Goto
  <2>5. CASE Push(r) BY <1>0, <2>5 DEF Push, Goto
  <2>6. CASE RemovePortEntry(r) BY <1>0, <2>6 DEF RemovePortEntry, Goto
  <2>7. CASE RemoveStandbys(r) BY <1>0, <2>7 DEF RemoveStandbys, Goto
  <2>8. CASE SetArchived(r) BY <1>0, <2>8 DEF SetArchived, Leave, Goto
  <2>9. CASE ArchiveRaises(r) BY <1>0, <2>9 DEF ArchiveRaises, Leave, Goto
  <2> QED BY <1>7, <2>1, <2>2, <2>3, <2>4, <2>5, <2>6, <2>7, <2>8, <2>9 DEF ArchiveStep
<1>8. ASSUME NEW r \in setting.calls, ClusterStep(r) \/ ClusterRaises(r) \/ ClusterDone(r)
      PROVE TypeInv'
  <2>1. CASE ClusterStep(r) BY <1>0, <2>1 DEF ClusterStep, QueueTyped
  <2>2. CASE ClusterRaises(r)
    BY <1>0, <2>2 DEF ClusterRaises, Leave, Goto, QueueTyped
  <2>3. CASE ClusterDone(r) BY <1>0, <2>3 DEF ClusterDone, Leave, Goto, QueueTyped
  <2> QED BY <1>8, <2>1, <2>2, <2>3
<1>9. CASE SyncBranches BY <1>0, <1>9 DEF SyncBranches, QueueTyped
<1>10. ASSUME NEW b \in setting.branches, DeleteRow(b)
       PROVE TypeInv'
    BY <1>0, <1>10 DEF DeleteRow, QueueTyped
<1>11. CASE Restart BY <1>0, <1>11 DEF Restart, QueueTyped
<1> QED BY <1>2, <1>3, <1>4, <1>5, <1>6, <1>7, <1>8, <1>9, <1>10, <1>11 DEF Next

\* However calls overlap and wherever a restart ends them, the registry, the build and the
\* calls only hold ports of the range, the rows only indexes that a pg_init may ask for,
\* and a pg_init about to write a standby's row knows which one.
THEOREM TypeCorrect == Spec => []TypeOK
<1>1. Init => TypeInv
  BY PortsAssumption DEF Init, TypeInv, TypeOK, QueueTyped, Instances
<1>2. TypeInv /\ [Next]_vars => TypeInv'
  <2>1. CASE Next
    BY <2>1, TypeStep
  <2>2. CASE UNCHANGED vars
    BY <2>2 DEF vars, TypeInv, TypeOK, QueueTyped
  <2> QED BY <2>1, <2>2
<1> QED BY <1>1, <1>2, PTL DEF Spec, TypeInv
=============================================================================
