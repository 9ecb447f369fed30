----------------------------- MODULE Lifecycle -----------------------------
(***************************************************************************)
(* The life of the development branches: init_branch (lib/init.py),        *)
(* archive_branch (lib/operations.py), the cluster actions of              *)
(* lib/replication.py and the handlers of app.py that start them or touch  *)
(* the same state: the project directories, the port registry, the SQLite  *)
(* rows, the task table, and the PostgreSQL servers, which outlive it all. *)
(*                                                                         *)
(* Every request or pg_init thread is a call `r' that takes one step at a  *)
(* time.  The registry is read and rewritten in one step here (its lock is *)
(* PortLock's subject), and master, which has no worktree of its own, is   *)
(* left to PortLock too.                                                   *)
(***************************************************************************)
EXTENDS Integers, Sequences, FiniteSets

CONSTANTS
    Branches, Calls,
    PrimaryPortMin, PrimaryPortMax, StandbyPortStride,
    MaxStandbys,      \* standbys a pg_init asks for, at most
    NoPort, NoBranch,
    Settings,         \* what is considered together: see setting
    MaxInits          \* bound on the inits and archives that are started

ASSUME PortsAssumption ==
    /\ PrimaryPortMin \in Nat /\ PrimaryPortMax \in Nat /\ StandbyPortStride \in Nat
    /\ PrimaryPortMax - PrimaryPortMin < StandbyPortStride
    /\ NoPort \notin Int /\ MaxStandbys \in Nat

ASSUME SettingsAssumption ==
    \A s \in Settings : s.branches \subseteq Branches /\ s.calls \subseteq Calls

Ports == PrimaryPortMin + 1 .. PrimaryPortMax
Instances == 0 .. MaxStandbys       \* 0: the primary; i: standby i

\* Mutant: standbys sit right above their primary.
NextPort(primary, i) == primary + i

StandbyPort(primary, i) == primary + i * StandbyPortStride

VARIABLES
    setting,    \* fixed by Init: the branches and calls that take part, whether rows are
                \* deleted (DELETE /api/branches/<name>), and the faults: "dashboard",
                \* "host" (restarts), "stop" (pg_ctl stop fails), "push" (git push times
                \* out), "sqlite" (add_standby finds the database locked)
    dir,        \* PGSQL_DIR/<name> exists
    conf,       \* --with-pgport of the installed binaries, or NoPort
    data,       \* instances with a data directory
    reg,        \* port_lock entry of each branch
    row,        \* status in table branches, or "none"
    standbys,   \* indexes in table standbys
    task,       \* pg_init_tasks
    servers,    \* running servers: branch, instance, port, whether its data directory is
                \* still under PGSQL_DIR, and, for the properties only, whether the last
                \* archive of its branch had it on its list and stopped it if it could
    pc, name,   \* next step of each call, and its branch
    port,       \* local variable "port"
    want,       \* number of standbys asked for
    queue,      \* instances still to treat, each with an action
    inits

disk == <<dir, conf, data>>
db == <<row, standbys>>
locals == <<name, port, want, queue>>
vars == <<setting, dir, conf, data, reg, row, standbys, task, servers, pc, name, port, want, queue, inits>>

InitPcs == {"allocate", "mkdir", "worktree", "build", "initdb", "standby", "addrow", "tmux"}
ArchivePcs == {"stopstandby", "stopprimary", "move", "push", "unregister", "unrow", "archived"}

Init ==
    /\ setting \in Settings
    /\ dir = [b \in Branches |-> FALSE]
    /\ conf = [b \in Branches |-> NoPort]
    /\ data = [b \in Branches |-> {}]
    /\ reg = [b \in Branches |-> NoPort]
    /\ row = [b \in Branches |-> "none"]
    /\ standbys = [b \in Branches |-> {}]
    /\ task = [b \in Branches |-> "none"]
    /\ servers = {}
    /\ pc = [r \in Calls |-> "off"]
    /\ name = [r \in Calls |-> NoBranch]
    /\ port = [r \in Calls |-> NoPort]
    /\ want = [r \in Calls |-> 0]
    /\ queue = [r \in Calls |-> <<>>]
    /\ inits = 0

Goto(r, s) == pc' = [pc EXCEPT ![r] = s]
Leave(r) ==
    /\ Goto(r, "off")
    /\ name' = [name EXCEPT ![r] = NoBranch]
    /\ port' = [port EXCEPT ![r] = NoPort]
    /\ want' = [want EXCEPT ![r] = 0]
    /\ queue' = [queue EXCEPT ![r] = <<>>]

-----------------------------------------------------------------------------
(* Servers *)

Server(b, i, q) == [branch |-> b, inst |-> i, port |-> q, here |-> TRUE, listed |-> FALSE]
Is(s, b, i) == s.branch = b /\ s.inst = i /\ s.here
Up(b, i) == \E s \in servers : Is(s, b, i)
Startable(b, i, q) ==
    /\ dir[b] /\ conf[b] # NoPort /\ i \in data[b]
    /\ ~Up(b, i) /\ \A s \in servers : s.port # q
Without(b, i) == {s \in servers : ~Is(s, b, i)}

\* archive_branch has read the rows of the standbys S; the primary needs no row.
ListedIn(b, S) ==
    {IF s.branch = b THEN [s EXCEPT !.listed = s.here /\ s.inst \in {0} \cup S] ELSE s : s \in servers}

\* ... and a stop of standby i has failed unnoticed.
StillUp(b, i) == {IF Is(s, b, i) THEN [s EXCEPT !.listed = FALSE] ELSE s : s \in servers}

\* the path of pg_ctl and of the data directory exist
HasInstance(b, i) == dir[b] /\ conf[b] # NoPort /\ i \in data[b]

-----------------------------------------------------------------------------
(* pg_init *)

\* Mutant: the task table is not looked at.
PgInitAnyway(r, b, n) ==
    /\ pc[r] = "off" /\ inits < MaxInits
    /\ task' = [task EXCEPT ![b] = "running"]
    /\ name' = [name EXCEPT ![r] = b]
    /\ want' = [want EXCEPT ![r] = n]
    /\ Goto(r, "allocate")
    /\ inits' = inits + 1
    /\ UNCHANGED <<disk, reg, db, servers, port, queue>>

\* api_pg_init: 409 while a task of that branch runs
PgInit(r, b, n) ==
    /\ pc[r] = "off" /\ inits < MaxInits
    /\ task[b] # "running"
    /\ task' = [task EXCEPT ![b] = "running"]
    /\ name' = [name EXCEPT ![r] = b]
    /\ want' = [want EXCEPT ![r] = n]
    /\ Goto(r, "allocate")
    /\ inits' = inits + 1
    /\ UNCHANGED <<disk, reg, db, servers, port, queue>>

\* An entry lives as long as its directory.
Pruned == [b \in Branches |-> IF dir[b] THEN reg[b] ELSE NoPort]

\* Mutant: master's port is handed out too.
FreePortsFromMin == (PrimaryPortMin .. PrimaryPortMax) \ {Pruned[b] : b \in Branches}

FreePorts == Ports \ {Pruned[b] : b \in Branches}

\* Mutant: the entry is not appended.
AllocateUnrecorded(r) ==
    /\ pc[r] = "allocate" /\ ~dir[name[r]]
    /\ \E q \in FreePorts :
          /\ \A p \in FreePorts : q <= p
          /\ reg' = Pruned
          /\ port' = [port EXCEPT ![r] = q]
    /\ Goto(r, "mkdir")
    /\ UNCHANGED <<disk, db, task, servers, name, want, queue, inits>>

\* allocate_port: the lowest free port (an entry of the branch itself is pruned with
\* its directory, so there is none to reuse)
Allocate(r) ==
    /\ pc[r] = "allocate" /\ ~dir[name[r]]
    /\ \E q \in FreePorts :
          /\ \A p \in FreePorts : q <= p
          /\ reg' = [Pruned EXCEPT ![name[r]] = q]
          /\ port' = [port EXCEPT ![r] = q]
    /\ Goto(r, "mkdir")
    /\ UNCHANGED <<disk, db, task, servers, name, want, queue, inits>>

AllocateRaises(r) ==
    /\ pc[r] = "allocate" /\ (dir[name[r]] \/ FreePorts = {})
    /\ reg' = Pruned
    /\ task' = [task EXCEPT ![name[r]] = "error"]
    /\ Leave(r)
    /\ UNCHANGED <<disk, db, servers, inits>>

Mkdir(r) ==
    /\ pc[r] = "mkdir"
    /\ dir' = [dir EXCEPT ![name[r]] = TRUE]
    /\ Goto(r, "worktree")
    /\ UNCHANGED <<conf, data, reg, db, task, servers, locals, inits>>

\* setup_worktree, copy_settings: git worktree add makes missing directories
Worktree(r) ==
    /\ pc[r] = "worktree"
    /\ dir' = [dir EXCEPT ![name[r]] = TRUE]
    /\ Goto(r, "build")
    /\ UNCHANGED <<conf, data, reg, db, task, servers, locals, inits>>

\* build_postgres, setup_environment: so does make install
Build(r) ==
    /\ pc[r] = "build"
    /\ dir' = [dir EXCEPT ![name[r]] = TRUE]
    /\ conf' = [conf EXCEPT ![name[r]] = port[r]]
    /\ Goto(r, "initdb")
    /\ UNCHANGED <<data, reg, db, task, servers, locals, inits>>

AfterStandby(r) ==
    IF queue'[r] = <<>> THEN Goto(r, "tmux") ELSE Goto(r, "standby")

\* initdb or pg_basebackup has made the directory of an instance; both refuse one that holds
\* anything.
Made(b, i) ==
    /\ dir[b] /\ conf[b] # NoPort /\ i \notin data[b]
    /\ data' = [data EXCEPT ![b] = @ \cup {i}]

\* ... and its server is up.
Started(b, i, q) ==
    /\ \A s \in servers : s.port # q
    /\ servers' = servers \cup {Server(b, i, q)}

\* init_database: initdb, then pg_ctl start on the allocated port
InitDb(r) ==
    /\ pc[r] = "initdb"
    /\ Made(name[r], 0) /\ Started(name[r], 0, port[r])
    /\ queue' = [queue EXCEPT ![r] = [i \in 1 .. want[r] |-> <<"create", i>>]]
    /\ AfterStandby(r)
    /\ UNCHANGED <<dir, conf, reg, db, task, name, port, want, inits>>

\* create_standby: pg_basebackup from the running primary, then pg_ctl start
CreateStandby(r) ==
    /\ pc[r] = "standby"
    /\ LET b == name[r]
           i == Head(queue[r])[2]
           q == StandbyPort(port[r], i)
       IN Up(b, 0) /\ Made(b, i) /\ Started(b, i, q)
    /\ Goto(r, "addrow")
    /\ UNCHANGED <<dir, conf, reg, db, task, locals, inits>>

\* add_standby: INSERT OR REPLACE
AddStandby(r) ==
    /\ pc[r] = "addrow"
    /\ standbys' = [standbys EXCEPT ![name[r]] = @ \cup {Head(queue[r])[2]}]
    /\ queue' = [queue EXCEPT ![r] = Tail(@)]
    /\ AfterStandby(r)
    /\ UNCHANGED <<disk, reg, row, task, servers, name, port, want, inits>>

\* setup_tmux_claude; set_claude_session_url inserts the row when there is none
InitDone(r) ==
    /\ pc[r] = "tmux"
    /\ \/ row[name[r]] = "none" /\ row' = [row EXCEPT ![name[r]] = "active"]
       \/ UNCHANGED row
    /\ task' = [task EXCEPT ![name[r]] = "done"]
    /\ Leave(r)
    /\ UNCHANGED <<disk, reg, standbys, servers, inits>>

\* A step of init_branch raises: nothing is undone.  The data directory may be there, and
\* the server in it may run: pg_ctl start gave up on it, or CREATE SUBSCRIPTION failed
\* after it.  Before the first standby, the primary's restart may have ended with a stop.
InitRaises(r) ==
    /\ pc[r] \in InitPcs \ {"allocate"}
    /\ \/ UNCHANGED <<data, servers>>
       \/ pc[r] = "initdb" /\ Made(name[r], 0)
          /\ servers' = servers
       \/ pc[r] = "initdb" /\ Made(name[r], 0)
          /\ Started(name[r], 0, port[r])
       \/ LET b == name[r]
              i == Head(queue[r])[2]
          IN /\ pc[r] = "standby" /\ Up(b, 0)
             /\ \/ Made(b, i) /\ servers' = servers
                \/ Made(b, i) /\ Started(b, i, StandbyPort(port[r], i))
                \/ i = 1 /\ servers' = Without(b, 0) /\ UNCHANGED data
    /\ pc[r] = "addrow" => "sqlite" \in setting.faults
    /\ task' = [task EXCEPT ![name[r]] = "error"]
    /\ Leave(r)
    /\ UNCHANGED <<dir, conf, reg, db, inits>>

-----------------------------------------------------------------------------
(* archive_branch *)

\* indexes of S in the order of rank
Ordered(S, Before(_, _)) ==
    [k \in 1 .. Cardinality(S) |->
        CHOOSE i \in S : Cardinality({j \in S : Before(j, i)}) = k - 1]
Ascending(S) == LET Lt(i, j) == i < j IN Ordered(S, Lt)
Descending(S) == LET Gt(i, j) == i > j IN Ordered(S, Gt)
On(action, is) == [k \in DOMAIN is |-> <<action, is[k]>>]

StartArchive(r, b) ==
    /\ pc[r] = "off" /\ inits < MaxInits
    /\ dir[b]
    /\ name' = [name EXCEPT ![r] = b]
    /\ want' = [want EXCEPT ![r] = Cardinality(standbys[b])]
    /\ queue' = [queue EXCEPT ![r] = On("stop", Descending(standbys[b]))]
    /\ servers' = ListedIn(b, standbys[b])
    /\ Goto(r, "stopstandby")
    /\ inits' = inits + 1
    /\ UNCHANGED <<disk, reg, db, task, port>>

StopStandbySkipped(r) ==   \* mutant: standbys are left to the primary's shutdown
    /\ pc[r] = "stopstandby" /\ queue[r] # <<>>
    /\ queue' = [queue EXCEPT ![r] = Tail(@)]
    /\ UNCHANGED <<disk, reg, db, task, servers, pc, name, port, want, inits>>

\* A failed stop of a standby is not noticed.
StopStandby(r) ==
    /\ pc[r] = "stopstandby" /\ queue[r] # <<>>
    /\ LET b == name[r]
           i == Head(queue[r])[2]
       IN \/ HasInstance(b, i) /\ servers' = Without(b, i)
          \/ ~HasInstance(b, i) /\ UNCHANGED servers
          \/ "stop" \in setting.faults /\ servers' = StillUp(b, i)
    /\ queue' = [queue EXCEPT ![r] = Tail(@)]
    /\ UNCHANGED <<disk, reg, db, task, pc, name, port, want, inits>>

StandbysDone(r) ==
    /\ pc[r] = "stopstandby" /\ queue[r] = <<>>
    /\ Goto(r, "stopprimary")
    /\ UNCHANGED <<disk, reg, db, task, servers, locals, inits>>

\* ... and the tmux session is killed
StopPrimary(r) ==
    /\ pc[r] = "stopprimary"
    /\ servers' = IF HasInstance(name[r], 0) THEN Without(name[r], 0) ELSE servers
    /\ Goto(r, "move")
    /\ UNCHANGED <<disk, reg, db, task, locals, inits>>

\* _archive/<name> is replaced; a server goes on in the directory it was started in.
Move(r) ==
    /\ pc[r] = "move" /\ dir[name[r]]
    /\ dir' = [dir EXCEPT ![name[r]] = FALSE]
    /\ conf' = [conf EXCEPT ![name[r]] = NoPort]
    /\ data' = [data EXCEPT ![name[r]] = {}]
    /\ servers' = {IF s.branch = name[r] THEN [s EXCEPT !.here = FALSE] ELSE s : s \in servers}
    /\ Goto(r, "push")
    /\ UNCHANGED <<reg, db, task, locals, inits>>

\* worktree prune, branch -D, push --delete
Push(r) ==
    /\ pc[r] = "push"
    /\ Goto(r, "unregister")
    /\ UNCHANGED <<disk, reg, db, task, servers, locals, inits>>

RemovePortEntry(r) ==
    /\ pc[r] = "unregister"
    /\ reg' = [reg EXCEPT ![name[r]] = NoPort]
    /\ Goto(r, "unrow")
    /\ UNCHANGED <<disk, db, task, servers, locals, inits>>

\* if standby_rows, as read at the start
RemoveStandbys(r) ==
    /\ pc[r] = "unrow"
    /\ standbys' = IF want[r] > 0 THEN [standbys EXCEPT ![name[r]] = {}] ELSE standbys
    /\ Goto(r, "archived")
    /\ UNCHANGED <<disk, reg, row, task, servers, locals, inits>>

\* UPDATE branches: no effect without a row
SetArchived(r) ==
    /\ pc[r] = "archived"
    /\ row' = IF row[name[r]] = "none" THEN row ELSE [row EXCEPT ![name[r]] = "archived"]
    /\ Leave(r)
    /\ UNCHANGED <<disk, reg, standbys, task, servers, inits>>

\* pg_ctl stop fails or times out, the directory is gone, git push times out
ArchiveRaises(r) ==
    /\ \/ pc[r] \in {"stopstandby", "stopprimary"} /\ "stop" \in setting.faults
       \/ pc[r] = "move" /\ ~dir[name[r]]
       \/ pc[r] = "push" /\ "push" \in setting.faults
    /\ Leave(r)
    /\ UNCHANGED <<disk, reg, db, task, servers, inits>>

-----------------------------------------------------------------------------
(* api_pg_ctl and api_cluster_action *)

\* without an entry, the port of postgresql.conf: the default of the build, or the one
\* create_standby wrote there
PortOf(b, i) == StandbyPort(IF reg[b] = NoPort THEN conf[b] ELSE reg[b], i)

\* action "start", which the page offers for the instances it lists
PgStart(r, b, i) ==
    /\ pc[r] = "off" /\ i \in {0} \cup standbys[b]
    /\ Startable(b, i, PortOf(b, i))
    /\ servers' = servers \cup {Server(b, i, PortOf(b, i))}
    /\ UNCHANGED <<disk, reg, db, task, pc, locals, inits>>

PgStop(r, b, i) ==
    /\ pc[r] = "off" /\ i \in {0} \cup standbys[b]
    /\ HasInstance(b, i) /\ Up(b, i)
    /\ servers' = Without(b, i)
    /\ UNCHANGED <<disk, reg, db, task, pc, locals, inits>>

ClusterQueue(b, action) ==
    LET up == On("start", <<0>> \o Ascending(standbys[b]))
        down == On("stop", Descending(standbys[b]) \o <<0>>)
    IN CASE action = "start" -> up
         [] action = "stop" -> down
         [] OTHER -> down \o up          \* restart, and build once make has succeeded

\* 404 without a port entry or a directory
ClusterAction(r, b, action) ==
    /\ pc[r] = "off"
    /\ reg[b] # NoPort /\ dir[b]
    /\ name' = [name EXCEPT ![r] = b]
    /\ port' = [port EXCEPT ![r] = reg[b]]
    /\ queue' = [queue EXCEPT ![r] = ClusterQueue(b, action)]
    /\ Goto(r, "cluster")
    /\ UNCHANGED <<disk, reg, db, task, servers, want, inits>>

\* _pg_ctl_action: an instance that is not there is skipped, a failed stop is ignored,
\* any other failure ends the action
ClusterStep(r) ==
    /\ pc[r] = "cluster" /\ queue[r] # <<>>
    /\ LET b == name[r]
           act == Head(queue[r])[1]
           i == Head(queue[r])[2]
           q == StandbyPort(port[r], i)
       IN \/ ~HasInstance(b, i) /\ UNCHANGED servers
          \/ HasInstance(b, i) /\ act = "stop" /\ servers' = Without(b, i)
          \/ act = "stop" /\ "stop" \in setting.faults /\ UNCHANGED servers
          \/ act = "start" /\ Startable(b, i, q) /\ servers' = servers \cup {Server(b, i, q)}
    /\ queue' = [queue EXCEPT ![r] = Tail(@)]
    /\ UNCHANGED <<disk, reg, db, task, pc, name, port, want, inits>>

ClusterRaises(r) ==
    /\ pc[r] = "cluster" /\ queue[r] # <<>>
    /\ LET b == name[r]
           act == Head(queue[r])[1]
           i == Head(queue[r])[2]
           q == StandbyPort(port[r], i)
       IN \/ act = "start" /\ HasInstance(b, i) /\ UNCHANGED servers
          \/ act = "start" /\ Startable(b, i, q) /\ servers' = servers \cup {Server(b, i, q)}
          \/ act = "stop" /\ "stop" \in setting.faults /\ UNCHANGED servers
    /\ Leave(r)
    /\ UNCHANGED <<disk, reg, db, task, inits>>

ClusterDone(r) ==
    /\ pc[r] = "cluster" /\ queue[r] = <<>>
    /\ Leave(r)
    /\ UNCHANGED <<disk, reg, db, task, servers, inits>>

-----------------------------------------------------------------------------
(* Rows *)

\* sync_branches inserts a row for a directory that has none.
SyncBranches ==
    /\ row' = [b \in Branches |-> IF dir[b] /\ row[b] = "none" THEN "active" ELSE row[b]]
    /\ UNCHANGED <<disk, reg, standbys, task, servers, pc, locals, inits>>

DeleteRow(b) ==
    /\ setting.deletes
    /\ row' = [row EXCEPT ![b] = "none"]
    /\ standbys' = [standbys EXCEPT ![b] = {}]
    /\ UNCHANGED <<disk, reg, task, servers, pc, locals, inits>>

\* The dashboard or the host restarts; daemon threads end wherever they are, servers
\* go on unless the host went down.
Restart ==
    /\ \/ "dashboard" \in setting.faults /\ UNCHANGED servers
       \/ "host" \in setting.faults /\ servers' = {}
    /\ task' = [b \in Branches |-> "none"]
    /\ pc' = [r \in Calls |-> "off"]
    /\ name' = [r \in Calls |-> NoBranch]
    /\ port' = [r \in Calls |-> NoPort]
    /\ want' = [r \in Calls |-> 0]
    /\ queue' = [r \in Calls |-> <<>>]
    /\ UNCHANGED <<disk, reg, db, inits>>

InitStep(r) ==
    \/ Allocate(r) \/ AllocateRaises(r) \/ Mkdir(r) \/ Worktree(r) \/ Build(r) \/ InitDb(r)
    \/ CreateStandby(r) \/ AddStandby(r) \/ InitDone(r) \/ InitRaises(r)
ArchiveStep(r) ==
    \/ StopStandby(r) \/ StandbysDone(r) \/ StopPrimary(r) \/ Move(r) \/ Push(r)
    \/ RemovePortEntry(r) \/ RemoveStandbys(r) \/ SetArchived(r) \/ ArchiveRaises(r)

Next ==
    /\ UNCHANGED setting
    /\ \/ \E r \in setting.calls, b \in setting.branches :
             \/ \E n \in 0 .. MaxStandbys : PgInit(r, b, n)
             \/ StartArchive(r, b)
             \/ \E i \in Instances : PgStart(r, b, i) \/ PgStop(r, b, i)
             \/ \E action \in {"start", "stop", "restart"} : ClusterAction(r, b, action)
       \/ \E r \in setting.calls :
             \/ InitStep(r) \/ ArchiveStep(r)
             \/ ClusterStep(r) \/ ClusterRaises(r) \/ ClusterDone(r)
       \/ SyncBranches \/ (\E b \in setting.branches : DeleteRow(b)) \/ Restart

Spec == Init /\ [][Next]_vars
-----------------------------------------------------------------------------
TypeOK ==
    /\ setting \in Settings
    /\ dir \in [Branches -> BOOLEAN]
    /\ conf \in [Branches -> Ports \cup {NoPort}]
    /\ data \in [Branches -> SUBSET Instances]
    /\ reg \in [Branches -> Ports \cup {NoPort}]
    /\ row \in [Branches -> {"none", "active", "archived"}]
    /\ standbys \in [Branches -> SUBSET (Instances \ {0})]
    /\ task \in [Branches -> {"none", "running", "done", "error"}]
    /\ pc \in [Calls -> {"off", "cluster"} \cup InitPcs \cup ArchivePcs]
    /\ name \in [Calls -> Branches \cup {NoBranch}]
    /\ port \in [Calls -> Ports \cup {NoPort}]
    /\ want \in [Calls -> Instances]

\* Calls do not overlap.
Serial == \A q, r \in setting.calls : q = r

\* Archiving stops every server of the directory it moves away ("stop PG, move to
\* _archive"), so that none goes on where no page and no call finds it, except a standby
\* that no row tells of (create_standby or add_standby failed after its start, its row was
\* deleted) and one whose stop fails.  While calls do not overlap, through restarts and
\* failures anywhere.
ServersReachable == Serial => \A s \in servers : s.here \/ ~s.listed

\* No server of one branch sits on a port of another branch that exists, its standbys'
\* included, so that every cluster can be started, but for those same servers.
PortsNotTaken ==
    Serial =>
        \A b \in Branches, s \in servers, i \in Instances :
            /\ dir[b] /\ reg[b] # NoPort
            /\ s.branch # b /\ (s.here \/ s.listed)
            => s.port # StandbyPort(reg[b], i)

\* While calls do not overlap, a directory is registered at every moment of its life, so
\* that nobody else gets its port and the cluster actions find it.
DirRegistered == Serial => \A b \in Branches : dir[b] => reg[b] # NoPort

\* While calls do not overlap, a project directory appears only where pg_init makes it,
\* after allocate_port.
OnlyMkdirCreates ==
    [][Serial =>
          \A b \in Branches :
              dir'[b] /\ ~dir[b] => \E r \in Calls : pc[r] = "mkdir" /\ name[r] = b]_vars

Initializing(r, b) == name[r] = b /\ pc[r] \in InitPcs

\* At most one pg_init works on a branch, whatever is clicked while it runs, and the page
\* shows a branch as being created exactly while one does.
TaskTruth ==
    \A b \in Branches :
        Cardinality({r \in Calls : Initializing(r, b)}) = IF task[b] = "running" THEN 1 ELSE 0

Idle(b) == \A r \in Calls : name[r] # b

\* The rows are "synchronized with the disk": an archived branch has no directory ...
ArchivedIsGone == \A b \in Branches : Idle(b) /\ row[b] = "archived" => ~dir[b]

\* ... and a standby that is listed for a branch on disk has a data directory.
StandbyRowsReal == \A b \in Branches : Idle(b) /\ dir[b] => standbys[b] \subseteq data[b]
=============================================================================
