------------------------------ MODULE PortLock ------------------------------
(***************************************************************************)
(* The port registry ~/pgsql/port_lock and the project directories it      *)
(* speaks of: allocate_port (lib/init.py) run by concurrent pg_init calls  *)
(* (CLI processes, dashboard worker threads), remove_port_lock_entry       *)
(* (lib/operations.py) run by concurrent archive_branch calls, a crash of  *)
(* any of them between two steps.                                          *)
(*                                                                         *)
(* flock(2) locks the open file, hence its inode, while atomic_write puts  *)
(* a NEW inode under the name port_lock.  Readers and the append go by     *)
(* name, the lock by the inode opened first: the model keeps both.         *)
(*                                                                         *)
(* A registry file is a function from projects to ports.  Every reader of  *)
(* the file lets the last line of a project win, so duplicates of a        *)
(* project and the order of lines make no difference to the program.       *)
(***************************************************************************)
EXTENDS Integers, FiniteSets

CONSTANTS
    Procs,            \* pg_init and archive calls that may be in flight
    Projects,         \* branch names; the project directory has the same name
    Master,           \* the branch that owns PRIMARY_PORT_MIN
    PrimaryPortMin,   \* lib/config.py PRIMARY_PORT_MIN
    PrimaryPortMax,   \* lib/config.py PRIMARY_PORT_MAX
    Inodes,           \* inode numbers the file system may hand out
    Settings,         \* what is considered together: see setting
    NoProc, NoPort, NoInode, NoProject

Ports == PrimaryPortMin .. PrimaryPortMax

ASSUME PortsAssumption ==
    /\ PrimaryPortMin \in Nat /\ PrimaryPortMax \in Nat
    /\ PrimaryPortMin <= PrimaryPortMax
ASSUME NullsAssumption ==
    /\ NoPort \notin Int /\ NoProc \notin Procs
    /\ NoInode \notin Inodes /\ NoProject \notin Projects
\* Enough inodes for every descriptor and the name: the disk never runs out.
ASSUME InodesAssumption ==
    IsFiniteSet(Inodes) /\ Cardinality(Inodes) >= 2 * Cardinality(Procs) + 1
ASSUME SettingsAssumption ==
    \A s \in Settings : s.projects \subseteq Projects /\ s.overlap \in BOOLEAN

VARIABLES
    setting,   \* fixed by Init: the projects calls name, and whether calls overlap
    path,      \* the inode the name port_lock denotes, NoInode: no such file
    file,      \* the registry stored in that inode (others are unreadable)
    flock,     \* flock[i]: the process holding the exclusive lock on inode i
    home,      \* home[d]: port the existing directory d is set up with, or NoPort
    pc,        \* next step of each process
    arg,       \* project each process works on
    fd,        \* inode each process opened (and locks)
    view,      \* registry each process has read (allocate_port's `latest`)
    port,      \* port each process has chosen
    afd        \* inode the append of each process has open

vars == <<setting, path, file, flock, home, pc, arg, fd, view, port, afd>>
locals == <<arg, fd, view, port, afd>>

Registry == [Projects -> Ports \cup {NoPort}]
EmptyRegistry == [d \in Projects |-> NoPort]
Exists(d) == home[d] # NoPort

Locked == {"read", "rewrite", "decide", "appendOpen", "appendWrite", "unlock"}
InitSteps == {"open", "flock", "mkdir", "setup"} \cup Locked
ArchiveSteps == {"move", "push", "rmRead", "rmWrite"}
Steps == {"idle"} \cup InitSteps \cup ArchiveSteps

Init ==
    /\ setting \in Settings
    /\ path = NoInode
    /\ file = EmptyRegistry
    /\ flock = [i \in Inodes |-> NoProc]
    /\ home = [d \in Projects |-> NoPort]
    /\ pc = [p \in Procs |-> "idle"]
    /\ arg = [p \in Procs |-> NoProject]
    /\ fd = [p \in Procs |-> NoInode]
    /\ view = [p \in Procs |-> EmptyRegistry]
    /\ port = [p \in Procs |-> NoPort]
    /\ afd = [p \in Procs |-> NoInode]

Goto(p, s) == pc' = [pc EXCEPT ![p] = s]

\* What a finished call leaves: its local variables are gone.
Leave(p) ==
    /\ Goto(p, "idle")
    /\ arg' = [arg EXCEPT ![p] = NoProject]
    /\ fd' = [fd EXCEPT ![p] = NoInode]
    /\ view' = [view EXCEPT ![p] = EmptyRegistry]
    /\ port' = [port EXCEPT ![p] = NoPort]
    /\ afd' = [afd EXCEPT ![p] = NoInode]

\* An inode no name and no descriptor refers to is free for the next file.
FreeInodes == {i \in Inodes : i # path /\ \A p \in Procs : fd[p] # i /\ afd[p] # i}

\* atomic_write: mkstemp, write, fsync, os.replace -- a new inode under the name.
\* Which of the free numbers the file system hands out makes no difference.
AtomicWrite(r) ==
    /\ FreeInodes # {}
    /\ path' = CHOOSE i \in FreeInodes : TRUE
    /\ file' = r

-----------------------------------------------------------------------------
(* allocate_port *)

\* Calls overlap, or start one at a time.
MayStart(p, d) ==
    /\ pc[p] = "idle" /\ d \in setting.projects
    /\ setting.overlap \/ \A q \in Procs \ {p} : pc[q] = "idle"

StartInit(p, d) ==
    /\ MayStart(p, d)
    /\ Goto(p, "open")
    /\ arg' = [arg EXCEPT ![p] = d]
    /\ UNCHANGED <<setting, path, file, flock, home, fd, view, port, afd>>

\* PORT_LOCK.touch(); os.open(PORT_LOCK)
OpenPortLock(p) ==
    /\ pc[p] = "open"
    /\ IF path = NoInode THEN AtomicWrite(EmptyRegistry)
                         ELSE UNCHANGED <<path, file>>
    /\ fd' = [fd EXCEPT ![p] = path']
    /\ Goto(p, "flock")
    /\ UNCHANGED <<setting, flock, home, arg, view, port, afd>>

Flock(p) ==
    /\ pc[p] = "flock"
    /\ flock[fd[p]] = NoProc
    /\ flock' = [flock EXCEPT ![fd[p]] = p]
    /\ Goto(p, "read")
    /\ UNCHANGED <<setting, path, file, home, locals>>

\* Lines kept by allocate_port: the master port only for master, and only
\* projects whose directory exists now.
Prune(r) ==
    [d \in Projects |->
        IF Exists(d) /\ (r[d] = PrimaryPortMin => d = Master) THEN r[d] ELSE NoPort]

ReadPrune(p) ==
    /\ pc[p] = "read"
    /\ view' = [view EXCEPT ![p] = Prune(file)]
    /\ Goto(p, "rewrite")
    /\ UNCHANGED <<setting, path, file, flock, home, arg, fd, port, afd>>

Rewrite(p) ==
    /\ pc[p] = "rewrite"
    /\ AtomicWrite(view[p])
    /\ Goto(p, "decide")
    /\ UNCHANGED <<setting, flock, home, locals>>

\* Mutants: range(MIN, MAX + 1), range(MIN + 1, MAX + 2), used ports not consulted.
FreePortsFromMin(r) == (PrimaryPortMin .. PrimaryPortMax) \ {r[d] : d \in Projects}
FreePortsPastMax(r) == (PrimaryPortMin + 1 .. PrimaryPortMax + 1) \ {r[d] : d \in Projects}
FreePortsAll(r) == PrimaryPortMin + 1 .. PrimaryPortMax

FreePorts(r) == (PrimaryPortMin + 1 .. PrimaryPortMax) \ {r[d] : d \in Projects}

\* The port a new project gets from the registry r; no port: allocate_port raises.
NewPorts(r, d) ==
    IF d = Master
    THEN IF \E e \in Projects \ {d} : r[e] = PrimaryPortMin THEN {} ELSE {PrimaryPortMin}
    ELSE {q \in FreePorts(r) : \A s \in FreePorts(r) : q <= s}

\* raise "Already exists", or no port left
DecideRaise(p) ==
    /\ pc[p] = "decide"
    /\ \/ Exists(arg[p])
       \/ view[p][arg[p]] = NoPort /\ NewPorts(view[p], arg[p]) = {}
    /\ Goto(p, "unlock")
    /\ UNCHANGED <<setting, path, file, flock, home, locals>>

\* A project with a line keeps its port (and no line is appended).
DecideReuse(p) ==
    /\ pc[p] = "decide"
    /\ ~Exists(arg[p])
    /\ view[p][arg[p]] # NoPort
    /\ port' = [port EXCEPT ![p] = view[p][arg[p]]]
    /\ Goto(p, "unlock")
    /\ UNCHANGED <<setting, path, file, flock, home, arg, fd, view, afd>>

DecideNew(p) ==
    /\ pc[p] = "decide"
    /\ ~Exists(arg[p])
    /\ view[p][arg[p]] = NoPort
    /\ \E q \in NewPorts(view[p], arg[p]) : port' = [port EXCEPT ![p] = q]
    /\ Goto(p, "appendOpen")
    /\ UNCHANGED <<setting, path, file, flock, home, arg, fd, view, afd>>

\* open(PORT_LOCK, "a") ... the line reaches the opened inode when it is closed;
\* if another file has taken the name by then, nobody will ever read it
AppendOpen(p) ==
    /\ pc[p] = "appendOpen"
    /\ afd' = [afd EXCEPT ![p] = path]
    /\ Goto(p, "appendWrite")
    /\ UNCHANGED <<setting, path, file, flock, home, arg, fd, view, port>>

AppendWrite(p) ==
    /\ pc[p] = "appendWrite"
    /\ file' = IF afd[p] = path THEN [file EXCEPT ![arg[p]] = port[p]] ELSE file
    /\ Goto(p, "unlock")
    /\ UNCHANGED <<setting, path, flock, home, locals>>

\* Mutant: a call that raises leaves without unlocking.
UnlockRaiseKeepsLock(p) ==
    /\ pc[p] = "unlock"
    /\ port[p] = NoPort
    /\ Leave(p)
    /\ UNCHANGED <<setting, path, file, home, flock>>

\* finally: flock(LOCK_UN), close -- the end of a call that raised
UnlockRaise(p) ==
    /\ pc[p] = "unlock"
    /\ port[p] = NoPort
    /\ flock' = [flock EXCEPT ![fd[p]] = NoProc]
    /\ Leave(p)
    /\ UNCHANGED <<setting, path, file, home>>

UnlockReturn(p) ==
    /\ pc[p] = "unlock"
    /\ port[p] # NoPort
    /\ flock' = [flock EXCEPT ![fd[p]] = NoProc]
    /\ fd' = [fd EXCEPT ![p] = NoInode]
    /\ afd' = [afd EXCEPT ![p] = NoInode]
    /\ view' = [view EXCEPT ![p] = EmptyRegistry]
    /\ Goto(p, "mkdir")
    /\ UNCHANGED <<setting, path, file, home, arg, port>>

-----------------------------------------------------------------------------
(* init_branch after allocate_port *)

\* project_dir.mkdir(exist_ok=True); everything after it is set up with the port
Mkdir(p) ==
    /\ pc[p] = "mkdir"
    /\ home' = [home EXCEPT ![arg[p]] = port[p]]
    /\ Goto(p, "setup")
    /\ UNCHANGED <<setting, path, file, flock, locals>>

\* The later steps succeed, or one of them raises: directory and line stay.
EndInit(p) ==
    /\ pc[p] = "setup"
    /\ Leave(p)
    /\ UNCHANGED <<setting, path, file, flock, home>>

-----------------------------------------------------------------------------
(* archive_branch, as far as the registry and the directory are concerned *)

StartArchive(p, d) ==
    /\ MayStart(p, d)
    /\ Exists(d)
    /\ Goto(p, "move")
    /\ arg' = [arg EXCEPT ![p] = d]
    /\ UNCHANGED <<setting, path, file, flock, home, fd, view, port, afd>>

\* shutil.move(project_dir, _archive)
MoveToArchive(p) ==
    /\ pc[p] = "move"
    /\ Exists(arg[p])
    /\ home' = [home EXCEPT ![arg[p]] = NoPort]
    /\ Goto(p, "push")
    /\ UNCHANGED <<setting, path, file, flock, locals>>

\* Stopping a server fails, the directory is gone, or git push times out.
ArchiveRaise(p) ==
    /\ pc[p] \in {"move", "push"}
    /\ Leave(p)
    /\ UNCHANGED <<setting, path, file, flock, home>>

PushDone(p) ==
    /\ pc[p] = "push"
    /\ Goto(p, "rmRead")
    /\ UNCHANGED <<setting, path, file, flock, home, locals>>

\* remove_port_lock_entry reads the file without taking the lock ...
RemoveRead(p) ==
    /\ pc[p] = "rmRead"
    /\ IF file[arg[p]] = NoPort
       THEN Leave(p)
       ELSE /\ view' = [view EXCEPT ![p] = [file EXCEPT ![arg[p]] = NoPort]]
            /\ Goto(p, "rmWrite")
            /\ UNCHANGED <<arg, fd, port, afd>>
    /\ UNCHANGED <<setting, path, file, flock, home>>

\* ... and writes back what it has read, less the entry
RemoveWrite(p) ==
    /\ pc[p] = "rmWrite"
    /\ AtomicWrite(view[p])
    /\ Leave(p)
    /\ UNCHANGED <<setting, flock, home>>

-----------------------------------------------------------------------------
\* The process dies: the kernel closes its descriptors, which drops its lock.
Crash(p) ==
    /\ pc[p] # "idle"
    /\ flock' = [i \in Inodes |-> IF flock[i] = p THEN NoProc ELSE flock[i]]
    /\ Leave(p)
    /\ UNCHANGED <<setting, path, file, home>>

Allocate(p) ==
    \/ OpenPortLock(p) \/ Flock(p) \/ ReadPrune(p) \/ Rewrite(p)
    \/ DecideRaise(p) \/ DecideReuse(p) \/ DecideNew(p)
    \/ AppendOpen(p) \/ AppendWrite(p) \/ UnlockRaise(p) \/ UnlockReturn(p)

Archive(p) ==
    \/ MoveToArchive(p) \/ ArchiveRaise(p) \/ PushDone(p)
    \/ RemoveRead(p) \/ RemoveWrite(p)

Continue(p) == Allocate(p) \/ Mkdir(p) \/ EndInit(p) \/ Archive(p)

Start(p) == \E d \in Projects : StartInit(p, d) \/ StartArchive(p, d)

Next == \E p \in Procs : Start(p) \/ Continue(p) \/ Crash(p)

Spec == Init /\ [][Next]_vars

\* A call that has started keeps running (or crashes); flock queues its waiters.
Fairness == \A p \in Procs : WF_vars(Continue(p)) /\ SF_vars(Flock(p))
FairSpec == Spec /\ Fairness

-----------------------------------------------------------------------------
TypeOK ==
    /\ path \in Inodes \cup {NoInode}
    /\ file \in Registry
    /\ flock \in [Inodes -> Procs \cup {NoProc}]
    /\ home \in Registry
    /\ pc \in [Procs -> Steps]
    /\ arg \in [Procs -> Projects \cup {NoProject}]
    /\ fd \in [Procs -> Inodes \cup {NoInode}]
    /\ view \in [Procs -> Registry]
    /\ port \in [Procs -> Ports \cup {NoPort}]
    /\ afd \in [Procs -> Inodes \cup {NoInode}]

\* The lock of an inode is held exactly by a call between its flock and its
\* finally clause, whatever raises or dies: no lock is left behind, and two calls
\* in that region have locked different inodes.
LockHeld ==
    \A p \in Procs, i \in Inodes : flock[i] = p <=> pc[p] \in Locked /\ fd[p] = i

\* PRIMARY_PORT_MIN is master's alone, in every copy of the registry and in every
\* directory, whatever the interleaving ("Enforce master-only for the master port").
MasterPortReserved ==
    \A d \in Projects \ {Master} :
        /\ home[d] # PrimaryPortMin
        /\ file[d] # PrimaryPortMin
        /\ \A p \in Procs : view[p][d] # PrimaryPortMin

\* No two project directories are set up with the same port.
UniquePorts ==
    \A d, e \in Projects : Exists(d) /\ home[d] = home[e] => d = e

\* ... which allocate_port achieves when calls do not overlap, whatever raised or died.
SerialUniquePorts == ~setting.overlap => UniquePorts

\* allocate_port's critical section has one call in it at a time ("using
\* flock-based locking"): not so when calls overlap.
LockExcludes ==
    \A p, q \in Procs : pc[p] \in Locked /\ pc[q] \in Locked => p = q

\* Every existing project directory has its port in the file, so that the next
\* allocation sees the port is taken.
Registered ==
    \A d \in Projects : Exists(d) => file[d] = home[d]

\* ... when calls do not overlap.
SerialRegistered == ~setting.overlap => Registered

\* A call waiting for the lock gets it, or ends.
LockGranted == \A p \in Procs : pc[p] = "flock" ~> pc[p] \in {"read", "idle"}

\* With one call at a time the registry keeps its promise: a directory appears
\* with a port that is free at that moment and legal for its branch.
Promise == INSTANCE PortRegistry
              WITH assigned <- IF setting.overlap THEN EmptyRegistry ELSE home
RefinesPortRegistry == Promise!Spec

\* The strengthening that makes UniquePorts and Registered inductive when calls do
\* not overlap: at most one call is under way, and what it carries agrees with
\* the directories.
AgreesWithHome(r) == \A d \in Projects : r[d] = home[d]
KeepsExisting(r) == \A d \in Projects : Exists(d) => r[d] = home[d]
SerialCall(p) ==
    /\ \A q \in Procs \ {p} : pc[q] = "idle"
    /\ pc[p] \in {"rewrite", "decide"} => AgreesWithHome(view[p])
    /\ pc[p] \in {"decide", "appendOpen", "appendWrite"} =>
          \A d \in Projects : file[d] = home[d]
    /\ pc[p] \in {"open", "flock", "read", "rewrite", "decide"} => port[p] = NoPort
    /\ pc[p] = "appendWrite" => afd[p] = path
    /\ pc[p] \in {"appendOpen", "appendWrite", "mkdir"} \/ (pc[p] = "unlock" /\ port[p] # NoPort) =>
          /\ ~Exists(arg[p])
          /\ port[p] \in Promise!PortsFor(arg[p])
          /\ \A d \in Projects : home[d] # port[p]
    /\ pc[p] = "mkdir" \/ (pc[p] = "unlock" /\ port[p] # NoPort) => file[arg[p]] = port[p]
    /\ pc[p] = "rmWrite" => KeepsExisting(view[p])
    /\ pc[p] \in {"push", "rmRead", "rmWrite"} => ~Exists(arg[p])
SerialInv == ~setting.overlap =>
    /\ Registered
    /\ path = NoInode => file = EmptyRegistry
    /\ \A p \in Procs : IF pc[p] = "idle" THEN port[p] = NoPort ELSE SerialCall(p)
=============================================================================
