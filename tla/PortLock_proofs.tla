--------------------------- MODULE PortLock_proofs ---------------------------
(***************************************************************************)
(* Theorems about PortLock, for any processes, projects and port range.    *)
(***************************************************************************)
EXTENDS PortLock, TLAPS

-----------------------------------------------------------------------------
(* Facts about the helpers *)

\* atomic_write leaves the name at an inode that nobody else refers to.
LEMMA AtomicWriteFresh ==
    ASSUME NEW r, AtomicWrite(r)
    PROVE  /\ path' \in FreeInodes
           /\ file' = r
  BY DEF AtomicWrite

\* Pruning a registry gives a registry.
LEMMA PruneType ==
    ASSUME NEW r \in Registry
    PROVE  Prune(r) \in Registry
  BY DEF Prune, Registry

\* The ports allocate_port can give are in the range, and legal for the branch.
LEMMA NewPortsLegal ==
    ASSUME NEW r, NEW d \in Projects, NEW q \in NewPorts(r, d)
    PROVE  /\ q \in Ports
           /\ q = PrimaryPortMin <=> d = Master
  BY PortsAssumption DEF NewPorts, FreePorts, Ports

\* ... and, when d has no entry in r, no project has it in r.
LEMMA NewPortsFree ==
    ASSUME NEW r, NEW d \in Projects, NEW q \in NewPorts(r, d), r[d] = NoPort
    PROVE  \A e \in Projects : r[e] # q
  BY PortsAssumption, NullsAssumption DEF NewPorts, FreePorts, Ports

\* Leaving a call resets its locals and nothing else.
LEMMA LeaveType ==
    ASSUME TypeOK, NEW p \in Procs, Leave(p)
    PROVE  /\ pc' \in [Procs -> Steps]
           /\ arg' \in [Procs -> Projects \cup {NoProject}]
           /\ fd' \in [Procs -> Inodes \cup {NoInode}]
           /\ view' \in [Procs -> Registry]
           /\ port' \in [Procs -> Ports \cup {NoPort}]
           /\ afd' \in [Procs -> Inodes \cup {NoInode}]
  <1>1. EmptyRegistry \in Registry
    BY DEF EmptyRegistry, Registry
  <1>2. QED BY <1>1 DEF TypeOK, Leave, Goto, Steps

-----------------------------------------------------------------------------
(* Type correctness, the lock, and the master's port, for every interleaving *)

\* A call that works on a project has one; one that may lock has an open file.
CallOK ==
    \A p \in Procs :
        /\ pc[p] # "idle" => arg[p] \in Projects
        /\ pc[p] \in Locked \cup {"flock"} => fd[p] \in Inodes
        /\ path = NoInode => pc[p] \notin Locked \cup {"flock"}
        /\ pc[p] \in {"appendOpen", "appendWrite", "mkdir"} => port[p] # NoPort

ConcInv == TypeOK /\ CallOK

\* Nothing is open, locked or under way at first.
LEMMA InitConc == Init => ConcInv
  BY DEF Init, ConcInv, TypeOK, CallOK, EmptyRegistry, Registry, Steps, Locked

\* Every step of every call, a crash included, keeps types and the call facts.
LEMMA StepConc == ConcInv /\ [Next]_vars => ConcInv'
  <1> SUFFICES ASSUME ConcInv, [Next]_vars PROVE ConcInv'
    OBVIOUS
  <1> USE DEF ConcInv, CallOK, Goto, Steps, Locked, InitSteps, ArchiveSteps, locals
  <1>0. CASE UNCHANGED vars
    BY <1>0 DEF vars, TypeOK
  <1>1. ASSUME NEW p \in Procs, NEW d \in Projects, StartInit(p, d)
        PROVE ConcInv'
    BY <1>1 DEF StartInit, TypeOK
  <1>2. ASSUME NEW p \in Procs, NEW d \in Projects, StartArchive(p, d)
        PROVE ConcInv'
    BY <1>2 DEF StartArchive, TypeOK
  <1>3. ASSUME NEW p \in Procs, OpenPortLock(p)
        PROVE ConcInv'
    <2>1. path' \in Inodes /\ file' \in Registry
      BY <1>3, AtomicWriteFresh DEF OpenPortLock, TypeOK, FreeInodes, EmptyRegistry, Registry
    <2>2. QED BY <1>3, <2>1, NullsAssumption DEF OpenPortLock, TypeOK
  <1>4. ASSUME NEW p \in Procs, Flock(p)
        PROVE ConcInv'
    BY <1>4 DEF Flock, TypeOK
  <1>5. ASSUME NEW p \in Procs, ReadPrune(p)
        PROVE ConcInv'
    <2>1. Prune(file) \in Registry
      BY PruneType DEF TypeOK
    <2>2. QED BY <1>5, <2>1 DEF ReadPrune, TypeOK
  <1>6. ASSUME NEW p \in Procs, Rewrite(p)
        PROVE ConcInv'
    <2>1. path' \in Inodes /\ file' \in Registry
      BY <1>6, AtomicWriteFresh DEF Rewrite, TypeOK, FreeInodes
    <2>2. QED BY <1>6, <2>1, NullsAssumption DEF Rewrite, TypeOK
  <1>7. ASSUME NEW p \in Procs, DecideRaise(p)
        PROVE ConcInv'
    BY <1>7 DEF DecideRaise, TypeOK
  <1>8. ASSUME NEW p \in Procs, DecideReuse(p)
        PROVE ConcInv'
    <2>1. view[p][arg[p]] \in Ports \cup {NoPort}
      BY <1>8 DEF DecideReuse, TypeOK, Registry
    <2>2. QED BY <1>8, <2>1 DEF DecideReuse, TypeOK
  <1>9. ASSUME NEW p \in Procs, DecideNew(p)
        PROVE ConcInv'
    <2>1. PICK q \in NewPorts(view[p], arg[p]) : port' = [port EXCEPT ![p] = q]
      BY <1>9 DEF DecideNew
    <2>2. q \in Ports /\ q # NoPort
      BY <1>9, <2>1, NewPortsLegal, NullsAssumption, PortsAssumption DEF DecideNew, Ports
    <2>3. QED BY <1>9, <2>1, <2>2 DEF DecideNew, TypeOK
  <1>10. ASSUME NEW p \in Procs, AppendOpen(p)
         PROVE ConcInv'
    BY <1>10 DEF AppendOpen, TypeOK
  <1>11. ASSUME NEW p \in Procs, AppendWrite(p)
         PROVE ConcInv'
    <2>1. file' \in Registry
      BY <1>11 DEF AppendWrite, TypeOK, Registry
    <2>2. QED BY <1>11, <2>1 DEF AppendWrite, TypeOK
  <1>12. ASSUME NEW p \in Procs, UnlockRaise(p)
         PROVE ConcInv'
    BY <1>12, LeaveType DEF UnlockRaise, TypeOK, Leave
  <1>13. ASSUME NEW p \in Procs, UnlockReturn(p)
         PROVE ConcInv'
    BY <1>13 DEF UnlockReturn, TypeOK, EmptyRegistry, Registry
  <1>14. ASSUME NEW p \in Procs, Mkdir(p)
         PROVE ConcInv'
    <2>1. home' \in Registry
      BY <1>14 DEF Mkdir, TypeOK, Registry
    <2>2. QED BY <1>14, <2>1 DEF Mkdir, TypeOK
  <1>15. ASSUME NEW p \in Procs, EndInit(p)
         PROVE ConcInv'
    BY <1>15, LeaveType DEF EndInit, TypeOK, Leave
  <1>16. ASSUME NEW p \in Procs, MoveToArchive(p)
         PROVE ConcInv'
    <2>1. home' \in Registry
      BY <1>16 DEF MoveToArchive, TypeOK, Registry
    <2>2. QED BY <1>16, <2>1 DEF MoveToArchive, TypeOK
  <1>17. ASSUME NEW p \in Procs, ArchiveRaise(p)
         PROVE ConcInv'
    BY <1>17, LeaveType DEF ArchiveRaise, TypeOK, Leave
  <1>18. ASSUME NEW p \in Procs, PushDone(p)
         PROVE ConcInv'
    BY <1>18 DEF PushDone, TypeOK
  <1>19. ASSUME NEW p \in Procs, RemoveRead(p)
         PROVE ConcInv'
    <2>1. CASE file[arg[p]] = NoPort
      BY <1>19, <2>1, LeaveType DEF RemoveRead, TypeOK, Leave
    <2>2. CASE file[arg[p]] # NoPort
      <3>1. [file EXCEPT ![arg[p]] = NoPort] \in Registry
        BY DEF TypeOK, Registry
      <3>2. QED BY <1>19, <2>2, <3>1 DEF RemoveRead, TypeOK
    <2>3. QED BY <2>1, <2>2
  <1>20. ASSUME NEW p \in Procs, RemoveWrite(p)
         PROVE ConcInv'
    <2>1. path' \in Inodes /\ file' \in Registry
      BY <1>20, AtomicWriteFresh DEF RemoveWrite, TypeOK, FreeInodes
    <2>2. QED BY <1>20, <2>1, LeaveType, NullsAssumption DEF RemoveWrite, TypeOK, Leave
  <1>21. ASSUME NEW p \in Procs, Crash(p)
         PROVE ConcInv'
    BY <1>21, LeaveType DEF Crash, TypeOK, Leave
  <1>22. QED
    BY <1>0, <1>1, <1>2, <1>3, <1>4, <1>5, <1>6, <1>7, <1>8, <1>9, <1>10, <1>11, <1>12,
       <1>13, <1>14, <1>15, <1>16, <1>17, <1>18, <1>19, <1>20, <1>21
       DEF Next, Start, Continue, Allocate, Archive

\* The invariant that the other interleaved results rest on.
LEMMA ConcInvariant == Spec => []ConcInv
  BY InitConc, StepConc, PTL DEF Spec

\* Type correctness of every interleaving of pg_init and archive calls.
THEOREM TypeCorrect == Spec => []TypeOK
  BY ConcInvariant, PTL DEF ConcInv
-----------------------------------------------------------------------------
(* The lock of an inode *)

\* No lock is held at first.
LEMMA InitLock == Init => LockHeld
  BY NullsAssumption DEF Init, LockHeld, Locked

\* Only flock takes a lock and only the finally clause, or death, drops it.
LEMMA StepLock == ConcInv /\ LockHeld /\ [Next]_vars => LockHeld'
  <1> SUFFICES ASSUME ConcInv, LockHeld, [Next]_vars PROVE LockHeld'
    OBVIOUS
  <1> USE NullsAssumption DEF ConcInv, CallOK, TypeOK, LockHeld, Goto, Locked, locals
  <1>0. CASE UNCHANGED vars
    BY <1>0 DEF vars
  <1>1. ASSUME NEW p \in Procs, NEW d \in Projects, StartInit(p, d)
        PROVE  LockHeld'
    BY <1>1 DEF StartInit, MayStart
  <1>2. ASSUME NEW p \in Procs, NEW d \in Projects, StartArchive(p, d)
        PROVE  LockHeld'
    BY <1>2 DEF StartArchive, MayStart
  <1>3. ASSUME NEW p \in Procs, OpenPortLock(p)
        PROVE  LockHeld'
    BY <1>3 DEF OpenPortLock
  <1>4. ASSUME NEW p \in Procs, Flock(p)
        PROVE  LockHeld'
    BY <1>4 DEF Flock
  <1>5. ASSUME NEW p \in Procs, ReadPrune(p)
        PROVE  LockHeld'
    BY <1>5 DEF ReadPrune
  <1>6. ASSUME NEW p \in Procs, Rewrite(p)
        PROVE  LockHeld'
    BY <1>6 DEF Rewrite
  <1>7. ASSUME NEW p \in Procs, DecideRaise(p)
        PROVE  LockHeld'
    BY <1>7 DEF DecideRaise
  <1>8. ASSUME NEW p \in Procs, DecideReuse(p)
        PROVE  LockHeld'
    BY <1>8 DEF DecideReuse
  <1>9. ASSUME NEW p \in Procs, DecideNew(p)
        PROVE  LockHeld'
    BY <1>9 DEF DecideNew
  <1>10. ASSUME NEW p \in Procs, AppendOpen(p)
        PROVE  LockHeld'
    BY <1>10 DEF AppendOpen
  <1>11. ASSUME NEW p \in Procs, AppendWrite(p)
        PROVE  LockHeld'
    BY <1>11 DEF AppendWrite
  <1>12. ASSUME NEW p \in Procs, UnlockRaise(p)
        PROVE  LockHeld'
    BY <1>12 DEF UnlockRaise, Leave
  <1>13. ASSUME NEW p \in Procs, UnlockReturn(p)
        PROVE  LockHeld'
    BY <1>13 DEF UnlockReturn
  <1>14. ASSUME NEW p \in Procs, Mkdir(p)
        PROVE  LockHeld'
    BY <1>14 DEF Mkdir
  <1>15. ASSUME NEW p \in Procs, EndInit(p)
        PROVE  LockHeld'
    BY <1>15 DEF EndInit, Leave
  <1>16. ASSUME NEW p \in Procs, MoveToArchive(p)
        PROVE  LockHeld'
    BY <1>16 DEF MoveToArchive
  <1>17. ASSUME NEW p \in Procs, ArchiveRaise(p)
        PROVE  LockHeld'
    BY <1>17 DEF ArchiveRaise, Leave
  <1>18. ASSUME NEW p \in Procs, PushDone(p)
        PROVE  LockHeld'
    BY <1>18 DEF PushDone
  <1>19. ASSUME NEW p \in Procs, RemoveRead(p)
        PROVE  LockHeld'
    BY <1>19 DEF RemoveRead, Leave
  <1>20. ASSUME NEW p \in Procs, RemoveWrite(p)
        PROVE  LockHeld'
    BY <1>20 DEF RemoveWrite, Leave
  <1>21. ASSUME NEW p \in Procs, Crash(p)
        PROVE  LockHeld'
    BY <1>21 DEF Crash, Leave
  <1>22. QED
    BY <1>0, <1>1, <1>2, <1>3, <1>4, <1>5, <1>6, <1>7, <1>8, <1>9, <1>10, <1>11,
       <1>12, <1>13, <1>14, <1>15, <1>16, <1>17, <1>18, <1>19, <1>20, <1>21
       DEF Next, Start, Continue, Allocate, Archive

\* The lock of an inode is held exactly by the call between its flock and its
\* finally clause that opened this inode, for every interleaving and crash.
THEOREM LockHeldByOpener == Spec => []LockHeld
  BY InitLock, StepLock, ConcInvariant, PTL DEF Spec

-----------------------------------------------------------------------------
(* The master port *)

\* A call that carries the master port works for master.
MasterInv ==
    /\ MasterPortReserved
    /\ \A p \in Procs : port[p] = PrimaryPortMin => pc[p] # "idle" /\ arg[p] = Master

\* No port is recorded at first.
LEMMA InitMaster == Init => MasterInv
  BY NullsAssumption, PortsAssumption
     DEF Init, MasterInv, MasterPortReserved, EmptyRegistry

\* Pruning, allocating, archiving and writing a stale view back keep the master port
\* to master.
LEMMA StepMaster == ConcInv /\ MasterInv /\ [Next]_vars => MasterInv'
  <1> SUFFICES ASSUME ConcInv, MasterInv, [Next]_vars PROVE MasterInv'
    OBVIOUS
  <1> USE NullsAssumption, PortsAssumption
      DEF ConcInv, CallOK, TypeOK, MasterInv, MasterPortReserved, Goto, locals
  <1>0. CASE UNCHANGED vars
    BY <1>0 DEF vars
  <1>1. ASSUME NEW p \in Procs, NEW d \in Projects, StartInit(p, d)
        PROVE  MasterInv'
    BY <1>1 DEF StartInit, MayStart
  <1>2. ASSUME NEW p \in Procs, NEW d \in Projects, StartArchive(p, d)
        PROVE  MasterInv'
    BY <1>2 DEF StartArchive, MayStart
  <1>3. ASSUME NEW p \in Procs, OpenPortLock(p)
        PROVE  MasterInv'
    BY <1>3, AtomicWriteFresh DEF OpenPortLock, EmptyRegistry
  <1>4. ASSUME NEW p \in Procs, Flock(p)
        PROVE  MasterInv'
    BY <1>4 DEF Flock
  <1>5. ASSUME NEW p \in Procs, ReadPrune(p)
        PROVE  MasterInv'
    BY <1>5 DEF ReadPrune, Prune
  <1>6. ASSUME NEW p \in Procs, Rewrite(p)
        PROVE  MasterInv'
    BY <1>6, AtomicWriteFresh DEF Rewrite
  <1>7. ASSUME NEW p \in Procs, DecideRaise(p)
        PROVE  MasterInv'
    BY <1>7 DEF DecideRaise
  <1>8. ASSUME NEW p \in Procs, DecideReuse(p)
        PROVE  MasterInv'
    BY <1>8 DEF DecideReuse, Registry
  <1>9. ASSUME NEW p \in Procs, DecideNew(p)
        PROVE  MasterInv'
    <2>1. PICK q \in NewPorts(view[p], arg[p]) : port' = [port EXCEPT ![p] = q]
      BY <1>9 DEF DecideNew
    <2>2. q = PrimaryPortMin <=> arg[p] = Master
      BY <1>9, <2>1, NewPortsLegal DEF DecideNew
    <2>3. QED BY <1>9, <2>1, <2>2 DEF DecideNew
  <1>10. ASSUME NEW p \in Procs, AppendOpen(p)
        PROVE  MasterInv'
    BY <1>10 DEF AppendOpen
  <1>11. ASSUME NEW p \in Procs, AppendWrite(p)
        PROVE  MasterInv'
    BY <1>11 DEF AppendWrite, Registry
  <1>12. ASSUME NEW p \in Procs, UnlockRaise(p)
        PROVE  MasterInv'
    BY <1>12 DEF UnlockRaise, Leave, EmptyRegistry
  <1>13. ASSUME NEW p \in Procs, UnlockReturn(p)
        PROVE  MasterInv'
    BY <1>13 DEF UnlockReturn, EmptyRegistry
  <1>14. ASSUME NEW p \in Procs, Mkdir(p)
        PROVE  MasterInv'
    BY <1>14 DEF Mkdir, Registry
  <1>15. ASSUME NEW p \in Procs, EndInit(p)
        PROVE  MasterInv'
    BY <1>15 DEF EndInit, Leave, EmptyRegistry
  <1>16. ASSUME NEW p \in Procs, MoveToArchive(p)
        PROVE  MasterInv'
    BY <1>16 DEF MoveToArchive, Registry
  <1>17. ASSUME NEW p \in Procs, ArchiveRaise(p)
        PROVE  MasterInv'
    BY <1>17 DEF ArchiveRaise, Leave, EmptyRegistry
  <1>18. ASSUME NEW p \in Procs, PushDone(p)
        PROVE  MasterInv'
    BY <1>18 DEF PushDone
  <1>19. ASSUME NEW p \in Procs, RemoveRead(p)
        PROVE  MasterInv'
    <2>1. CASE file[arg[p]] = NoPort
      BY <1>19, <2>1 DEF RemoveRead, Leave, EmptyRegistry
    <2>2. CASE file[arg[p]] # NoPort
      BY <1>19, <2>2 DEF RemoveRead, Registry
    <2>3. QED BY <2>1, <2>2
  <1>20. ASSUME NEW p \in Procs, RemoveWrite(p)
        PROVE  MasterInv'
    BY <1>20, AtomicWriteFresh DEF RemoveWrite, Leave, EmptyRegistry
  <1>21. ASSUME NEW p \in Procs, Crash(p)
        PROVE  MasterInv'
    BY <1>21 DEF Crash, Leave, EmptyRegistry
  <1>22. QED
    BY <1>0, <1>1, <1>2, <1>3, <1>4, <1>5, <1>6, <1>7, <1>8, <1>9, <1>10, <1>11,
       <1>12, <1>13, <1>14, <1>15, <1>16, <1>17, <1>18, <1>19, <1>20, <1>21
       DEF Next, Start, Continue, Allocate, Archive

\* However pg_init and archive calls interleave or die, only master is ever given,
\* registered under or set up with PRIMARY_PORT_MIN.
THEOREM MasterPortSafe == Spec => []MasterPortReserved
  BY InitMaster, StepMaster, ConcInvariant, PTL DEF Spec, MasterInv
-----------------------------------------------------------------------------
(* Calls that do not overlap *)

\* Whether calls overlap never changes.
LEMMA SettingFixed == [Next]_vars => setting' = setting
  BY DEF Next, Start, Continue, Allocate, Archive, Crash, vars, StartInit, StartArchive,
         OpenPortLock, Flock, ReadPrune, Rewrite, DecideRaise, DecideReuse, DecideNew,
         AppendOpen, AppendWrite, UnlockRaise, UnlockReturn, Mkdir, EndInit,
         MoveToArchive, ArchiveRaise, PushDone, RemoveRead, RemoveWrite

SInv == Registered /\ UniquePorts /\ SerialInv

\* Without directories the serial facts hold.
LEMMA InitSerial == Init => SInv
  BY DEF Init, SInv, SerialInv, Registered, UniquePorts, Exists, EmptyRegistry

\* With one call at a time, what the call carries agrees with the directories.
LEMMA StepSerial == ConcInv /\ MasterInv /\ ~setting.overlap /\ SInv /\ [Next]_vars => SInv'
  <1> SUFFICES ASSUME ConcInv, MasterInv, ~setting.overlap, SInv, [Next]_vars PROVE SInv'
    OBVIOUS
  <1>s. ~setting'.overlap
    BY SettingFixed
  <1> USE NullsAssumption, PortsAssumption
      DEF ConcInv, CallOK, TypeOK, SInv, SerialInv, SerialCall, Registered, UniquePorts,
          AgreesWithHome, KeepsExisting, Exists, Goto, locals
  <1>0. CASE UNCHANGED vars
    BY <1>0 DEF vars
  <1>1. ASSUME NEW p \in Procs, NEW d \in Projects, StartInit(p, d)
        PROVE  SInv'
    BY <1>1 DEF StartInit, MayStart
  <1>2. ASSUME NEW p \in Procs, NEW d \in Projects, StartArchive(p, d)
        PROVE  SInv'
    BY <1>2 DEF StartArchive, MayStart
  <1>3. ASSUME NEW p \in Procs, OpenPortLock(p)
        PROVE  SInv'
    BY <1>3, AtomicWriteFresh DEF OpenPortLock, EmptyRegistry
  <1>4. ASSUME NEW p \in Procs, Flock(p)
        PROVE  SInv'
    BY <1>4 DEF Flock
  <1>5. ASSUME NEW p \in Procs, ReadPrune(p)
        PROVE  SInv'
    BY <1>5 DEF ReadPrune, Prune, Registry, MasterInv, MasterPortReserved
  <1>6. ASSUME NEW p \in Procs, Rewrite(p)
        PROVE  SInv'
    <2>1. path' # NoInode /\ file' = view[p]
      BY <1>6, AtomicWriteFresh DEF Rewrite, FreeInodes
    <2>2. QED BY <1>6, <2>1 DEF Rewrite
  <1>7. ASSUME NEW p \in Procs, DecideRaise(p)
        PROVE  SInv'
    BY <1>7 DEF DecideRaise
  <1>8. ASSUME NEW p \in Procs, DecideReuse(p)
        PROVE  SInv'
    BY <1>8 DEF DecideReuse
  <1>9. ASSUME NEW p \in Procs, DecideNew(p)
        PROVE  SInv'
    <2>1. PICK q \in NewPorts(view[p], arg[p]) : port' = [port EXCEPT ![p] = q]
      BY <1>9 DEF DecideNew
    <2>2. q \in Ports /\ (q = PrimaryPortMin <=> arg[p] = Master)
      BY <1>9, <2>1, NewPortsLegal DEF DecideNew
    <2>3. q \in Promise!PortsFor(arg[p])
      BY <2>2 DEF Promise!PortsFor, Ports
    <2>4. \A d \in Projects : home[d] # q
      BY <1>9, <2>1, NewPortsFree DEF DecideNew
    <2>5. QED BY <1>9, <2>1, <2>3, <2>4 DEF DecideNew
  <1>10. ASSUME NEW p \in Procs, AppendOpen(p)
        PROVE  SInv'
    BY <1>10 DEF AppendOpen
  <1>11. ASSUME NEW p \in Procs, AppendWrite(p)
        PROVE  SInv'
    BY <1>11 DEF AppendWrite, Registry, Locked
  <1>12. ASSUME NEW p \in Procs, UnlockRaise(p)
        PROVE  SInv'
    BY <1>12 DEF UnlockRaise, Leave
  <1>13. ASSUME NEW p \in Procs, UnlockReturn(p)
        PROVE  SInv'
    BY <1>13 DEF UnlockReturn
  <1>14. ASSUME NEW p \in Procs, Mkdir(p)
        PROVE  SInv'
    BY <1>14 DEF Mkdir, Registry
  <1>15. ASSUME NEW p \in Procs, EndInit(p)
        PROVE  SInv'
    BY <1>15 DEF EndInit, Leave
  <1>16. ASSUME NEW p \in Procs, MoveToArchive(p)
        PROVE  SInv'
    BY <1>16 DEF MoveToArchive, Registry
  <1>17. ASSUME NEW p \in Procs, ArchiveRaise(p)
        PROVE  SInv'
    BY <1>17 DEF ArchiveRaise, Leave
  <1>18. ASSUME NEW p \in Procs, PushDone(p)
        PROVE  SInv'
    BY <1>18 DEF PushDone
  <1>19. ASSUME NEW p \in Procs, RemoveRead(p)
        PROVE  SInv'
    BY <1>19 DEF RemoveRead, Leave, Registry
  <1>20. ASSUME NEW p \in Procs, RemoveWrite(p)
        PROVE  SInv'
    <2>1. path' # NoInode /\ file' = view[p]
      BY <1>20, AtomicWriteFresh DEF RemoveWrite, FreeInodes
    <2>2. QED BY <1>20, <2>1 DEF RemoveWrite, Leave
  <1>21. ASSUME NEW p \in Procs, Crash(p)
        PROVE  SInv'
    BY <1>21 DEF Crash, Leave
  <1>22. QED
    BY <1>0, <1>1, <1>2, <1>3, <1>4, <1>5, <1>6, <1>7, <1>8, <1>9, <1>10, <1>11,
       <1>12, <1>13, <1>14, <1>15, <1>16, <1>17, <1>18, <1>19, <1>20, <1>21
       DEF Next, Start, Continue, Allocate, Archive

SerialIInv == ConcInv /\ MasterInv /\ (~setting.overlap => SInv)

\* The three invariants together.
LEMMA SerialInvariant == Spec => []SerialIInv
  <1>1. Init => SerialIInv
    BY InitConc, InitMaster, InitSerial DEF SerialIInv
  <1>2. SerialIInv /\ [Next]_vars => SerialIInv'
    BY StepConc, StepMaster, StepSerial, SettingFixed DEF SerialIInv
  <1>3. QED BY <1>1, <1>2, PTL DEF Spec

\* With one call at a time, crashes and failed archives included, no two project
\* directories share a port.
THEOREM UniquePortsWhenSerial == Spec => []SerialUniquePorts
  <1>1. SerialIInv => SerialUniquePorts
    BY DEF SerialIInv, SInv, SerialUniquePorts
  <1>2. QED BY <1>1, SerialInvariant, PTL

\* ... and port_lock lists the port of every directory.
THEOREM RegisteredWhenSerial == Spec => []SerialRegistered
  <1>1. SerialIInv => SerialRegistered
    BY DEF SerialIInv, SInv, SerialRegistered
  <1>2. QED BY <1>1, SerialInvariant, PTL

\* ... and what the call under way carries agrees with the directories.
THEOREM SerialStrengthening == Spec => []SerialInv
  <1>1. SerialIInv => SerialInv
    BY DEF SerialIInv, SInv, SerialInv
  <1>2. QED BY <1>1, SerialInvariant, PTL

\* ... and every step of the registry is one the abstract registry allows: a
\* directory appears with a free, legal port, or gives its port back.
THEOREM SerialRefines == Spec => RefinesPortRegistry
  <1> DEFINE assigned == IF setting.overlap THEN EmptyRegistry ELSE home
  <1>1. Init => Promise!Init
    BY DEF Init, Promise!Init, EmptyRegistry
  <1>2. SerialIInv /\ [Next]_vars => [Promise!Next]_assigned
    <2> SUFFICES ASSUME SerialIInv, [Next]_vars, assigned' # assigned
                 PROVE  Promise!Next
      OBVIOUS
    <2>0. ~setting.overlap /\ setting' = setting /\ home' # home
      BY SettingFixed DEF EmptyRegistry
    <2> USE <2>0 DEF SerialIInv, ConcInv, CallOK, TypeOK, SInv, SerialInv, SerialCall, Exists
    <2>1. ASSUME NEW p \in Procs, Mkdir(p)
          PROVE  Promise!Assign(arg[p]) /\ arg[p] \in Projects
      BY <2>1 DEF Mkdir, Promise!Assign
    <2>2. ASSUME NEW p \in Procs, MoveToArchive(p)
          PROVE  Promise!Release(arg[p]) /\ arg[p] \in Projects
      BY <2>2 DEF MoveToArchive, Promise!Release
    <2>3. \E p \in Procs : Mkdir(p) \/ MoveToArchive(p)
      BY DEF Next, Start, Continue, Allocate, Archive, vars, locals, StartInit,
             StartArchive, OpenPortLock, Flock, ReadPrune, Rewrite, DecideRaise, DecideReuse,
             DecideNew, AppendOpen, AppendWrite, UnlockRaise, UnlockReturn, EndInit,
             ArchiveRaise, PushDone, RemoveRead, RemoveWrite, Crash
    <2>4. QED BY <2>1, <2>2, <2>3 DEF Promise!Next
  <1>3. QED
    BY <1>1, <1>2, SerialInvariant, PTL DEF Spec, RefinesPortRegistry, Promise!Spec
=============================================================================
