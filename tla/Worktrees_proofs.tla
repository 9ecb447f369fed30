-------------------------- MODULE Worktrees_proofs --------------------------
(***************************************************************************)
(* What the git side of pg_init and archive keeps for any number of        *)
(* projects, branches, users and calls: no call takes away what was        *)
(* committed on a project's branch in the project's directory, or the      *)
(* branch a user has checked out, and a new worktree lacks nothing that    *)
(* was there when its pg_init began. None of this is inductive: that a     *)
(* branch is about to be deleted, reset or renamed is known only from what *)
(* the calls have read or are about to do, so WorkInv relates every call's *)
(* next step to the directories, to the worktrees and to the projects two  *)
(* calls have worked on at once (crossed), and WholeInv to what the server *)
(* and the base repository had at the start (asked).                       *)
(***************************************************************************)
EXTENDS Worktrees, TLAPS

Building == InitPcs \ {"allocate", "mkdir"}

\* The types, what the worktrees have checked out, and which steps belong to a branch.
Shape ==
    /\ pc \in [Calls -> {"off"} \cup InitPcs \cup ArchivePcs]
    /\ name \in [Calls -> Projects \cup {NoBranch}]
    /\ target \in [Calls -> Refs \cup {NoBranch}]
    /\ todo \in [Calls -> SUBSET Refs]
    /\ work \in [Projects -> SUBSET Nat] /\ made \in Nat
    /\ dir \subseteq Projects /\ here \subseteq dir /\ here \subseteq DOMAIN worktree
    /\ DOMAIN local \subseteq Refs /\ Master \in DOMAIN local
    /\ \A c \in Calls : /\ name[c] = NoBranch <=> pc[c] = "off"
                        /\ target[c] # NoBranch => pc[c] = "delete"

\* No two worktrees have one branch checked out, and the branch exists.
Checkouts ==
    /\ DOMAIN worktree \subseteq Projects
    /\ \A p \in DOMAIN worktree :
          /\ worktree[p] \in [ref : Refs \cup {Detached}, at : SUBSET Nat]
          /\ worktree[p].ref # Master
          /\ worktree[p].ref # Detached => worktree[p].ref \in DOMAIN local
    /\ \A p, q \in DOMAIN worktree :
          p # q /\ worktree[p].ref = worktree[q].ref => worktree[p].ref = Detached

\* A branch that is about to be deleted has no project directory.
TargetsHomeless == \A c \in Calls : target[c] \in dir => target[c] \in crossed

\* Two calls on one project are remembered.
CrossingsSeen ==
    \A c, d \in Calls : c # d /\ name[c] = name[d] /\ name[c] # NoBranch => name[c] \in crossed

\* While pg_init builds a project, nobody has worked in it, and what its worktree has checked
\* out is the project's branch or the cloud session's.
BuildsUntouched ==
    \A c \in Calls :
       /\ pc[c] \in Building /\ name[c] \notin crossed
          => name[c] \in dir /\ work[name[c]] = {}
       /\ pc[c] \in InitPcs \ {"allocate"} /\ name[c] \in here
          => worktree[name[c]].ref \in {name[c], Detached, Cloud}

\* A project that is being archived is gone once its directory was moved.
ArchivedGone ==
    \A c \in Calls :
       pc[c] \in ArchivePcs \ {"move"} /\ name[c] \in dir => name[c] \in crossed

NoWorkElsewhere == \A p \in Projects \ dir : work[p] = {}

CallsKnown ==
    TargetsHomeless /\ CrossingsSeen /\ BuildsUntouched /\ ArchivedGone /\ NoWorkElsewhere

WorkInv == Shape /\ Checkouts /\ CallsKnown /\ WorkKept
-----------------------------------------------------------------------------
(* The steps that change no branch and no directory. *)

Reading(r) ==
    \/ Allocate(r) \/ ListWorktrees(r) \/ ListBranches(r) \/ ReadRegistry(r)
    \/ CleanupDone(r) \/ Fetch(r) \/ Choose(r) \/ DropRemote(r)

Ending(r) ==
    AllocateRaises(r) \/ InitRaises(r) \/ RemovePortEntry(r) \/ ArchiveRaises(r)

\* Every step keeps the types and each call's branch.
LEMMA ShapeStep ==
    ASSUME Shape, Checkouts, [Next]_vars
    PROVE  Shape'
<1>1. ASSUME NEW r \in Calls, NEW b \in Projects, StartInit(r, b) PROVE Shape'
    BY <1>1, RefsAssumption DEF StartInit, Shape, At, Contended, git, disk, found,
       Goto, Refs, InitPcs, ArchivePcs, CleanupPcs
<1>2. ASSUME NEW r \in Calls, Reading(r) PROVE Shape'
    BY <1>2 DEF Reading, Allocate, ListWorktrees, ListBranches, ReadRegistry,
       CleanupDone, Fetch, Choose, DropRemote, Shape, git, args, found, history,
       Goto, Refs, CheckedOut, disk, Drop, InitPcs, ArchivePcs, Restrict, CleanupPcs
<1>3. ASSUME NEW r \in Calls, Ending(r) PROVE Shape'
    BY <1>3 DEF Ending, AllocateRaises, InitRaises, RemovePortEntry, ArchiveRaises,
       Shape, git, Leave, LeaveInit, DropOrigin, Addable, disk, Drop, Refs, InitPcs, ArchivePcs, Goto,
       CheckedOut, Registered, Restrict, CleanupPcs
<1>4. ASSUME NEW r \in Calls, Mkdir(r) PROVE Shape'
    BY <1>4, RefsAssumption DEF Mkdir, Shape, At, Contended, git, args, found, Goto,
       Refs, InitPcs, ArchivePcs, CleanupPcs
<1>5. ASSUME NEW r \in Calls, UpdateBase(r) PROVE Shape'
    BY <1>5, RefsAssumption DEF UpdateBase, Shape, disk, args, found, history, Goto,
       Refs, InitPcs, ArchivePcs, CleanupPcs
<1>6. ASSUME NEW r \in Calls, Prune(r) PROVE Shape'
    BY <1>6 DEF Prune, Shape, Pruned, disk, args, found, history, Goto, Refs,
       InitPcs, ArchivePcs, Restrict, CleanupPcs
<1>7. ASSUME NEW r \in Calls, NEW b \in Refs, Consider(r, b) PROVE Shape'
    BY <1>7 DEF Consider, Shape, git, disk, args, history, Goto, Refs, InitPcs,
       ArchivePcs, CleanupPcs
<1>8. ASSUME NEW r \in Calls, Delete(r) PROVE Shape'
    BY <1>8 DEF Delete, Shape, DeleteBranch, disk, args, history, Goto, Refs,
       InitPcs, ArchivePcs, CheckedOut, Drop, CleanupPcs, Restrict
<1>9. ASSUME NEW r \in Calls, Add(r) PROVE Shape'
    BY <1>9 DEF Add, Shape, On, Put, Addable, Commit, args, found, history, Goto,
       Refs, InitPcs, ArchivePcs, CheckedOut, Registered, CleanupPcs
<1>10. ASSUME NEW r \in Calls, BuiltAndStarted(r) PROVE Shape'
    BY <1>10, RefsAssumption DEF BuiltAndStarted, Shape, CheckedOut, On, Put, At,
       git, disk, args, found, history, Goto, Refs, InitPcs, ArchivePcs, CleanupPcs
<1>11. ASSUME NEW r \in Calls, Align(r) PROVE Shape'
    BY <1>11, RefsAssumption DEF Align, Shape, Checkouts, CheckedOut, On, Drop, Put,
       disk, Leave, LeaveInit, DropOrigin, Refs, InitPcs, ArchivePcs, Restrict, Goto, CleanupPcs
<1>12. ASSUME NEW r \in Calls, NEW b \in Projects, StartArchive(r, b) PROVE Shape'
    BY <1>12, RefsAssumption DEF StartArchive, Shape, Contended, git, disk, found,
       Goto, Refs, InitPcs, ArchivePcs, CleanupPcs
<1>13. ASSUME NEW r \in Calls, Move(r) PROVE Shape'
    BY <1>13 DEF Move, Shape, git, args, found, Goto, Refs, InitPcs, ArchivePcs,
       CleanupPcs
<1>14. ASSUME NEW r \in Calls, DropLocal(r) PROVE Shape'
    BY <1>14 DEF DropLocal, Shape, DeleteBranch, disk, args, found, history, Goto,
       Refs, InitPcs, ArchivePcs, CheckedOut, Drop, CleanupPcs, Restrict
<1>15. ASSUME NEW p \in Projects, Commits(p) PROVE Shape'
    BY <1>15 DEF Commits, Shape, Checkouts, InUse, disk, args, found, Refs, InitPcs,
       ArchivePcs, CleanupPcs
<1>16. ASSUME NEW p \in Projects, NEW b \in Refs, Switches(p, b) PROVE Shape'
    BY <1>16 DEF Switches, Shape, CheckedOut, On, Put, InUse, Tip, disk, args,
       found, history, Refs, InitPcs, ArchivePcs, CleanupPcs
<1>17. ASSUME NEW b \in Projects \cup Refs, Pushes(b) \/ Upstream(b) PROVE Shape'
    BY <1>17 DEF Pushes, Upstream, Shape, Put, At, InUse, Tip, disk, args, found,
       history, Refs, InitPcs, ArchivePcs, CleanupPcs
<1>18. CASE UNCHANGED vars
    BY <1>18 DEF Shape, vars, InitPcs, ArchivePcs, git, disk, args, found, history,
       CleanupPcs
<1> QED
    BY <1>1, <1>2, <1>3, <1>4, <1>5, <1>6, <1>7, <1>8, <1>9, <1>10, <1>11, <1>12,
       <1>13, <1>14, <1>15, <1>16, <1>17, <1>18 DEF Next, Call, InitStep,
       ArchiveStep, User, Reading, Ending

\* git's refusals, and that nobody switches branches in a project that is being built, keep
\* every branch in one worktree at most.
LEMMA CheckoutsStep ==
    ASSUME Shape, Checkouts, BuildsUntouched, [Next]_vars
    PROVE  Checkouts'
<1>1. ASSUME NEW r \in Calls, NEW b \in Projects, StartInit(r, b) PROVE Checkouts'
    BY <1>1 DEF StartInit, Checkouts, At, Contended, git, disk, found, Goto, Refs
<1>2. ASSUME NEW r \in Calls, Reading(r) PROVE Checkouts'
    BY <1>2 DEF Reading, Allocate, ListWorktrees, ListBranches, ReadRegistry,
       CleanupDone, Fetch, Choose, DropRemote, Checkouts, git, args, found, history,
       Goto, Refs, CheckedOut, disk, Drop, Restrict
<1>3. ASSUME NEW r \in Calls, Ending(r) PROVE Checkouts'
    BY <1>3 DEF Ending, AllocateRaises, InitRaises, RemovePortEntry, ArchiveRaises,
       Checkouts, git, Leave, LeaveInit, DropOrigin, Addable, disk, Drop, Refs, Goto, CheckedOut,
       Registered, Restrict
<1>4. ASSUME NEW r \in Calls, Mkdir(r) PROVE Checkouts'
    BY <1>4 DEF Mkdir, Checkouts, At, Contended, git, args, found, Goto, Refs
<1>5. ASSUME NEW r \in Calls, UpdateBase(r) PROVE Checkouts'
    BY <1>5, RefsAssumption DEF UpdateBase, Checkouts, Shape, disk, args, found,
       history, Goto, Refs, InitPcs, ArchivePcs, CleanupPcs
<1>6. ASSUME NEW r \in Calls, Prune(r) PROVE Checkouts'
    BY <1>6 DEF Prune, Checkouts, Shape, Pruned, disk, args, found, history, Goto,
       Refs, InitPcs, ArchivePcs, Restrict, CleanupPcs
<1>7. ASSUME NEW r \in Calls, NEW b \in Refs, Consider(r, b) PROVE Checkouts'
    BY <1>7 DEF Consider, Checkouts, git, disk, args, history, Goto, Refs
<1>8. ASSUME NEW r \in Calls, Delete(r) PROVE Checkouts'
    BY <1>8 DEF Delete, Checkouts, Shape, DeleteBranch, disk, args, history, Goto,
       Refs, InitPcs, ArchivePcs, CheckedOut, Drop, CleanupPcs, Restrict
<1>9. ASSUME NEW r \in Calls, Add(r) PROVE Checkouts'
    BY <1>9, RefsAssumption DEF Add, Checkouts, Shape, On, Put, Addable, Commit,
       args, found, history, Goto, Refs, InitPcs, ArchivePcs, CheckedOut,
       Registered, CleanupPcs
<1>10. ASSUME NEW r \in Calls, BuiltAndStarted(r) PROVE Checkouts'
    BY <1>10, RefsAssumption DEF BuiltAndStarted, Checkouts, Shape, CheckedOut, On,
       Put, At, git, disk, args, found, history, Goto, Refs, InitPcs, ArchivePcs,
       CleanupPcs
<1>11. ASSUME NEW r \in Calls, Align(r) PROVE Checkouts'
    BY <1>11, RefsAssumption DEF Align, Checkouts, Shape, BuildsUntouched,
       CheckedOut, On, Drop, Put, disk, Leave, LeaveInit, DropOrigin, Refs, InitPcs, ArchivePcs, Building,
       Restrict, Goto, CleanupPcs
<1>12. ASSUME NEW r \in Calls, NEW b \in Projects, StartArchive(r, b) PROVE Checkouts'
    BY <1>12 DEF StartArchive, Checkouts, Contended, git, disk, found, Goto, Refs
<1>13. ASSUME NEW r \in Calls, Move(r) PROVE Checkouts'
    BY <1>13 DEF Move, Checkouts, git, args, found, Goto, Refs
<1>14. ASSUME NEW r \in Calls, DropLocal(r) PROVE Checkouts'
    BY <1>14 DEF DropLocal, Checkouts, Shape, DeleteBranch, disk, args, found,
       history, Goto, Refs, InitPcs, ArchivePcs, CheckedOut, Drop, CleanupPcs,
       Restrict
<1>15. ASSUME NEW p \in Projects, Commits(p) PROVE Checkouts'
    BY <1>15 DEF Commits, Checkouts, Shape, InUse, disk, args, found, Refs, InitPcs,
       ArchivePcs, CleanupPcs
<1>16. ASSUME NEW p \in Projects, NEW b \in Refs, Switches(p, b) PROVE Checkouts'
    BY <1>16, RefsAssumption DEF Switches, Checkouts, Shape, CheckedOut, On, Put,
       InUse, Tip, disk, args, found, history, Refs, InitPcs, ArchivePcs, CleanupPcs
<1>17. ASSUME NEW b \in Projects \cup Refs, Pushes(b) \/ Upstream(b) PROVE Checkouts'
    BY <1>17 DEF Pushes, Upstream, Checkouts, Put, At, InUse, Tip, disk, args,
       found, history, Refs, InitPcs, CleanupPcs
<1>18. CASE UNCHANGED vars
    BY <1>18 DEF Checkouts, vars, git, disk, args, found, history
<1> QED
    BY <1>1, <1>2, <1>3, <1>4, <1>5, <1>6, <1>7, <1>8, <1>9, <1>10, <1>11, <1>12,
       <1>13, <1>14, <1>15, <1>16, <1>17, <1>18 DEF Next, Call, InitStep,
       ArchiveStep, User, Reading, Ending

\* What is known of the calls.
LEMMA CallsStep ==
    ASSUME WorkInv, [Next]_vars
    PROVE  CallsKnown'
<1>1. ASSUME NEW r \in Calls, NEW b \in Projects, StartInit(r, b) PROVE CallsKnown'
    BY <1>1, RefsAssumption DEF StartInit, CallsKnown, TargetsHomeless,
       CrossingsSeen, BuildsUntouched, ArchivedGone, NoWorkElsewhere, Shape,
       WorkInv, At, Contended, git, disk, found, Goto, InitPcs, Building,
       ArchivePcs, Refs, CleanupPcs
<1>2. ASSUME NEW r \in Calls, Reading(r) PROVE CallsKnown'
    BY <1>2 DEF Reading, Allocate, ListWorktrees, ListBranches, ReadRegistry,
       CleanupDone, Fetch, Choose, DropRemote, CallsKnown, TargetsHomeless,
       CrossingsSeen, BuildsUntouched, ArchivedGone, NoWorkElsewhere, Shape,
       WorkInv, git, args, found, history, Goto, Refs, CheckedOut, disk, Drop,
       InitPcs, Building, ArchivePcs, Restrict, CleanupPcs
<1>3. ASSUME NEW r \in Calls, Ending(r) PROVE CallsKnown'
    BY <1>3 DEF Ending, AllocateRaises, InitRaises, RemovePortEntry, ArchiveRaises,
       CallsKnown, TargetsHomeless, CrossingsSeen, BuildsUntouched, ArchivedGone,
       NoWorkElsewhere, Shape, WorkInv, git, Leave, LeaveInit, DropOrigin, Addable, disk, Drop, InitPcs,
       Building, ArchivePcs, Refs, Goto, CheckedOut, Registered, Restrict,
       CleanupPcs
<1>4. ASSUME NEW r \in Calls, Mkdir(r) PROVE CallsKnown'
    BY <1>4, RefsAssumption DEF Mkdir, CallsKnown, TargetsHomeless, CrossingsSeen,
       BuildsUntouched, ArchivedGone, NoWorkElsewhere, Shape, WorkInv, At,
       Contended, git, args, found, Goto, InitPcs, Building, ArchivePcs, Refs,
       CleanupPcs
<1>5. ASSUME NEW r \in Calls, UpdateBase(r) PROVE CallsKnown'
    BY <1>5 DEF UpdateBase, CallsKnown, TargetsHomeless, CrossingsSeen,
       BuildsUntouched, ArchivedGone, NoWorkElsewhere, Shape, WorkInv, disk, args,
       found, history, Goto, InitPcs, Building, ArchivePcs, Refs, CleanupPcs
<1>6. ASSUME NEW r \in Calls, Prune(r) PROVE CallsKnown'
    BY <1>6 DEF Prune, CallsKnown, TargetsHomeless, CrossingsSeen, BuildsUntouched,
       ArchivedGone, NoWorkElsewhere, Shape, WorkInv, Checkouts, Pruned, disk, args,
       found, history, Goto, InitPcs, Building, ArchivePcs, Refs, Restrict,
       CleanupPcs
<1>7. ASSUME NEW r \in Calls, NEW b \in Refs, Consider(r, b) PROVE CallsKnown'
    BY <1>7, RefsAssumption DEF Consider, CallsKnown, TargetsHomeless,
       CrossingsSeen, BuildsUntouched, ArchivedGone, NoWorkElsewhere, Shape,
       WorkInv, git, disk, args, history, Goto, InitPcs, Building, ArchivePcs, Refs,
       CleanupPcs
<1>8. ASSUME NEW r \in Calls, Delete(r) PROVE CallsKnown'
    BY <1>8, RefsAssumption DEF Delete, CallsKnown, TargetsHomeless, CrossingsSeen,
       BuildsUntouched, ArchivedGone, NoWorkElsewhere, Shape, WorkInv, DeleteBranch,
       disk, args, history, Goto, InitPcs, Building, ArchivePcs, Refs, CheckedOut,
       Drop, CleanupPcs, Restrict
<1>9. ASSUME NEW r \in Calls, Add(r) PROVE CallsKnown'
    BY <1>9 DEF Add, CallsKnown, TargetsHomeless, CrossingsSeen, BuildsUntouched,
       ArchivedGone, NoWorkElsewhere, Shape, WorkInv, Checkouts, On, Put, Addable,
       Commit, args, found, history, Goto, InitPcs, Building, ArchivePcs, Refs,
       CheckedOut, Registered, CleanupPcs
<1>10. ASSUME NEW r \in Calls, BuiltAndStarted(r) PROVE CallsKnown'
    BY <1>10, RefsAssumption DEF BuiltAndStarted, CallsKnown, TargetsHomeless,
       CrossingsSeen, BuildsUntouched, ArchivedGone, NoWorkElsewhere, Shape,
       WorkInv, Checkouts, CheckedOut, On, Put, At, git, disk, args, found, history,
       Goto, InitPcs, Building, ArchivePcs, Refs, CleanupPcs
<1>11. ASSUME NEW r \in Calls, Align(r) PROVE CallsKnown'
    BY <1>11, RefsAssumption DEF Align, CallsKnown, TargetsHomeless, CrossingsSeen,
       BuildsUntouched, ArchivedGone, NoWorkElsewhere, Shape, WorkInv, Checkouts,
       CheckedOut, On, Drop, Put, disk, Leave, LeaveInit, DropOrigin, InitPcs, Building, ArchivePcs, Refs,
       Restrict, Goto, CleanupPcs
<1>12. ASSUME NEW r \in Calls, NEW b \in Projects, StartArchive(r, b) PROVE CallsKnown'
    BY <1>12, RefsAssumption DEF StartArchive, CallsKnown, TargetsHomeless,
       CrossingsSeen, BuildsUntouched, ArchivedGone, NoWorkElsewhere, Shape,
       WorkInv, Contended, git, disk, found, Goto, InitPcs, Building, ArchivePcs,
       Refs, CleanupPcs
<1>13. ASSUME NEW r \in Calls, Move(r) PROVE CallsKnown'
    BY <1>13 DEF Move, CallsKnown, TargetsHomeless, CrossingsSeen, BuildsUntouched,
       ArchivedGone, NoWorkElsewhere, Shape, WorkInv, git, args, found, Goto,
       InitPcs, Building, ArchivePcs, Refs, CleanupPcs
<1>14. ASSUME NEW r \in Calls, DropLocal(r) PROVE CallsKnown'
    BY <1>14 DEF DropLocal, CallsKnown, TargetsHomeless, CrossingsSeen,
       BuildsUntouched, ArchivedGone, NoWorkElsewhere, Shape, WorkInv, DeleteBranch,
       disk, args, found, history, Goto, InitPcs, Building, ArchivePcs, Refs,
       CheckedOut, Drop, CleanupPcs, Restrict
<1>15. ASSUME NEW p \in Projects, Commits(p) PROVE CallsKnown'
    BY <1>15 DEF Commits, CallsKnown, TargetsHomeless, CrossingsSeen,
       BuildsUntouched, ArchivedGone, NoWorkElsewhere, Shape, WorkInv, Checkouts,
       InUse, disk, args, found, InitPcs, Building, ArchivePcs, Refs, CleanupPcs
<1>16. ASSUME NEW p \in Projects, NEW b \in Refs, Switches(p, b) PROVE CallsKnown'
    BY <1>16 DEF Switches, CallsKnown, TargetsHomeless, CrossingsSeen,
       BuildsUntouched, ArchivedGone, NoWorkElsewhere, Shape, WorkInv, Checkouts,
       CheckedOut, On, Put, InUse, Tip, disk, args, found, history, InitPcs,
       Building, ArchivePcs, Refs, CleanupPcs
<1>17. ASSUME NEW b \in Projects \cup Refs, Pushes(b) \/ Upstream(b) PROVE CallsKnown'
    BY <1>17 DEF Pushes, Upstream, CallsKnown, TargetsHomeless, CrossingsSeen,
       BuildsUntouched, ArchivedGone, NoWorkElsewhere, Shape, WorkInv, Put, At,
       InUse, Tip, disk, args, found, history, InitPcs, Building, ArchivePcs, Refs,
       CleanupPcs
<1>18. CASE UNCHANGED vars
    BY <1>18 DEF CallsKnown, TargetsHomeless, CrossingsSeen, BuildsUntouched,
       ArchivedGone, NoWorkElsewhere, Shape, WorkInv, vars, Building, InitPcs,
       ArchivePcs, git, disk, args, found, history, CleanupPcs
<1> QED
    BY <1>1, <1>2, <1>3, <1>4, <1>5, <1>6, <1>7, <1>8, <1>9, <1>10, <1>11, <1>12,
       <1>13, <1>14, <1>15, <1>16, <1>17, <1>18 DEF Next, Call, InitStep,
       ArchiveStep, User, Reading, Ending

\* No step takes away work on a project's branch.
LEMMA WorkStep ==
    ASSUME WorkInv, [Next]_vars
    PROVE  WorkKept'
<1>1. ASSUME NEW r \in Calls, NEW b \in Projects, StartInit(r, b) PROVE WorkKept'
    BY <1>1 DEF StartInit, WorkKept, WorkInv, At, Contended, git, disk, found, Goto
<1>2. ASSUME NEW r \in Calls, Reading(r) PROVE WorkKept'
    BY <1>2 DEF Reading, Allocate, ListWorktrees, ListBranches, ReadRegistry,
       CleanupDone, Fetch, Choose, DropRemote, WorkKept, WorkInv, git, args, found,
       history, Goto, Refs, CheckedOut, disk, Drop, At, Restrict
<1>3. ASSUME NEW r \in Calls, Ending(r) PROVE WorkKept'
    BY <1>3 DEF Ending, AllocateRaises, InitRaises, RemovePortEntry, ArchiveRaises,
       WorkKept, WorkInv, git, Leave, LeaveInit, DropOrigin, Addable, disk, Drop, At, Goto, CheckedOut,
       Registered, Restrict
<1>4. ASSUME NEW r \in Calls, Mkdir(r) PROVE WorkKept'
    BY <1>4 DEF Mkdir, WorkKept, WorkInv, CallsKnown, NoWorkElsewhere, Shape, At,
       Contended, git, args, found, Goto, Refs, InitPcs, ArchivePcs, CleanupPcs
<1>5. ASSUME NEW r \in Calls, UpdateBase(r) PROVE WorkKept'
    BY <1>5, RefsAssumption DEF UpdateBase, WorkKept, WorkInv, Shape, disk, args,
       found, history, Goto, At, Refs, InitPcs, ArchivePcs, CleanupPcs
<1>6. ASSUME NEW r \in Calls, Prune(r) PROVE WorkKept'
    BY <1>6 DEF Prune, WorkKept, WorkInv, Pruned, disk, args, found, history, Goto,
       At, Restrict
<1>7. ASSUME NEW r \in Calls, NEW b \in Refs, Consider(r, b) PROVE WorkKept'
    BY <1>7 DEF Consider, WorkKept, WorkInv, git, disk, args, history, Goto, At
<1>8. ASSUME NEW r \in Calls, Delete(r) PROVE WorkKept'
    BY <1>8 DEF Delete, WorkKept, WorkInv, CallsKnown, TargetsHomeless,
       DeleteBranch, disk, args, history, Goto, At, CheckedOut, Drop, Restrict
<1>9. ASSUME NEW r \in Calls, Add(r) PROVE WorkKept'
    BY <1>9 DEF Add, WorkKept, WorkInv, CallsKnown, BuildsUntouched, Building,
       Shape, On, Put, Addable, Commit, args, found, history, Goto, At, InitPcs,
       Refs, ArchivePcs, CheckedOut, Registered, CleanupPcs
<1>10. ASSUME NEW r \in Calls, BuiltAndStarted(r) PROVE WorkKept'
    BY <1>10, RefsAssumption DEF BuiltAndStarted, WorkKept, WorkInv, Shape,
       CheckedOut, On, Put, At, git, disk, args, found, history, Goto, Refs,
       InitPcs, ArchivePcs, CleanupPcs
<1>11. ASSUME NEW r \in Calls, Align(r) PROVE WorkKept'
  <2> DEFINE q == name[r]
             current == IF q \in here THEN worktree[q].ref ELSE Detached
  <2>1. q \in Projects /\ pc[r] \in Building /\ pc[r] \in InitPcs \ {"allocate"}
    BY <1>11 DEF Align, WorkInv, Shape, Building, InitPcs
  <2>2. dir' = dir /\ crossed' = crossed /\ work' = work
    BY <1>11 DEF Align, Leave, LeaveInit, DropOrigin, disk
  <2>3. CASE local' = local
    BY <2>2, <2>3 DEF WorkInv, WorkKept, At
  <2>4. CASE /\ current \notin {Detached, q}
             /\ local' = Put(Drop(local, current), q, local[current])
    \* the branch that is renamed is the cloud session's
    <3>1. current = Cloud
      BY <2>1, <2>4 DEF WorkInv, CallsKnown, BuildsUntouched
    <3>2. ASSUME NEW p \in dir \ crossed PROVE work[p] \subseteq At(local', p)
      <4>1. CASE p = q
        BY <2>1, <4>1, <3>2 DEF WorkInv, CallsKnown, BuildsUntouched
      <4>2. CASE p # q
        <5>1. p # Cloud /\ p \in Projects
          BY <3>2, RefsAssumption DEF WorkInv, Shape
        <5>2. At(local', p) = At(local, p)
          BY <2>4, <3>1, <4>2, <5>1 DEF At, Put, Drop, Restrict
        <5> QED
          BY <3>2, <5>2 DEF WorkInv, WorkKept
      <4> QED
        BY <4>1, <4>2
    <3> QED
      BY <2>2, <3>2 DEF WorkKept
  <2> QED
    BY <1>11, <2>3, <2>4 DEF Align
<1>12. ASSUME NEW r \in Calls, NEW b \in Projects, StartArchive(r, b) PROVE WorkKept'
    BY <1>12 DEF StartArchive, WorkKept, WorkInv, Contended, git, disk, found, Goto,
       At
<1>13. ASSUME NEW r \in Calls, Move(r) PROVE WorkKept'
    BY <1>13 DEF Move, WorkKept, WorkInv, Shape, git, args, found, Goto, At, Refs,
       InitPcs, ArchivePcs, CleanupPcs
<1>14. ASSUME NEW r \in Calls, DropLocal(r) PROVE WorkKept'
    BY <1>14 DEF DropLocal, WorkKept, WorkInv, CallsKnown, ArchivedGone, Shape,
       DeleteBranch, disk, args, found, history, Goto, At, ArchivePcs, Refs,
       InitPcs, CheckedOut, Drop, CleanupPcs, Restrict
<1>15. ASSUME NEW p \in Projects, Commits(p) PROVE WorkKept'
    BY <1>15, RefsAssumption DEF Commits, WorkKept, WorkInv, Shape, Checkouts,
       InUse, disk, args, found, At, Refs, InitPcs, ArchivePcs, CleanupPcs
<1>16. ASSUME NEW p \in Projects, NEW b \in Refs, Switches(p, b) PROVE WorkKept'
    BY <1>16 DEF Switches, WorkKept, WorkInv, CheckedOut, On, Put, InUse, Tip, disk,
       args, found, history, At, InitPcs, CleanupPcs
<1>17. ASSUME NEW b \in Projects \cup Refs, Pushes(b) \/ Upstream(b) PROVE WorkKept'
    BY <1>17 DEF Pushes, Upstream, WorkKept, WorkInv, Put, At, InUse, Tip, disk,
       args, found, history, InitPcs, CleanupPcs
<1>18. CASE UNCHANGED vars
    BY <1>18 DEF WorkKept, WorkInv, vars, At, git, disk, args, found, history
<1> QED
    BY <1>1, <1>2, <1>3, <1>4, <1>5, <1>6, <1>7, <1>8, <1>9, <1>10, <1>11, <1>12,
       <1>13, <1>14, <1>15, <1>16, <1>17, <1>18 DEF Next, Call, InitStep,
       ArchiveStep, User, Reading, Ending

-----------------------------------------------------------------------------
\* The conjuncts are kept together, each under its own lemma.
LEMMA WorkInvStep ==
    ASSUME WorkInv, [Next]_vars
    PROVE  WorkInv'
<1>1. Shape'
    BY ShapeStep DEF WorkInv
<1>2. Checkouts'
    BY CheckoutsStep DEF WorkInv, CallsKnown
<1>3. CallsKnown' /\ WorkKept'
    BY CallsStep, WorkStep
<1> QED
    BY <1>1, <1>2, <1>3 DEF WorkInv

\* At first there are no projects and no calls.
LEMMA WorkInvInit ==
    ASSUME Init
    PROVE  WorkInv
<1>1. Shape
  <2>1. made \in Nat /\ DOMAIN local \subseteq Refs /\ Master \in DOMAIN local
    BY SettingsAssumption DEF Init
  <2>2. /\ pc \in [Calls -> {"off"}] /\ name \in [Calls -> {NoBranch}]
        /\ target \in [Calls -> {NoBranch}] /\ todo \in [Calls -> {{}}]
    BY DEF Init
  <2>3. /\ dir \subseteq Projects /\ here \subseteq dir /\ here \subseteq DOMAIN worktree
        /\ work \in [Projects -> SUBSET Nat]
    BY DEF Init
  <2> QED
    BY <2>1, <2>2, <2>3 DEF Shape
<1>2. Checkouts
  <2>1. DOMAIN worktree = {}
    BY DEF Init
  <2> QED
    BY <2>1 DEF Checkouts
<1>3. CallsKnown /\ WorkKept
  <2>1. /\ dir = {} /\ here = {} /\ crossed = {}
        /\ \A p \in Projects : work[p] = {}
        /\ \A c \in Calls : pc[c] = "off" /\ name[c] = NoBranch
    BY DEF Init
  <2> QED
    BY <2>1 DEF CallsKnown, TargetsHomeless, CrossingsSeen, BuildsUntouched, Building,
       InitPcs, CleanupPcs, ArchivedGone, ArchivePcs, NoWorkElsewhere, WorkKept
<1> QED
    BY <1>1, <1>2, <1>3 DEF WorkInv

\* Whatever pg_inits, archives and users do at once, work committed on a project's branch in
\* the project's directory stays on that branch until the project is archived, unless two
\* calls worked on that very project at the same time.
THEOREM WorkIsKept == Spec => []WorkKept
<1>1. Init => WorkInv
    BY WorkInvInit
<1>2. WorkInv /\ [Next]_vars => WorkInv'
    BY WorkInvStep
<1>3. WorkInv => WorkKept
    BY DEF WorkInv
<1> QED
    BY <1>1, <1>2, <1>3, PTL DEF Spec

\* No two worktrees ever have one branch checked out, and none loses the branch it is on.
THEOREM BranchesInOneWorktree == Spec => []Checkouts
<1>1. Init => WorkInv
    BY WorkInvInit
<1>2. WorkInv /\ [Next]_vars => WorkInv'
    BY WorkInvStep
<1>3. WorkInv => Checkouts
    BY DEF WorkInv
<1> QED
    BY <1>1, <1>2, <1>3, PTL DEF Spec

-----------------------------------------------------------------------------
\* No step of a call deletes, resets or renames a branch that somebody's worktree is on.
LEMMA CheckedOutStep ==
    ASSUME WorkInv, [Next]_vars,
           NEW p \in Projects, InUse(p), p \in here', worktree'[p] = worktree[p], made' = made
    PROVE  /\ worktree[p].ref \in DOMAIN local' \cup {Detached}
           /\ Tip(p)' = Tip(p)
<1> DEFINE Stands == /\ worktree[p].ref \in DOMAIN local' \cup {Detached}
                     /\ Tip(p)' = Tip(p)
<1>1. /\ p \in DOMAIN worktree /\ worktree[p].ref # Master
      /\ worktree[p].ref # Detached => CheckedOut(worktree[p].ref)
      /\ worktree[p].ref \in DOMAIN local \cup {Detached}
    BY DEF WorkInv, Shape, Checkouts, InUse, CheckedOut
<1>2. CASE local' = local
    BY <1>1, <1>2 DEF Tip
<1>3. ASSUME NEW r \in Calls, UpdateBase(r) PROVE Stands
    BY <1>1, <1>3 DEF UpdateBase, Tip
<1>4. ASSUME NEW r \in Calls, Delete(r) \/ DropLocal(r) PROVE Stands
    BY <1>1, <1>4 DEF Delete, DropLocal, DeleteBranch, Drop, Restrict, Tip
<1>5. ASSUME NEW r \in Calls, Add(r) PROVE Stands
    BY <1>1, <1>5 DEF Add, Addable, Put, On, Tip, CheckedOut
<1>6. ASSUME NEW r \in Calls, BuiltAndStarted(r) PROVE Stands
    BY <1>1, <1>6 DEF BuiltAndStarted, Put, Tip, git
<1>7. ASSUME NEW r \in Calls, Align(r) PROVE Stands
  \* pg_init is over for nobody's worktree but its own project's
  <2>1. p # name[r] /\ name[r] \in Projects
    BY <1>7 DEF Align, InUse, InitPcs, WorkInv, Shape
  <2>2. name[r] \in here => worktree[name[r]].ref # worktree[p].ref \/ worktree[p].ref = Detached
    BY <1>1, <2>1 DEF WorkInv, Shape, Checkouts
  <2> DEFINE current == worktree[name[r]].ref
  <2>3. CASE worktree[p].ref = Detached
    BY <2>3 DEF Tip
  <2>4. CASE /\ worktree[p].ref # Detached /\ name[r] \in here /\ ~CheckedOut(name[r])
             /\ local' = Put(Drop(local, current), name[r], local[current])
    <3>1. worktree[p].ref \notin {name[r], current} /\ worktree[p].ref \in DOMAIN local
      BY <1>1, <2>2, <2>4
    <3> QED
      BY <2>4, <3>1 DEF Put, Drop, Restrict, Tip
  <2> QED
    BY <1>2, <1>7, <2>3, <2>4 DEF Align
<1>8. ASSUME NEW q \in Projects, Commits(q) PROVE FALSE
    BY <1>8 DEF Commits, WorkInv, Shape
<1>9. ASSUME NEW q \in Projects, NEW b \in Refs, Switches(q, b) PROVE Stands
    BY <1>1, <1>9 DEF Switches, Put, Tip
<1>10. ASSUME local' # local PROVE Stands
  <2>1. \/ \E r \in Calls : \/ UpdateBase(r) \/ Delete(r) \/ DropLocal(r) \/ Add(r)
                            \/ BuiltAndStarted(r) \/ Align(r)
        \/ \E q \in Projects : Commits(q)
        \/ \E q \in Projects, b \in Refs : Switches(q, b)
    BY <1>10 DEF Next, vars, Call, InitStep, ArchiveStep, User, git, StartInit, StartArchive,
       Allocate, AllocateRaises, Mkdir, Prune, ListWorktrees, ListBranches, ReadRegistry,
       Consider, CleanupDone, Fetch, Choose, InitRaises, Move, DropRemote, RemovePortEntry,
       ArchiveRaises, Pushes, Upstream
  <2> QED
    BY <2>1, <1>3, <1>4, <1>5, <1>6, <1>7, <1>8, <1>9
<1> QED
    BY <1>2, <1>10

\* What a user has checked out never changes under his hands: whatever others clean up,
\* archive, set up or rename, his branch stays and stays at its commit.
THEOREM CheckedOutIsSafe == Spec => CheckedOutStands
<1>1. Init => WorkInv
    BY WorkInvInit
<1>2. WorkInv /\ [Next]_vars => WorkInv'
    BY WorkInvStep
<1>3. WorkInv /\ [Next]_vars =>
        [\A p \in Projects :
            InUse(p) /\ p \in here' /\ worktree'[p] = worktree[p] /\ made' = made
            => /\ worktree[p].ref \in DOMAIN local' \cup {Detached}
               /\ Tip(p)' = Tip(p)]_vars
    BY CheckedOutStep
<1> QED
    BY <1>1, <1>2, <1>3, PTL DEF Spec, CheckedOutStands

-----------------------------------------------------------------------------
(* What a pg_init could find reaches its worktree *)

\* The refs of a repository hold changes that were made.
Contents(f) == DOMAIN f \subseteq Refs /\ \A b \in DOMAIN f : f[b] \subseteq 1 .. made

RefsTyped ==
    /\ Contents(origin) /\ Contents(tracking) /\ Contents(local)
    /\ Master \in DOMAIN origin /\ Master \in DOMAIN tracking
    /\ \A p \in DOMAIN worktree : worktree[p].at \subseteq 1 .. made
    /\ reg \subseteq Projects
    /\ \A c \in Calls : pc[c] = "delete" => target[c] # NoBranch

CallsTyped ==
    /\ base \in [Calls -> Refs]
    /\ source \in [Calls -> {"none", "remote", "local", "tag"} \X (Refs \cup {NoBranch})]

AskedTyped == asked = [c \in Calls |-> [server |-> asked[c].server, local |-> asked[c].local]]

\* What the server had is there still, and known here once the pg_init has fetched.
ServerKept ==
    \A c \in Calls : \A b \in DOMAIN asked[c].server :
       /\ b \in DOMAIN origin /\ asked[c].server[b] \subseteq origin[b]
       /\ pc[c] \in {"choose", "add"}
          => b \in DOMAIN tracking /\ asked[c].server[b] \subseteq tracking[b]

\* The local branch of a project is there while its worktree is not, and is chosen if there
\* is no other; a worktree that was just made has the project's branch, or the tag.
LocalKept ==
    \A c \in Calls : name[c] \notin crossed =>
       /\ pc[c] \in Building \ {"made", "align"}
          => name[c] \notin here /\ asked[c].local \subseteq At(local, name[c])
       /\ pc[c] = "add" /\ source[c] \notin {<<"remote", name[c]>>, <<"local", name[c]>>}
          => asked[c].local = {}
       /\ pc[c] = "made" => name[c] \in here /\ worktree[name[c]].ref \in {name[c], Detached}

WholeInv == WorkInv /\ setting \in Settings /\ RefsTyped /\ CallsTyped /\ AskedTyped
            /\ ServerKept /\ LocalKept /\ StartsWhole

LEMMA FetchedContents == ASSUME RefsTyped PROVE Contents(Fetched)
BY DEF RefsTyped, Contents, Fetched

LEMMA PutContents ==
    ASSUME NEW f, NEW b \in Refs, NEW c, Contents(f), c \subseteq 1 .. made
    PROVE  Contents(Put(f, b, c))
BY DEF Contents, Put

LEMMA TipContents ==
    ASSUME RefsTyped, Checkouts, NEW p \in DOMAIN worktree
    PROVE  Tip(p) \subseteq 1 .. made
BY DEF RefsTyped, Contents, Checkouts, Tip

\* Refs only ever hold changes that were made, and master stays.
LEMMA RefsStep ==
    ASSUME Shape, Checkouts, CallsTyped, RefsTyped, [Next]_vars
    PROVE  RefsTyped'
<1>1. ASSUME NEW r \in Calls, NEW b \in Projects, StartInit(r, b) PROVE RefsTyped'
    BY <1>1, RefsAssumption DEF StartInit, At, Contended, Restrict,
       RefsTyped, Contents, CallsTyped, Shape, Checkouts,
       CheckedOut, Refs, InitPcs, ArchivePcs, CleanupPcs,
       git, disk, args, found, history, Goto
<1>2. ASSUME NEW r \in Calls, Reading(r) PROVE RefsTyped'
    BY <1>2, RefsAssumption DEF Reading, Allocate, ListWorktrees, ListBranches, ReadRegistry,
       CleanupDone, Fetch, Choose, DropRemote, DropOrigin, Fetched, FirstOf, Drop, Restrict,
       RefsTyped, Contents, CallsTyped, Shape, Checkouts,
       CheckedOut, Refs, InitPcs, ArchivePcs, CleanupPcs,
       git, disk, args, found, history, Goto
<1>3. ASSUME NEW r \in Calls, Ending(r) PROVE RefsTyped'
  <2>1. /\ UNCHANGED <<tracking, local, worktree, made>> /\ reg' \subseteq reg
        /\ origin' = origin \/ origin' = Drop(origin, name[r])
        /\ pc' = [pc EXCEPT ![r] = "off"] /\ target' = [target EXCEPT ![r] = NoBranch]
    <3>1. CASE AllocateRaises(r)
      BY <3>1 DEF AllocateRaises, Leave, LeaveInit, Goto, git
    <3>2. CASE InitRaises(r)
      BY <3>2 DEF InitRaises, Leave, LeaveInit, Goto, git, disk
    <3>3. CASE RemovePortEntry(r)
      BY <3>3 DEF RemovePortEntry, Leave, Goto, git
    <3>4. CASE ArchiveRaises(r)
      BY <3>4 DEF ArchiveRaises, Leave, DropOrigin, Goto, disk
    <3> QED BY <1>3, <3>1, <3>2, <3>3, <3>4 DEF Ending
  <2>2. name[r] # Master
    BY RefsAssumption DEF Shape
  <2>3. Contents(origin)' /\ Master \in DOMAIN origin'
    BY <2>1, <2>2 DEF RefsTyped, Contents, Drop, Restrict
  <2> QED BY <2>1, <2>3 DEF RefsTyped, Contents, Shape
<1>4. ASSUME NEW r \in Calls, Mkdir(r) PROVE RefsTyped'
    BY <1>4, RefsAssumption DEF Mkdir,
       RefsTyped, Contents, CallsTyped, Shape, Checkouts,
       CheckedOut, Refs, InitPcs, ArchivePcs, CleanupPcs,
       git, disk, args, found, history, Goto
<1>5. ASSUME NEW r \in Calls, UpdateBase(r) PROVE RefsTyped'
  <2>1. UNCHANGED <<origin, worktree, reg, made, target>> /\ pc' = [pc EXCEPT ![r] = "prune"]
    BY <1>5 DEF UpdateBase, disk, found, history, Goto
  <2>2. Contents(tracking') /\ Master \in DOMAIN tracking'
    BY <1>5, FetchedContents DEF UpdateBase, RefsTyped, Fetched
  <2>3. Contents(local')
    BY <1>5 DEF UpdateBase, RefsTyped, Contents
  <2> QED
    BY <2>1, <2>2, <2>3 DEF RefsTyped, Contents, Shape
<1>6. ASSUME NEW r \in Calls, Prune(r) PROVE RefsTyped'
    BY <1>6, RefsAssumption DEF Prune, Pruned, Restrict,
       RefsTyped, Contents, CallsTyped, Shape, Checkouts,
       CheckedOut, Refs, InitPcs, ArchivePcs, CleanupPcs,
       git, disk, args, found, history, Goto
<1>7. ASSUME NEW r \in Calls, NEW b \in Refs, Consider(r, b) PROVE RefsTyped'
    BY <1>7, RefsAssumption DEF Consider,
       RefsTyped, Contents, CallsTyped, Shape, Checkouts,
       CheckedOut, Refs, InitPcs, ArchivePcs, CleanupPcs,
       git, disk, args, found, history, Goto
<1>8. ASSUME NEW r \in Calls, Delete(r) PROVE RefsTyped'
    BY <1>8, RefsAssumption DEF Delete, DeleteBranch, Drop, Restrict,
       RefsTyped, Contents, CallsTyped, Shape, Checkouts,
       CheckedOut, Refs, InitPcs, ArchivePcs, CleanupPcs,
       git, disk, args, found, history, Goto
<1>9. ASSUME NEW r \in Calls, Add(r) PROVE RefsTyped'
  <2>1. /\ UNCHANGED <<origin, tracking, reg, made, target>> /\ pc' = [pc EXCEPT ![r] = "made"]
        /\ \/ worktree' = Put(worktree, name[r], [ref |-> Detached, at |-> Commit(source[r])])
              /\ local' = local
           \/ worktree' = Put(worktree, name[r], On(name[r]))
              /\ local' = Put(local, name[r], Commit(source[r]))
    BY <1>9 DEF Add, found, history, Goto
  <2>2. Commit(source[r]) \subseteq 1 .. made
    <3>1. PICK k \in {"none", "remote", "local", "tag"}, b \in Refs \cup {NoBranch} : source[r] = <<k, b>>
      BY DEF CallsTyped
    <3>2. Exists(<<k, b>>)
      BY <1>9, <3>1 DEF Add, Addable
    <3> QED
      BY <3>1, <3>2 DEF Exists, Commit, RefsTyped, Contents
  <2>3. name[r] \in Refs
    BY <1>9, RefsAssumption DEF Add, Shape, Refs
  <2>4. Contents(local')
    BY <2>1, <2>2, <2>3, PutContents DEF RefsTyped
  <2>5. \A p \in DOMAIN worktree' : worktree'[p].at \subseteq 1 .. made
    BY <2>1, <2>2 DEF RefsTyped, Put, On
  <2> QED
    BY <2>1, <2>4, <2>5 DEF RefsTyped, Contents, Shape
<1>10. ASSUME NEW r \in Calls, BuiltAndStarted(r) PROVE RefsTyped'
  <2>1. UNCHANGED <<origin, reg, made, target>> /\ pc' = [pc EXCEPT ![r] = "align"]
    BY <1>10 DEF BuiltAndStarted, git, disk, found, history, Goto
  <2>2. CASE UNCHANGED git
    BY <2>1, <2>2 DEF RefsTyped, Contents, Shape, git
  <2>3. CASE /\ worktree' = [worktree EXCEPT ![name[r]] = On(Cloud)]
             /\ tracking' = Fetched
             /\ local' = Put(local, Cloud, At(local, Cloud) \cup At(origin, Cloud))
    <3>1. Contents(tracking') /\ Master \in DOMAIN tracking'
      BY <2>3, FetchedContents DEF RefsTyped, Fetched
    <3>2. At(local, Cloud) \cup At(origin, Cloud) \subseteq 1 .. made
      BY DEF RefsTyped, Contents, At
    <3>3. Contents(local')
      BY <2>3, <3>2, PutContents, RefsAssumption DEF RefsTyped, Refs
    <3> QED
      BY <2>1, <2>3, <3>1, <3>3 DEF RefsTyped, Contents, Shape, On
  <2> QED
    BY <1>10, <2>2, <2>3 DEF BuiltAndStarted
<1>11. ASSUME NEW r \in Calls, Align(r) PROVE RefsTyped'
  <2>1. /\ UNCHANGED <<origin, tracking, reg, made>> /\ pc' = [pc EXCEPT ![r] = "off"]
        /\ target' = [target EXCEPT ![r] = NoBranch]
    BY <1>11 DEF Align, Leave, LeaveInit, disk, Goto
  <2> DEFINE current == worktree[name[r]].ref
  <2>2. CASE UNCHANGED <<local, worktree>>
    BY <2>1, <2>2 DEF RefsTyped, Contents, Shape
  <2>3. CASE /\ name[r] \in here /\ current # Detached
             /\ local' = Put(Drop(local, current), name[r], local[current])
             /\ worktree' = [worktree EXCEPT ![name[r]] = On(name[r])]
    <3>1. name[r] \in Refs /\ current \in DOMAIN local
      BY <1>11, <2>3, RefsAssumption DEF Align, Shape, Checkouts, Refs
    <3>2. Contents(Drop(local, current)) /\ local[current] \subseteq 1 .. made
      BY <3>1 DEF RefsTyped, Contents, Drop, Restrict
    <3>3. Contents(local')
      BY <2>3, <3>1, <3>2, PutContents
    <3>4. \A p \in DOMAIN worktree' : worktree'[p].at \subseteq 1 .. made
      BY <2>3 DEF RefsTyped, On
    <3> QED
      BY <2>1, <3>3, <3>4 DEF RefsTyped, Contents, Shape
  <2> QED
    BY <1>11, <2>2, <2>3 DEF Align
<1>12. ASSUME NEW r \in Calls, NEW b \in Projects, StartArchive(r, b) PROVE RefsTyped'
    BY <1>12, RefsAssumption DEF StartArchive,
       RefsTyped, Contents, CallsTyped, Shape, Checkouts,
       CheckedOut, Refs, InitPcs, ArchivePcs, CleanupPcs,
       git, disk, args, found, history, Goto
<1>13. ASSUME NEW r \in Calls, Move(r) PROVE RefsTyped'
    BY <1>13, RefsAssumption DEF Move,
       RefsTyped, Contents, CallsTyped, Shape, Checkouts,
       CheckedOut, Refs, InitPcs, ArchivePcs, CleanupPcs,
       git, disk, args, found, history, Goto
<1>14. ASSUME NEW r \in Calls, DropLocal(r) PROVE RefsTyped'
    BY <1>14, RefsAssumption DEF DropLocal, DeleteBranch, Drop, Restrict,
       RefsTyped, Contents, CallsTyped, Shape, Checkouts,
       CheckedOut, Refs, InitPcs, ArchivePcs, CleanupPcs,
       git, disk, args, found, history, Goto
<1>15. ASSUME NEW p \in Projects, Commits(p) PROVE RefsTyped'
  <2>1. UNCHANGED <<origin, tracking, reg, pc, target>> /\ made' = made + 1
    BY <1>15 DEF Commits, disk, found
  <2>2. made \in Nat /\ 1 .. made \subseteq 1 .. made' /\ made' \in 1 .. made'
    BY <2>1 DEF Shape
  <2>3. p \in DOMAIN worktree /\ (worktree[p].ref # Detached => worktree[p].ref \in DOMAIN local)
    BY <1>15 DEF Commits, InUse, Shape, Checkouts
  <2>4. CASE worktree' = [worktree EXCEPT ![p].at = @ \cup {made'}] /\ local' = local
    BY <2>1, <2>2, <2>4 DEF RefsTyped, Contents, Checkouts
  <2>5. CASE /\ worktree' = worktree
             /\ local' = [local EXCEPT ![worktree[p].ref] = @ \cup {made'}]
    BY <2>1, <2>2, <2>5 DEF RefsTyped, Contents
  <2> QED
    BY <1>15, <2>4, <2>5 DEF Commits
<1>16. ASSUME NEW p \in Projects, NEW b \in Refs, Switches(p, b) PROVE RefsTyped'
  <2>1. UNCHANGED <<origin, tracking, reg, pc, target, made>>
    BY <1>16 DEF Switches, disk, found, history
  <2>2. p \in DOMAIN worktree /\ worktree' = [worktree EXCEPT ![p] = On(b)]
    BY <1>16 DEF Switches, InUse, Shape
  <2>3. Contents(local')
    BY <1>16, <2>2, TipContents, PutContents DEF Switches, RefsTyped
  <2>4. \A q \in DOMAIN worktree' : worktree'[q].at \subseteq 1 .. made
    BY <2>2 DEF RefsTyped, On
  <2> QED
    BY <2>1, <2>3, <2>4 DEF RefsTyped, Contents
<1>17. ASSUME NEW b \in Projects \cup Refs, Pushes(b) \/ Upstream(b) PROVE RefsTyped'
  <2>1. UNCHANGED <<local, worktree, reg, pc, target>>
    BY <1>17 DEF Pushes, Upstream, disk, found, history
  <2>2. CASE Pushes(b)
    <3>1. /\ made' = made /\ b \in DOMAIN worktree /\ worktree[b].ref \in Refs
          /\ origin' = Put(origin, worktree[b].ref, Tip(b))
          /\ tracking' = Put(tracking, worktree[b].ref, Tip(b))
      BY <2>2 DEF Pushes, InUse, Shape, Checkouts, history
    <3>2. Contents(origin') /\ Contents(tracking')
      BY <3>1, TipContents, PutContents DEF RefsTyped
    <3>3. Master \in DOMAIN origin' /\ Master \in DOMAIN tracking'
      BY <3>1 DEF RefsTyped, Put
    <3> QED
      BY <2>1, <3>1, <3>2, <3>3 DEF RefsTyped, Contents
  <2>3. CASE Upstream(b)
    <3>1. /\ made' = made + 1 /\ b \in DOMAIN origin /\ tracking' = tracking
          /\ origin' = [origin EXCEPT ![b] = @ \cup {made'}]
      BY <2>3 DEF Upstream
    <3>2. made \in Nat /\ 1 .. made \subseteq 1 .. made' /\ made' \in 1 .. made'
      BY <3>1 DEF Shape
    <3> QED
      BY <2>1, <3>1, <3>2 DEF RefsTyped, Contents
  <2> QED
    BY <1>17, <2>2, <2>3
<1>18. CASE UNCHANGED vars
    BY <1>18 DEF RefsTyped, Contents, CallsTyped, Shape, Checkouts,
       CheckedOut, Refs, InitPcs, ArchivePcs, CleanupPcs, vars, git, disk, args, found, history
<1> QED
    BY <1>1, <1>2, <1>3, <1>4, <1>5, <1>6, <1>7, <1>8, <1>9, <1>10, <1>11, <1>12,
       <1>13, <1>14, <1>15, <1>16, <1>17, <1>18 DEF Next, Call, InitStep,
       ArchiveStep, User, Reading, Ending

\* A pg_init's base and source are refs.
LEMMA CallsTypedStep ==
    ASSUME setting \in Settings, Shape, RefsTyped, CallsTyped, [Next]_vars
    PROVE  CallsTyped'
<1>1. ASSUME NEW r \in Calls, NEW b \in Projects, StartInit(r, b) PROVE CallsTyped'
  <2>1. PICK bb \in setting.bases : base' = [base EXCEPT ![r] = bb] /\ source' = source
    BY <1>1 DEF StartInit, found
  <2>2. bb \in Refs
    BY SettingsAssumption
  <2> QED
    BY <2>1, <2>2 DEF CallsTyped
<1>2. ASSUME NEW r \in Calls, Reading(r) PROVE CallsTyped'
  <2>1. CASE Choose(r)
    <3>1. name[r] \in Projects /\ name[r] \in Refs /\ base[r] \in Refs /\ Master \in Refs
      BY <2>1 DEF Choose, Shape, CallsTyped, Refs
    <3>2. FirstOf(name[r], FirstOf(base[r], <<"remote", Master>>))
          \in {"none", "remote", "local", "tag"} \X (Refs \cup {NoBranch})
      BY <3>1 DEF FirstOf
    <3> QED
      BY <2>1, <3>2 DEF Choose, CallsTyped, args
  <2>2. CASE ~Choose(r)
    BY <1>2, <2>2 DEF Reading, Allocate, ListWorktrees, ListBranches, ReadRegistry, CleanupDone,
       Fetch, DropRemote, CallsTyped, args, found
  <2> QED
    BY <2>1, <2>2
<1>3. ASSUME NEW r \in Calls, Ending(r) PROVE CallsTyped'
    BY <1>3 DEF Ending, AllocateRaises, InitRaises, RemovePortEntry, ArchiveRaises,
       Leave, LeaveInit, CallsTyped, Refs
<1>4. ASSUME NEW r \in Calls, Mkdir(r) PROVE CallsTyped'
    BY <1>4 DEF Mkdir, CallsTyped, args, found
<1>5. ASSUME NEW r \in Calls, UpdateBase(r) PROVE CallsTyped'
    BY <1>5, RefsAssumption DEF UpdateBase, Fetched,
       RefsTyped, CallsTyped, Shape, Refs,
       git, disk, args, found, history, Goto
<1>6. ASSUME NEW r \in Calls, Prune(r) PROVE CallsTyped'
    BY <1>6, RefsAssumption DEF Prune, Pruned, Restrict,
       RefsTyped, CallsTyped, Shape, Refs,
       git, disk, args, found, history, Goto
<1>7. ASSUME NEW r \in Calls, NEW b \in Refs, Consider(r, b) PROVE CallsTyped'
    BY <1>7, RefsAssumption DEF Consider,
       RefsTyped, CallsTyped, Shape, Refs,
       git, disk, args, found, history, Goto
<1>8. ASSUME NEW r \in Calls, Delete(r) PROVE CallsTyped'
    BY <1>8, RefsAssumption DEF Delete, DeleteBranch, Drop, Restrict,
       RefsTyped, CallsTyped, Shape, Refs,
       git, disk, args, found, history, Goto
<1>9. ASSUME NEW r \in Calls, Add(r) PROVE CallsTyped'
    BY <1>9, RefsAssumption DEF Add, Addable, Exists, Commit, Put, On,
       RefsTyped, CallsTyped, Shape, Refs,
       git, disk, args, found, history, Goto
<1>10. ASSUME NEW r \in Calls, BuiltAndStarted(r) PROVE CallsTyped'
    BY <1>10, RefsAssumption DEF BuiltAndStarted, Put, On, At, Fetched,
       RefsTyped, CallsTyped, Shape, Refs,
       git, disk, args, found, history, Goto
<1>11. ASSUME NEW r \in Calls, Align(r) PROVE CallsTyped'
    BY <1>11 DEF Align, Leave, LeaveInit, CallsTyped, Refs
<1>12. ASSUME NEW r \in Calls, NEW b \in Projects, StartArchive(r, b) PROVE CallsTyped'
    BY <1>12, RefsAssumption DEF StartArchive,
       RefsTyped, CallsTyped, Shape, Refs,
       git, disk, args, found, history, Goto
<1>13. ASSUME NEW r \in Calls, Move(r) PROVE CallsTyped'
    BY <1>13, RefsAssumption DEF Move,
       RefsTyped, CallsTyped, Shape, Refs,
       git, disk, args, found, history, Goto
<1>14. ASSUME NEW r \in Calls, DropLocal(r) PROVE CallsTyped'
    BY <1>14, RefsAssumption DEF DropLocal, DeleteBranch, Drop, Restrict,
       RefsTyped, CallsTyped, Shape, Refs,
       git, disk, args, found, history, Goto
<1>15. ASSUME NEW p \in Projects, Commits(p) PROVE CallsTyped'
    BY <1>15, RefsAssumption DEF Commits,
       RefsTyped, CallsTyped, Shape, Refs,
       git, disk, args, found, history, Goto
<1>16. ASSUME NEW p \in Projects, NEW b \in Refs, Switches(p, b) PROVE CallsTyped'
    BY <1>16, RefsAssumption DEF Switches, Put, On, Tip,
       RefsTyped, CallsTyped, Shape, Refs,
       git, disk, args, found, history, Goto
<1>17. ASSUME NEW b \in Projects \cup Refs, Pushes(b) \/ Upstream(b) PROVE CallsTyped'
    BY <1>17, RefsAssumption DEF Pushes, Upstream, Put, At, Tip,
       RefsTyped, CallsTyped, Shape, Refs,
       git, disk, args, found, history, Goto
<1>18. CASE UNCHANGED vars
    BY <1>18 DEF RefsTyped, CallsTyped, Shape, Refs, vars, git, disk, args, found, history
<1> QED
    BY <1>1, <1>2, <1>3, <1>4, <1>5, <1>6, <1>7, <1>8, <1>9, <1>10, <1>11, <1>12,
       <1>13, <1>14, <1>15, <1>16, <1>17, <1>18 DEF Next, Call, InitStep,
       ArchiveStep, User, Reading, Ending

\* What a step does to what is remembered of the pg_inits.
LEMMA AskedStep ==
    ASSUME AskedTyped, [Next]_vars
    PROVE  AskedTyped'
<1>1. ASSUME NEW r \in Calls, NEW s, NEW l, asked' = [asked EXCEPT ![r] = [server |-> s, local |-> l]]
      PROVE  AskedTyped'
    BY <1>1 DEF AskedTyped
<1>2. ASSUME NEW r \in Calls, Mkdir(r) PROVE AskedTyped'
  <2>1. asked' = [asked EXCEPT ![r].local = At(local, name[r])]
    BY <1>2 DEF Mkdir
  <2>2. ASSUME NEW c \in Calls
        PROVE  asked'[c] = [server |-> asked'[c].server, local |-> asked'[c].local]
    <3>1. asked[c] = [server |-> asked[c].server, local |-> asked[c].local]
      BY DEF AskedTyped
    <3>2. asked'[c] = IF c = r THEN [asked[c] EXCEPT !.local = At(local, name[r])] ELSE asked[c]
      BY <2>1 DEF AskedTyped
    <3>3. asked'[c] = [server |-> asked[c].server,
                       local |-> IF c = r THEN At(local, name[r]) ELSE asked[c].local]
      BY <3>1, <3>2
    <3> QED
      BY <3>3
  <2>3. asked' = [c \in Calls |-> asked'[c]]
    BY <2>1 DEF AskedTyped
  <2> QED
    BY <2>2, <2>3 DEF AskedTyped
<1>3. ASSUME NEW b, DropOrigin(b) PROVE AskedTyped'
  <2>1. asked' = [c \in Calls |-> [asked[c] EXCEPT !.server = Drop(@, b)]]
    BY <1>3 DEF DropOrigin
  <2>2. ASSUME NEW c \in Calls
        PROVE  asked'[c] = [server |-> asked'[c].server, local |-> asked'[c].local]
    <3>1. asked[c] = [server |-> asked[c].server, local |-> asked[c].local]
      BY DEF AskedTyped
    <3>2. asked'[c] = [asked[c] EXCEPT !.server = Drop(@, b)]
      BY <2>1
    <3>3. asked'[c] = [server |-> Drop(asked[c].server, b), local |-> asked[c].local]
      BY <3>1, <3>2
    <3> QED
      BY <3>3
  <2> QED
    BY <2>1, <2>2 DEF AskedTyped
<1>4. ASSUME NEW r \in Calls, NEW b \in Projects, StartInit(r, b) PROVE AskedTyped'
    BY <1>1, <1>4 DEF StartInit
<1>5. ASSUME NEW r \in Calls, LeaveInit(r) PROVE AskedTyped'
    BY <1>1, <1>5 DEF LeaveInit, NothingAsked
<1>6. CASE asked' = asked
    BY <1>6 DEF AskedTyped
<1>7. ASSUME NEW r \in Calls, Call(r) PROVE AskedTyped'
    BY <1>2, <1>3, <1>4, <1>5, <1>6, <1>7 DEF Call, InitStep, ArchiveStep, StartArchive, Allocate,
       AllocateRaises, UpdateBase, Prune, ListWorktrees, ListBranches, ReadRegistry, Consider,
       Delete, CleanupDone, Fetch, Choose, Add, InitRaises, BuiltAndStarted, Align, Move, DropLocal,
       DropRemote, RemovePortEntry, ArchiveRaises, history
<1> QED
    BY <1>6, <1>7 DEF Next, User, Commits, Switches, Pushes, Upstream, history, vars

LEMMA DroppedAsked ==
    ASSUME AskedTyped, NEW b, DropOrigin(b), NEW c \in Calls
    PROVE  /\ DOMAIN asked'[c].server = DOMAIN asked[c].server \ {b}
           /\ \A d \in DOMAIN asked'[c].server : asked'[c].server[d] = asked[c].server[d]
           /\ asked'[c].local = asked[c].local
<1>1. asked'[c] = [server |-> Drop(asked[c].server, b), local |-> asked[c].local]
  BY DEF DropOrigin, AskedTyped
<1>2. asked'[c].server = Drop(asked[c].server, b) /\ asked'[c].local = asked[c].local
  BY <1>1
<1> QED BY <1>2 DEF Drop, Restrict

\* What a pg_init asked for is lost neither on the server nor here.
LEMMA ServerStep ==
    ASSUME Shape, Checkouts, AskedTyped, ServerKept, [Next]_vars
    PROVE  ServerKept'
<1>1. ASSUME NEW r \in Calls, NEW b \in Projects, StartInit(r, b) PROVE ServerKept'
  <2>1. PICK bb \in setting.bases :
          asked' = [asked EXCEPT ![r] = [server |-> Restrict(origin, {b, bb} \cap DOMAIN origin),
                                         local |-> {}]]
    BY <1>1 DEF StartInit
  <2>2. UNCHANGED <<origin, tracking>> /\ pc' = [pc EXCEPT ![r] = "allocate"]
    BY <1>1 DEF StartInit, git, Goto
  <2>3. asked'[r].server = Restrict(origin, {b, bb} \cap DOMAIN origin)
        /\ \A c \in Calls \ {r} : asked'[c] = asked[c]
    BY <2>1 DEF AskedTyped
  <2> QED
    BY <2>2, <2>3 DEF ServerKept, Restrict, Shape
<1>2. ASSUME NEW r \in Calls, Reading(r) PROVE ServerKept'
  <2>1. CASE DropRemote(r) /\ DropOrigin(name[r]) /\ tracking' = Drop(tracking, name[r])
    <3>1. /\ origin' = Drop(origin, name[r]) /\ tracking' = Drop(tracking, name[r])
          /\ pc' = [pc EXCEPT ![r] = "unregister"] /\ DropOrigin(name[r])
      BY <2>1 DEF DropRemote, DropOrigin, Goto
    <3>2. /\ DOMAIN origin' = DOMAIN origin \ {name[r]} /\ DOMAIN tracking' = DOMAIN tracking \ {name[r]}
          /\ \A b \in DOMAIN origin' : origin'[b] = origin[b]
          /\ \A b \in DOMAIN tracking' : tracking'[b] = tracking[b]
      BY <3>1 DEF Drop, Restrict
    <3>3. \A c \in Calls : pc'[c] \in {"choose", "add"} => pc[c] \in {"choose", "add"}
      BY <3>1 DEF Shape
    <3> QED
      BY <3>1, <3>2, <3>3, DroppedAsked DEF ServerKept
  <2>2. CASE Fetch(r)
    BY <2>2 DEF Fetch, Fetched, ServerKept, Shape, history, Goto
  <2>3. CASE Choose(r)
    BY <2>3 DEF Choose, git, ServerKept, Shape, history, Goto
  <2>4. CASE ~Fetch(r) /\ ~Choose(r) /\ ~(DropRemote(r) /\ DropOrigin(name[r]) /\ tracking' = Drop(tracking, name[r]))
    <3>1. UNCHANGED <<origin, tracking, asked>>
          /\ \E p \in {"mkdir", "branches", "registry", "cleanup", "made", "fetch", "unregister"} :
                pc' = [pc EXCEPT ![r] = p]
      BY <1>2, <2>4 DEF Reading, Allocate, ListWorktrees, ListBranches, ReadRegistry, CleanupDone,
         DropRemote, git, history, Goto
    <3> QED
      BY <3>1 DEF ServerKept, Shape
  <2> QED
    BY <2>1, <2>2, <2>3, <2>4
<1>3. ASSUME NEW r \in Calls, Ending(r) PROVE ServerKept'
  <2>1. pc' = [pc EXCEPT ![r] = "off"] /\ tracking' = tracking
    BY <1>3 DEF Ending, AllocateRaises, InitRaises, RemovePortEntry, ArchiveRaises, git, Leave,
       LeaveInit, Goto
  <2>2. CASE DropOrigin(name[r])
    <3>1. /\ DOMAIN origin' = DOMAIN origin \ {name[r]}
          /\ \A b \in DOMAIN origin' : origin'[b] = origin[b]
      BY <2>2 DEF DropOrigin, Drop, Restrict
    <3>2. \A c \in Calls : pc'[c] \in {"choose", "add"} => pc[c] \in {"choose", "add"}
      BY <2>1 DEF Shape
    <3> QED
      BY <2>1, <2>2, <3>1, <3>2, DroppedAsked DEF ServerKept
  <2>3. CASE LeaveInit(r) /\ origin' = origin
    BY <2>1, <2>3 DEF ServerKept, LeaveInit, NothingAsked, AskedTyped, Shape
  <2>4. CASE asked' = asked /\ origin' = origin
    BY <2>1, <2>4 DEF ServerKept, Shape
  <2> QED
    BY <1>3, <2>2, <2>3, <2>4 DEF Ending, AllocateRaises, InitRaises, RemovePortEntry, ArchiveRaises,
       git
<1>4. ASSUME NEW r \in Calls, Mkdir(r) PROVE ServerKept'
  <2>1. /\ asked' = [asked EXCEPT ![r].local = At(local, name[r])]
        /\ UNCHANGED <<origin, tracking>> /\ pc' = [pc EXCEPT ![r] = "update"]
    BY <1>4 DEF Mkdir, git, Goto
  <2>2. \A c \in Calls : asked'[c].server = asked[c].server
    BY <2>1 DEF AskedTyped
  <2> QED
    BY <2>1, <2>2 DEF ServerKept, Shape
<1>5. ASSUME NEW r \in Calls, UpdateBase(r) PROVE ServerKept'
    BY <1>5, RefsAssumption DEF UpdateBase, Fetched,
       ServerKept, Shape, InitPcs, ArchivePcs, CleanupPcs,
       git, disk, args, found, history, Goto
<1>6. ASSUME NEW r \in Calls, Prune(r) PROVE ServerKept'
    BY <1>6, RefsAssumption DEF Prune, Pruned, Restrict,
       ServerKept, Shape, InitPcs, ArchivePcs, CleanupPcs,
       git, disk, args, found, history, Goto
<1>7. ASSUME NEW r \in Calls, NEW b \in Refs, Consider(r, b) PROVE ServerKept'
    BY <1>7, RefsAssumption DEF Consider,
       ServerKept, Shape, InitPcs, ArchivePcs, CleanupPcs,
       git, disk, args, found, history, Goto
<1>8. ASSUME NEW r \in Calls, Delete(r) PROVE ServerKept'
    BY <1>8, RefsAssumption DEF Delete, DeleteBranch, Drop, Restrict,
       ServerKept, Shape, InitPcs, ArchivePcs, CleanupPcs,
       git, disk, args, found, history, Goto
<1>9. ASSUME NEW r \in Calls, Add(r) PROVE ServerKept'
    BY <1>9, RefsAssumption DEF Add, Addable, Exists, Commit, Put, On,
       ServerKept, Shape, InitPcs, ArchivePcs, CleanupPcs,
       git, disk, args, found, history, Goto
<1>10. ASSUME NEW r \in Calls, BuiltAndStarted(r) PROVE ServerKept'
    BY <1>10, RefsAssumption DEF BuiltAndStarted, Put, On, At, Fetched,
       ServerKept, Shape, InitPcs, ArchivePcs, CleanupPcs,
       git, disk, args, found, history, Goto
<1>11. ASSUME NEW r \in Calls, Align(r) PROVE ServerKept'
  <2>1. pc' = [pc EXCEPT ![r] = "off"] /\ UNCHANGED <<origin, tracking>> /\ LeaveInit(r)
    BY <1>11 DEF Align, Leave, LeaveInit, Goto
  <2> QED
    BY <2>1 DEF ServerKept, LeaveInit, NothingAsked, AskedTyped, Shape
<1>12. ASSUME NEW r \in Calls, NEW b \in Projects, StartArchive(r, b) PROVE ServerKept'
    BY <1>12, RefsAssumption DEF StartArchive,
       ServerKept, Shape, InitPcs, ArchivePcs, CleanupPcs,
       git, disk, args, found, history, Goto
<1>13. ASSUME NEW r \in Calls, Move(r) PROVE ServerKept'
    BY <1>13, RefsAssumption DEF Move,
       ServerKept, Shape, InitPcs, ArchivePcs, CleanupPcs,
       git, disk, args, found, history, Goto
<1>14. ASSUME NEW r \in Calls, DropLocal(r) PROVE ServerKept'
    BY <1>14, RefsAssumption DEF DropLocal, DeleteBranch, Drop, Restrict,
       ServerKept, Shape, InitPcs, ArchivePcs, CleanupPcs,
       git, disk, args, found, history, Goto
<1>15. ASSUME NEW p \in Projects, Commits(p) PROVE ServerKept'
    BY <1>15, RefsAssumption DEF Commits,
       ServerKept, Shape, InitPcs, ArchivePcs, CleanupPcs,
       git, disk, args, found, history, Goto
<1>16. ASSUME NEW p \in Projects, NEW b \in Refs, Switches(p, b) PROVE ServerKept'
    BY <1>16, RefsAssumption DEF Switches, Put, On, Tip,
       ServerKept, Shape, InitPcs, ArchivePcs, CleanupPcs,
       git, disk, args, found, history, Goto
<1>17. ASSUME NEW b \in Projects \cup Refs, Pushes(b) \/ Upstream(b) PROVE ServerKept'
  <2>1. UNCHANGED <<pc, asked>>
    BY <1>17 DEF Pushes, Upstream, history
  <2>2. CASE Pushes(b)
    <3>1. /\ origin' = Put(origin, worktree[b].ref, Tip(b))
          /\ tracking' = Put(tracking, worktree[b].ref, Tip(b))
          /\ At(origin, worktree[b].ref) \subseteq Tip(b)
      BY <2>2 DEF Pushes
    <3>2. ASSUME NEW c \in DOMAIN origin
          PROVE  c \in DOMAIN origin' /\ origin[c] \subseteq origin'[c]
      BY <3>1 DEF Put, At
    <3>3. ASSUME NEW c \in DOMAIN tracking, NEW s, s \subseteq tracking[c], c \in DOMAIN origin, s \subseteq origin[c]
          PROVE  c \in DOMAIN tracking' /\ s \subseteq tracking'[c]
      BY <3>1, <3>3 DEF Put, At
    <3> QED
      BY <2>1, <3>2, <3>3 DEF ServerKept
  <2>3. CASE Upstream(b)
    BY <2>1, <2>3 DEF Upstream, ServerKept
  <2> QED
    BY <1>17, <2>2, <2>3
<1>18. CASE UNCHANGED vars
    BY <1>18 DEF ServerKept, Shape, InitPcs, ArchivePcs, CleanupPcs, vars, git, disk, args, found, history
<1> QED
    BY <1>1, <1>2, <1>3, <1>4, <1>5, <1>6, <1>7, <1>8, <1>9, <1>10, <1>11, <1>12,
       <1>13, <1>14, <1>15, <1>16, <1>17, <1>18 DEF Next, Call, InitStep,
       ArchiveStep, User, Reading, Ending

\* A project that is being built was not worked on by two calls before this step either.
LEMMA UncrossedBefore ==
    ASSUME WorkInv, [Next]_vars, NEW c \in Calls, pc'[c] \in Building, name'[c] \notin crossed'
    PROVE  \/ pc[c] \in Building /\ name'[c] = name[c] /\ name[c] \notin crossed
           \/ Mkdir(c)
<1> DEFINE Same == pc[c] \in Building /\ name'[c] = name[c] /\ name[c] \notin crossed
<1>1. /\ pc \in [Calls -> {"off"} \cup InitPcs \cup ArchivePcs] /\ name \in [Calls -> Projects \cup {NoBranch}]
      /\ "off" \notin Building /\ "allocate" \notin Building /\ ArchivePcs \cap Building = {}
  BY DEF WorkInv, Shape, Building, InitPcs, ArchivePcs, CleanupPcs
<1>2. ASSUME NEW r \in Calls, NEW b \in Projects, StartInit(r, b) \/ StartArchive(r, b) PROVE Same
  <2>1. c # r /\ pc'[c] = pc[c] /\ name'[c] = name[c] /\ crossed \subseteq crossed'
    BY <1>1, <1>2 DEF StartInit, StartArchive, Goto, ArchivePcs, Building, InitPcs, CleanupPcs
  <2> QED
    BY <2>1
<1>3. ASSUME NEW r \in Calls, Mkdir(r), r # c PROVE Same
  <2>1. pc'[c] = pc[c] /\ name' = name
    BY <1>1, <1>3 DEF Mkdir, Goto, args
  <2>2. name[c] = name[r] => Contended(r, name[r])
    BY <1>3 DEF Contended
  <2>3. name[c] \notin crossed
    BY <1>3, <2>1, <2>2 DEF Mkdir
  <2> QED
    BY <2>1, <2>3
<1>4. ASSUME NEW r \in Calls, Leave(r) PROVE Same
  <2>1. c # r
    BY <1>1, <1>4 DEF Leave, Goto
  <2> QED
    BY <1>1, <1>4, <2>1 DEF Leave, Goto
<1>5. ASSUME NEW r \in Calls, NEW s, pc[r] \in Building \cup ArchivePcs, Goto(r, s),
             s \in Building \cup ArchivePcs, pc[r] \in Building <=> s \in Building,
             UNCHANGED <<name, crossed>>
      PROVE  Same
  BY <1>1, <1>5 DEF Goto
<1>6. CASE UNCHANGED <<pc, name, crossed>>
  BY <1>6
<1>7. ASSUME NEW r \in Calls, InitStep(r) \/ ArchiveStep(r), ~Mkdir(r) PROVE Same
  <2>1. CASE Allocate(r)
    <3>1. c # r /\ UNCHANGED <<name, crossed>>
      BY <1>1, <2>1 DEF Allocate, Goto, args, history, Building, InitPcs, CleanupPcs
    <3> QED
      BY <1>1, <2>1, <3>1 DEF Allocate, Goto
  <2>2. CASE AllocateRaises(r) \/ InitRaises(r) \/ Align(r) \/ RemovePortEntry(r) \/ ArchiveRaises(r)
    BY <1>4, <2>2 DEF AllocateRaises, InitRaises, Align, RemovePortEntry, ArchiveRaises, LeaveInit
  <2>3. CASE \E b \in Refs : Consider(r, b)
    BY <1>5, <1>6, <2>3 DEF Consider, args, history, Building, InitPcs, CleanupPcs
  <2>4. CASE \/ UpdateBase(r) \/ Prune(r) \/ ListWorktrees(r) \/ ListBranches(r) \/ ReadRegistry(r)
             \/ Delete(r) \/ CleanupDone(r) \/ Fetch(r) \/ Choose(r) \/ Add(r) \/ BuiltAndStarted(r)
    <3>1. UNCHANGED <<name, crossed>>
      BY <2>4 DEF UpdateBase, Prune, ListWorktrees, ListBranches, ReadRegistry, Delete, CleanupDone,
         Fetch, Choose, Add, BuiltAndStarted, args, history
    <3>2. pc[r] \in Building \cup {"aprune"}
      BY <2>4 DEF UpdateBase, Prune, ListWorktrees, ListBranches, ReadRegistry, Delete, CleanupDone,
         Fetch, Choose, Add, BuiltAndStarted, Building, InitPcs, CleanupPcs
    <3>3. \/ \E s \in Building : Goto(r, s) /\ pc[r] \in Building
          \/ Goto(r, "dropLocal") /\ pc[r] = "aprune"
      BY <2>4 DEF UpdateBase, Prune, ListWorktrees, ListBranches, ReadRegistry, Delete, CleanupDone,
         Fetch, Choose, Add, BuiltAndStarted, Building, InitPcs, CleanupPcs
    <3> QED
      BY <1>5, <3>1, <3>3 DEF ArchivePcs, Building, InitPcs, CleanupPcs
  <2>5. CASE Move(r) \/ DropLocal(r) \/ DropRemote(r)
    <3>1. /\ UNCHANGED <<name, crossed>> /\ pc[r] \in ArchivePcs
          /\ \E s \in ArchivePcs : Goto(r, s)
      BY <2>5 DEF Move, DropLocal, DropRemote, args, history, ArchivePcs
    <3> QED
      BY <1>1, <1>5, <3>1
  <2> QED
    BY <1>7, <2>1, <2>2, <2>3, <2>4, <2>5 DEF InitStep, ArchiveStep
<1>8. CASE User
  BY <1>6, <1>8 DEF User, Commits, Pushes, Switches, Upstream, args, history
<1> QED
  BY <1>2, <1>3, <1>6, <1>7, <1>8 DEF Next, Call, vars, args, history

\* What nobody else does to a project that is being built by one call alone.
LEMMA OthersStep ==
    ASSUME WorkInv, AskedTyped, [Next]_vars, NEW c \in Calls,
           NEW p, p = name[c], pc[c] \in Building, p \notin crossed, pc'[c] = pc[c]
    PROVE  /\ source'[c] = source[c] /\ asked'[c].local = asked[c].local
           /\ p \notin here => p \notin here' /\ At(local, p) \subseteq At(local', p)
           /\ p \in here /\ worktree[p].ref \in {p, Detached}
              => /\ p \in here' /\ worktree'[p] = worktree[p]
                 /\ Tip(p)' = Tip(p)
<1> DEFINE Own == source'[c] = source[c] /\ asked'[c].local = asked[c].local
           Keeps == p \notin here => p \notin here' /\ At(local, p) \subseteq At(local', p)
           Stands == p \in here /\ worktree[p].ref \in {p, Detached}
                     => /\ p \in here' /\ worktree'[p] = worktree[p]
                        /\ Tip(p)' = Tip(p)
<1>1. /\ p \in Projects /\ p # Master /\ p # Cloud
      /\ \A r \in Calls \ {c} : name[r] # p
      /\ p \in dir /\ \A r \in Calls : target[r] # p
      /\ ~InUse(p) /\ (p \in here => p \in DOMAIN worktree)
      /\ pc[c] # "off"
  BY RefsAssumption DEF WorkInv, Shape, CallsKnown, CrossingsSeen, BuildsUntouched, TargetsHomeless,
     InUse, Building, InitPcs, CleanupPcs
<1>2. CASE UNCHANGED <<local, worktree, here, source, asked>>
  BY <1>2 DEF Tip
<1>a. /\ p \in here /\ worktree[p].ref = p => p \in DOMAIN local
      /\ \A q \in DOMAIN worktree : q # p /\ p \in here /\ worktree[q].ref = p => worktree[p].ref # p
  BY <1>1, RefsAssumption DEF WorkInv, Shape, Checkouts
<1> DEFINE Same == /\ here' \cap {p} = here \cap {p} /\ (p \in here => worktree'[p] = worktree[p])
                   /\ p \in DOMAIN local => p \in DOMAIN local' /\ local'[p] = local[p]
<1>b. ASSUME Own, Same PROVE Own /\ Keeps /\ Stands
  <2>1. (p \in here <=> p \in here') /\ At(local, p) \subseteq At(local', p)
    BY <1>b DEF At
  <2>2. Stands
    BY <1>a, <1>b, <2>1 DEF Tip
  <2> QED
    BY <1>b, <2>1, <2>2
<1>3. ASSUME NEW r \in Calls PROVE pc[r] # pc'[r] => r # c /\ name[r] # p
  BY <1>1
<1>4. ASSUME NEW r \in Calls, NEW b \in Projects, StartInit(r, b) \/ StartArchive(r, b)
      PROVE  Own /\ Keeps /\ Stands
  <2>1. r # c
    BY <1>1, <1>4 DEF StartInit, StartArchive
  <2> QED
    BY <1>4, <2>1 DEF StartInit, StartArchive, git, disk, found, Tip, AskedTyped
<1>5. ASSUME NEW r \in Calls, UpdateBase(r) PROVE Own /\ Keeps /\ Stands
  <2>1. Own /\ Same
    BY <1>1, <1>5 DEF UpdateBase, found, history, disk
  <2> QED
    BY <1>b, <2>1
<1>6. ASSUME NEW r \in Calls, Prune(r) PROVE Own /\ Keeps /\ Stands
  BY <1>1, <1>6 DEF Prune, Pruned, Restrict, found, history, disk, Tip, At
<1>7. ASSUME NEW r \in Calls, Delete(r) PROVE Own /\ Keeps /\ Stands
  <2>1. target[r] # p
    BY <1>1
  <2>2. Own /\ Same
    BY <1>7, <2>1 DEF Delete, DeleteBranch, Drop, Restrict, history, disk
  <2> QED
    BY <1>b, <2>2
<1>8. ASSUME NEW r \in Calls, DropLocal(r) PROVE Own /\ Keeps /\ Stands
  <2>1. name[r] # p
    BY <1>1, <1>8, <1>3 DEF DropLocal, Building, InitPcs, CleanupPcs
  <2>2. Own /\ Same
    BY <1>8, <2>1 DEF DropLocal, DeleteBranch, Drop, Restrict, found, history, disk
  <2> QED
    BY <1>b, <2>2
<1>9. ASSUME NEW r \in Calls, Move(r) PROVE Own /\ Keeps /\ Stands
  <2>1. name[r] # p
    BY <1>1, <1>9 DEF Move, Building, InitPcs, CleanupPcs
  <2> QED
    BY <1>1, <1>9, <2>1 DEF Move, git, found, Tip, At
<1>10. ASSUME NEW r \in Calls, Mkdir(r) PROVE Own /\ Keeps /\ Stands
  <2>1. r # c
    BY <1>1, <1>10 DEF Mkdir, Building
  <2> QED
    BY <1>10, <2>1 DEF Mkdir, git, found, Tip, AskedTyped
<1>11. ASSUME NEW r \in Calls, Leave(r), Own, UNCHANGED <<local, worktree, here>> PROVE Own /\ Keeps /\ Stands
  BY <1>11 DEF Tip
<1>12. ASSUME NEW r \in Calls, Choose(r) PROVE Own /\ Keeps /\ Stands
  <2>1. r # c
    BY <1>1, <1>12 DEF Choose, Goto, WorkInv, Shape
  <2> QED
    BY <1>12, <2>1 DEF Choose, git, disk, history, Tip
<1>13. ASSUME NEW r \in Calls, Add(r) PROVE Own /\ Keeps /\ Stands
  <2>1. name[r] # p
    BY <1>1, <1>3, <1>13 DEF Add, Goto, WorkInv, Shape
  <2>2. UNCHANGED <<source, asked>>
    BY <1>13 DEF Add, found, history
  <2>3. here' = here \cup {name[r]}
    BY <1>13 DEF Add
  <2>4. \/ local' = local
        \/ local' = Put(local, name[r], Commit(source[r]))
    BY <1>13 DEF Add
  <2>5. p \in DOMAIN worktree => worktree'[p] = worktree[p]
    BY <1>13, <2>1 DEF Add, Put
  <2>6. Same
    BY <1>1, <2>1, <2>3, <2>4, <2>5 DEF Put
  <2> QED
    BY <1>b, <2>2, <2>6
<1>14. ASSUME NEW r \in Calls, BuiltAndStarted(r) PROVE Own /\ Keeps /\ Stands
  <2>1. name[r] # p
    BY <1>1, <1>3, <1>14 DEF BuiltAndStarted, Goto, WorkInv, Shape
  <2>2. Own /\ here' = here
    BY <1>14 DEF BuiltAndStarted, disk, found, history
  <2>3. CASE UNCHANGED git
    BY <1>b, <2>2, <2>3 DEF git
  <2>4. CASE /\ worktree' = [worktree EXCEPT ![name[r]] = On(Cloud)]
             /\ local' = Put(local, Cloud, At(local, Cloud) \cup At(origin, Cloud))
    <3>1. p \in DOMAIN local => p \in DOMAIN local' /\ local'[p] = local[p]
      BY <1>1, <2>4 DEF Put
    <3>2. p \in here => worktree'[p] = worktree[p]
      BY <1>1, <2>1, <2>4
    <3> QED
      BY <1>b, <2>2, <3>1, <3>2
  <2> QED
    BY <1>14, <2>3, <2>4 DEF BuiltAndStarted
<1>15. ASSUME NEW r \in Calls, Leave(r) PROVE r # c /\ name[r] # p /\ source'[c] = source[c]
  <2>1. r # c
    BY <1>1, <1>15 DEF Leave, Goto, WorkInv, Shape
  <2> QED
    BY <1>1, <1>15, <2>1 DEF Leave
<1>16. ASSUME NEW r \in Calls, Align(r) PROVE Own /\ Keeps /\ Stands
  <2> DEFINE current == worktree[name[r]].ref
  <2>1. r # c /\ name[r] # p /\ Own /\ here' = here
    BY <1>15, <1>16 DEF Align, LeaveInit, disk, AskedTyped
  <2>2. CASE UNCHANGED <<local, worktree>>
    BY <2>1, <2>2 DEF Tip
  <2>3. CASE /\ name[r] \in here /\ current \notin {Detached, name[r]}
             /\ local' = Put(Drop(local, current), name[r], local[current])
             /\ worktree' = [worktree EXCEPT ![name[r]] = On(name[r])]
    <3>1. current = Cloud
      BY <1>16, <2>3 DEF Align, WorkInv, CallsKnown, BuildsUntouched, InitPcs, CleanupPcs
    <3>2. p \in DOMAIN local => p \in DOMAIN local' /\ local'[p] = local[p]
      BY <1>1, <2>1, <2>3, <3>1 DEF Put, Drop, Restrict
    <3>3. p \in here => worktree'[p] = worktree[p]
      BY <1>1, <2>1, <2>3
    <3> QED
      BY <1>b, <2>1, <3>2, <3>3
  <2> QED
    BY <1>16, <2>2, <2>3 DEF Align
<1>17. ASSUME NEW q \in Projects, Commits(q) PROVE Own /\ Keeps /\ Stands
  <2>1. q # p /\ q \in DOMAIN worktree
    BY <1>1, <1>17 DEF Commits, InUse, WorkInv, Shape
  <2>2. Own /\ here' = here /\ (p \in here => worktree'[p] = worktree[p])
    BY <1>1, <1>17, <2>1 DEF Commits, found, disk
  <2>3. p \in here /\ worktree[p].ref = p => local'[p] = local[p]
    BY <1>a, <1>17, <2>1 DEF Commits
  <2>4. At(local, p) \subseteq At(local', p)
    BY <1>17 DEF Commits, At
  <2> QED
    BY <2>2, <2>3, <2>4 DEF Tip
<1>18. ASSUME NEW q \in Projects, NEW b \in Refs, Switches(q, b) PROVE Own /\ Keeps /\ Stands
  <2>1. q # p
    BY <1>1, <1>18 DEF Switches
  <2>2. Own /\ here' = here /\ (p \in here => worktree'[p] = worktree[p])
    BY <1>1, <1>18, <2>1 DEF Switches, found, history, disk
  <2>3. p \in DOMAIN local => p \in DOMAIN local' /\ local'[p] = local[p]
    BY <1>18 DEF Switches, Put
  <2> QED
    BY <1>b, <2>2, <2>3
<1>19. ASSUME NEW b \in Projects \cup Refs, Pushes(b) \/ Upstream(b) PROVE Own /\ Keeps /\ Stands
  BY <1>2, <1>19 DEF Pushes, Upstream, found, history, disk
<1>20. ASSUME NEW r \in Calls, AllocateRaises(r) \/ InitRaises(r) PROVE Own /\ Keeps /\ Stands
  <2>1. LeaveInit(r) /\ UNCHANGED <<local, worktree, here>>
    BY <1>20 DEF AllocateRaises, InitRaises, git, disk
  <2> QED
    BY <1>11, <1>15, <2>1 DEF LeaveInit, AskedTyped
<1>21. ASSUME NEW r \in Calls, DropRemote(r) \/ RemovePortEntry(r) \/ ArchiveRaises(r)
       PROVE  Own /\ Keeps /\ Stands
  <2>1. UNCHANGED <<local, worktree, here>> /\ (source' = source \/ Leave(r))
    BY <1>21 DEF DropRemote, RemovePortEntry, ArchiveRaises, git, disk, found
  <2>2. asked' = asked \/ DropOrigin(name[r])
    BY <1>21 DEF DropRemote, RemovePortEntry, ArchiveRaises
  <2>3. asked'[c].local = asked[c].local
    BY <2>2, DroppedAsked
  <2> QED
    BY <1>15, <2>1, <2>3 DEF Tip
<1>22. ASSUME NEW r \in Calls, \/ Allocate(r) \/ ListWorktrees(r) \/ ListBranches(r) \/ ReadRegistry(r)
                               \/ CleanupDone(r) \/ Fetch(r) \/ \E b \in Refs : Consider(r, b)
       PROVE  Own /\ Keeps /\ Stands
  BY <1>2, <1>22 DEF Allocate, ListWorktrees, ListBranches, ReadRegistry, CleanupDone, Fetch, Consider,
     git, disk, found, history
<1>23. ASSUME NEW r \in Calls, Call(r) PROVE Own /\ Keeps /\ Stands
  BY <1>4, <1>5, <1>6, <1>7, <1>8, <1>9, <1>10, <1>12, <1>13, <1>14, <1>16, <1>20, <1>21, <1>22, <1>23
     DEF Call, InitStep, ArchiveStep
<1>24. CASE User
  BY <1>17, <1>18, <1>19, <1>24 DEF User
<1>25. CASE UNCHANGED vars
  BY <1>2, <1>25 DEF vars, git, disk, found, history
<1>26. Own /\ Keeps /\ Stands
  BY <1>23, <1>24, <1>25 DEF Next
<1> QED
  BY <1>26

\* A pg_init is only ever owed less of what the server had.
LEMMA ServerShrinks ==
    ASSUME AskedTyped, Shape, [Next]_vars, NEW c \in Calls, pc[c] \in Building, pc'[c] = pc[c], NEW b
    PROVE  At(asked'[c].server, b) \subseteq At(asked[c].server, b)
<1>1. pc \in [Calls -> {"off"} \cup InitPcs \cup ArchivePcs] /\ "off" \notin Building /\ "mkdir" \notin Building
  BY DEF Shape, Building, InitPcs, CleanupPcs
<1>2. CASE asked'[c] = asked[c]
  BY <1>2
<1>3. ASSUME NEW d, DropOrigin(d) PROVE At(asked'[c].server, b) \subseteq At(asked[c].server, b)
  BY <1>3, DroppedAsked DEF At
<1>4. ASSUME NEW r \in Calls, Mkdir(r) \/ LeaveInit(r) \/ \E d \in Projects : StartInit(r, d)
      PROVE  asked'[c] = asked[c]
  <2>1. r # c
    BY <1>1, <1>4 DEF Mkdir, LeaveInit, Leave, StartInit, Goto
  <2> QED
    BY <1>4, <2>1 DEF Mkdir, LeaveInit, StartInit, AskedTyped
<1>5. \/ asked' = asked
      \/ \E d \in Projects \cup {NoBranch} : DropOrigin(d)
      \/ \E r \in Calls : Mkdir(r) \/ LeaveInit(r) \/ \E d \in Projects : StartInit(r, d)
  <2>1. ASSUME NEW r \in Calls, Call(r)
        PROVE  \/ asked' = asked \/ DropOrigin(name[r]) \/ Mkdir(r) \/ LeaveInit(r)
               \/ \E d \in Projects : StartInit(r, d)
    BY <2>1 DEF Call, InitStep, ArchiveStep, StartArchive, Allocate,
       AllocateRaises, UpdateBase, Prune, ListWorktrees, ListBranches, ReadRegistry, Consider,
       Delete, CleanupDone, Fetch, Choose, Add, InitRaises, BuiltAndStarted, Align, Move, DropLocal,
       DropRemote, RemovePortEntry, ArchiveRaises, history
  <2>2. CASE User \/ UNCHANGED vars
    BY <2>2 DEF User, Commits, Switches, Pushes, Upstream, history, vars
  <2> QED
    BY <2>1, <2>2 DEF Next, Shape
<1> QED
  BY <1>2, <1>3, <1>4, <1>5

\* A call that builds goes on by a step of its own.
LEMMA OwnStep ==
    ASSUME Shape, [Next]_vars, NEW c \in Calls, pc[c] \in Building, pc'[c] # pc[c], pc'[c] \in Building
    PROVE  \/ UpdateBase(c) \/ Prune(c) \/ ListWorktrees(c) \/ ListBranches(c) \/ ReadRegistry(c)
           \/ (\E b \in Refs : Consider(c, b)) \/ Delete(c) \/ CleanupDone(c)
           \/ Fetch(c) \/ Choose(c) \/ Add(c) \/ BuiltAndStarted(c)
<1>1. pc \in [Calls -> {"off"} \cup InitPcs \cup ArchivePcs] /\ "off" \notin Building
      /\ "allocate" \notin Building /\ "mkdir" \notin Building /\ Building \cap ArchivePcs = {}
  BY DEF Shape, Building, InitPcs, ArchivePcs, CleanupPcs
<1>2. PICK r \in Calls : Call(r)
  BY DEF Next, User, Commits, Switches, Pushes, Upstream, vars
<1>3. r = c
  <2> SUFFICES ASSUME r # c PROVE pc'[c] = pc[c]
      OBVIOUS
  <2>1. UNCHANGED pc \/ \E s : Goto(r, s)
    BY <1>2 DEF Call, InitStep, ArchiveStep, StartInit, StartArchive, Allocate,
       AllocateRaises, Mkdir, UpdateBase, Prune, ListWorktrees, ListBranches, ReadRegistry, Consider,
       Delete, CleanupDone, Fetch, Choose, Add, InitRaises, BuiltAndStarted, Align, Move, DropLocal,
       DropRemote, RemovePortEntry, ArchiveRaises, Leave, LeaveInit
  <2> QED
    BY <1>1, <2>1 DEF Goto
<1>4. ~Leave(c)
  BY <1>1 DEF Leave, Goto
<1>5. /\ \A b \in Projects : ~StartInit(c, b) /\ ~StartArchive(c, b)
      /\ ~Allocate(c) /\ ~Mkdir(c) /\ ~Move(c) /\ ~DropLocal(c) /\ ~DropRemote(c)
  BY <1>1 DEF StartInit, StartArchive, Allocate, Mkdir, Move, DropLocal, DropRemote, ArchivePcs
<1>6. ~AllocateRaises(c) /\ ~InitRaises(c) /\ ~Align(c) /\ ~RemovePortEntry(c) /\ ~ArchiveRaises(c)
  BY <1>4 DEF AllocateRaises, InitRaises, Align, RemovePortEntry, ArchiveRaises, LeaveInit
<1> QED
  BY <1>2, <1>3, <1>5, <1>6 DEF Call, InitStep, ArchiveStep

\* LocalKept and StartsWhole, of one call.
LocalOf(c) ==
    /\ pc[c] \in Building \ {"made", "align"}
       => name[c] \notin here /\ asked[c].local \subseteq At(local, name[c])
    /\ pc[c] = "add" /\ source[c] \notin {<<"remote", name[c]>>, <<"local", name[c]>>}
       => asked[c].local = {}
    /\ pc[c] = "made" => name[c] \in here /\ worktree[name[c]].ref \in {name[c], Detached}

WholeOf(c) ==
    pc[c] = "made" =>
       /\ source[c][1] = "remote" => At(asked[c].server, source[c][2]) \subseteq Tip(name[c])
       /\ source[c] # <<"remote", name[c]>> => asked[c].local \subseteq Tip(name[c])

LEMMA WholeStep ==
    ASSUME WorkInv, CallsTyped, AskedTyped, ServerKept, [Next]_vars,
           NEW c \in Calls, name[c] \notin crossed => LocalOf(c) /\ WholeOf(c),
           name'[c] \notin crossed'
    PROVE  LocalOf(c)' /\ WholeOf(c)'
<1> DEFINE p == name[c]
<1>1. CASE pc'[c] \notin Building
  <2>1. "made" \in Building /\ "add" \in Building
    BY DEF Building, InitPcs
  <2> QED
    BY <1>1, <2>1 DEF LocalOf, WholeOf
<1>2. CASE Mkdir(c)
  <2>1. pc'[c] = "update" /\ UNCHANGED <<local, here, name>>
    BY <1>2 DEF Mkdir, Goto, git, args, WorkInv, Shape
  <2>2. p \notin dir /\ p \notin here
    BY <1>2, <2>1 DEF Mkdir, WorkInv, Shape
  <2>3. asked'[c].local = At(local, p)
    BY <1>2 DEF Mkdir, AskedTyped
  <2> QED
    BY <2>1, <2>2, <2>3 DEF LocalOf, WholeOf, At
<1>3. CASE pc'[c] \in Building /\ pc[c] \in Building /\ name'[c] = p /\ p \notin crossed
  <2>1. LocalOf(c) /\ WholeOf(c)
    BY <1>3
  <2>2. CASE pc'[c] = pc[c]
    <3>1. /\ source'[c] = source[c] /\ asked'[c].local = asked[c].local
          /\ \A q : q = p =>
                /\ q \notin here => q \notin here' /\ At(local, q) \subseteq At(local', q)
                /\ q \in here /\ worktree[q].ref \in {q, Detached}
                   => /\ q \in here' /\ worktree'[q] = worktree[q]
                      /\ Tip(q)' = Tip(q)
      BY <1>3, <2>2, OthersStep
    <3>2. \A b : At(asked'[c].server, b) \subseteq At(asked[c].server, b)
      BY <1>3, <2>2, ServerShrinks DEF WorkInv
    <3>3. LocalOf(c)'
      BY <1>3, <2>1, <2>2, <3>1 DEF LocalOf, At
    <3>4. ASSUME pc[c] = "made" PROVE Tip(name[c])' = Tip(p)
      <4>1. \A q : q = p => Tip(q)' = Tip(q)
        BY <2>1, <3>1, <3>4 DEF LocalOf
      <4>2. p \in here /\ worktree'[p] = worktree[p]
        BY <2>1, <3>1, <3>4 DEF LocalOf
      <4> QED
        BY <1>3, <4>1 DEF Tip
    <3>5. WholeOf(c)'
      BY <1>3, <2>1, <2>2, <3>1, <3>2, <3>4 DEF WholeOf
    <3> QED
      BY <3>3, <3>5
  <2>3. CASE pc'[c] # pc[c]
    <3>1. /\ pc \in [Calls -> {"off"} \cup InitPcs \cup ArchivePcs] /\ p \in Projects /\ p # Master
          /\ p # Detached /\ target[c] # p
      BY <1>3, RefsAssumption DEF WorkInv, Shape, CallsKnown, TargetsHomeless, BuildsUntouched, Building,
         InitPcs, CleanupPcs
    <3>2. CASE \/ UpdateBase(c) \/ Prune(c) \/ ListWorktrees(c) \/ ListBranches(c) \/ ReadRegistry(c)
               \/ (\E b \in Refs : Consider(c, b)) \/ Delete(c) \/ CleanupDone(c) \/ Fetch(c)
      <4>1. pc[c] \in Building \ {"made", "align"} /\ UNCHANGED <<here, name, asked>>
        BY <1>3, <3>2 DEF UpdateBase, Prune, ListWorktrees, ListBranches, ReadRegistry, Consider, Delete,
           CleanupDone, Fetch, disk, args, history, Building, InitPcs, CleanupPcs
      <4>2. p \notin here /\ asked[c].local \subseteq At(local, p)
        BY <2>1, <4>1 DEF LocalOf
      <4>3. pc'[c] \notin {"add", "made", "align"}
        BY <3>1, <3>2, <4>2 DEF UpdateBase, Prune, ListWorktrees, ListBranches, ReadRegistry, Consider,
           Delete, CleanupDone, Fetch, Goto
      <4>4. At(local, p) \subseteq At(local', p)
        <5>1. CASE UpdateBase(c)
          BY <3>1, <5>1 DEF UpdateBase, At
        <5>2. CASE Delete(c)
          BY <3>1, <5>2 DEF Delete, DeleteBranch, Drop, Restrict, At
        <5>3. CASE ~UpdateBase(c) /\ ~Delete(c)
          BY <3>2, <5>3 DEF Prune, ListWorktrees, ListBranches, ReadRegistry, Consider,
             CleanupDone, Fetch, git
        <5> QED
          BY <5>1, <5>2, <5>3
      <4> QED
        BY <1>3, <4>1, <4>2, <4>3, <4>4 DEF LocalOf, WholeOf, At
    <3>3. CASE Choose(c)
      <4>1. /\ pc[c] = "choose" /\ pc'[c] = "add" /\ UNCHANGED <<here, local, name, asked>>
            /\ source'[c] = FirstOf(p, FirstOf(base[c], <<"remote", Master>>))
        BY <3>1, <3>3 DEF Choose, Goto, git, disk, args, history, CallsTyped
      <4>2. p \notin here /\ asked[c].local \subseteq At(local, p)
        BY <1>3, <2>1, <4>1 DEF LocalOf
      <4>3. source'[c] \notin {<<"remote", p>>, <<"local", p>>} => p \notin DOMAIN local
        BY <4>1 DEF FirstOf
      <4> QED
        BY <4>1, <4>2, <4>3 DEF LocalOf, WholeOf, At
    <3>4. CASE Add(c)
      <4>1. /\ pc[c] = "add" /\ pc'[c] = "made" /\ UNCHANGED <<name, asked, source>>
            /\ here' = here \cup {p} /\ Exists(source[c])
        BY <3>1, <3>4 DEF Add, Addable, Goto, args, found, history
      <4>2. /\ asked[c].local \subseteq At(local, p)
            /\ source[c] \notin {<<"remote", p>>, <<"local", p>>} => asked[c].local = {}
        BY <1>3, <2>1, <4>1 DEF LocalOf
      <4>3. CASE source[c] = <<"tag", p>>
        <5>1. worktree'[p].ref = Detached
          BY <3>4, <4>3 DEF Add, Put
        <5>2. asked[c].local = {}
          BY <4>2, <4>3
        <5> QED
          BY <4>1, <4>3, <5>1, <5>2 DEF LocalOf, WholeOf
      <4>4. CASE source[c] # <<"tag", p>>
        <5>1. /\ worktree'[p] = On(p) /\ local'[p] = Commit(source[c])
          BY <3>4, <4>4 DEF Add, Put
        <5>2. Tip(name[c])' = Commit(source[c])
          BY <3>1, <4>1, <5>1 DEF Tip, On
        <5>3. ASSUME source[c][1] = "remote"
              PROVE  At(asked[c].server, source[c][2]) \subseteq Commit(source[c])
          <6>1. Commit(source[c]) = tracking[source[c][2]]
            BY <5>3 DEF Commit
          <6> QED
            BY <4>1, <6>1 DEF ServerKept, At
        <5>4. ASSUME source[c] # <<"remote", p>> PROVE asked[c].local \subseteq Commit(source[c])
          <6>1. CASE source[c] = <<"local", p>>
            <7>1. Commit(source[c]) = local[p] /\ p \in DOMAIN local
              BY <4>1, <6>1 DEF Commit, Exists
            <7> QED
              BY <4>2, <7>1 DEF At
          <6>2. CASE source[c] # <<"local", p>>
            BY <4>2, <5>4, <6>2
          <6> QED
            BY <6>1, <6>2
        <5>5. LocalOf(c)'
          BY <4>1, <5>1 DEF LocalOf, On
        <5>6. WholeOf(c)'
          BY <4>1, <5>2, <5>3, <5>4 DEF WholeOf
        <5> QED
          BY <5>5, <5>6
      <4> QED
        BY <4>3, <4>4
    <3>5. CASE BuiltAndStarted(c)
      <4>1. pc'[c] = "align"
        BY <3>1, <3>5 DEF BuiltAndStarted, Goto
      <4> QED
        BY <4>1 DEF LocalOf, WholeOf
    <3> QED
      BY <1>3, <2>3, <3>2, <3>3, <3>4, <3>5, OwnStep DEF WorkInv
  <2> QED
    BY <2>2, <2>3
<1> QED
  BY <1>1, <1>2, <1>3, UncrossedBefore

LEMMA WholeInvInit == ASSUME Init PROVE WholeInv
<1>1. WorkInv /\ setting \in Settings
  BY WorkInvInit DEF Init
<1>2. RefsTyped
  <2>1. /\ Contents(setting.origin) /\ Contents(setting.local) /\ Master \in DOMAIN setting.origin
    BY SettingsAssumption DEF Init, Contents
  <2>2. /\ \A c \in Calls : pc[c] # "delete"
        /\ DOMAIN worktree = {} /\ reg = {}
    BY DEF Init
  <2> QED
    BY <2>1, <2>2 DEF Init, RefsTyped
<1>3. CallsTyped
  BY DEF Init, CallsTyped, Refs
<1>4. AskedTyped
  BY DEF Init, AskedTyped, NothingAsked
<1>5. ServerKept
  BY DEF Init, ServerKept, NothingAsked
<1>6. LocalKept /\ StartsWhole
  <2>1. \A c \in Calls : pc[c] = "off"
    BY DEF Init
  <2> QED
    BY <2>1 DEF LocalKept, StartsWhole, FreshStart, AdoptsLocal, Building, InitPcs, CleanupPcs
<1> QED
  BY <1>1, <1>2, <1>3, <1>4, <1>5, <1>6 DEF WholeInv

LEMMA WholeInvStep == ASSUME WholeInv, [Next]_vars PROVE WholeInv'
<1>1. WorkInv' /\ setting' \in Settings
  BY WorkInvStep DEF WholeInv, Next, vars
<1>2. RefsTyped' /\ CallsTyped' /\ AskedTyped' /\ ServerKept'
  BY RefsStep, CallsTypedStep, AskedStep, ServerStep DEF WholeInv, WorkInv
<1>3. ASSUME NEW c \in Calls, name'[c] \notin crossed' PROVE LocalOf(c)' /\ WholeOf(c)'
  <2>1. name[c] \notin crossed => LocalOf(c) /\ WholeOf(c)
    BY DEF WholeInv, LocalKept, StartsWhole, FreshStart, AdoptsLocal, LocalOf, WholeOf
  <2> QED
    BY <1>3, <2>1, WholeStep DEF WholeInv
<1>4. LocalKept'
  BY <1>3 DEF LocalKept, LocalOf
<1>5. StartsWhole'
  BY <1>3 DEF StartsWhole, FreshStart, AdoptsLocal, WholeOf
<1> QED
  BY <1>1, <1>2, <1>4, <1>5 DEF WholeInv

\* Whatever pg_inits, archives and users do at once: a repository's refs are of known branches
\* and hold changes that were made, no cleanup or rename ever takes away master, and every
\* worktree that is there is registered and on a branch that exists.
THEOREM RefsTypeCorrect == Spec => []TypeOK
<1>1. Init => WholeInv
  BY WholeInvInit
<1>2. WholeInv /\ [Next]_vars => WholeInv'
  BY WholeInvStep
<1>3. WholeInv => TypeOK
  BY DEF WholeInv, WorkInv, Shape, Checkouts, RefsTyped, Contents, TypeOK
<1> QED
  BY <1>1, <1>2, <1>3, PTL DEF Spec

\* A new worktree lacks nothing its pg_init could find: fetched from the server, it holds what
\* the server had on that branch when the pg_init began; and the local branch its project had
\* is adopted, although the cleanups of any number of pg_inits run before it is made.
THEOREM WorktreesStartWhole == Spec => []StartsWhole
<1>1. Init => WholeInv
  BY WholeInvInit
<1>2. WholeInv /\ [Next]_vars => WholeInv'
  BY WholeInvStep
<1>3. WholeInv => StartsWhole
  BY DEF WholeInv
<1> QED
  BY <1>1, <1>2, <1>3, PTL DEF Spec
=============================================================================
