----------------------------- MODULE Worktrees -----------------------------
(***************************************************************************)
(* The git side of a branch's life: update_base_repo, cleanup_branches,    *)
(* setup_worktree and _align_teleport_branch of lib/init.py, and the moves  *)
(* and deletions of archive_branch, on one base repository whose refs      *)
(* every pg_init, every archive and every user of a worktree share.  No    *)
(* lock is held over any of it.                                            *)
(*                                                                         *)
(* A commit is the set of changes it contains, and a ref maps to one; git  *)
(* itself (what it refuses, what it resets) is modelled from how it is     *)
(* called.  The base repository has master checked out.                    *)
(***************************************************************************)
EXTENDS Integers, Functions

CONSTANTS
    Projects,     \* branches that get a project directory
    Others,       \* branches of the user's own, and of the cloud sessions
    Master, Cloud,
    Calls,
    Settings,     \* what is considered together: see setting
    NoBranch, Detached

ASSUME RefsAssumption ==
    /\ Projects \cap Others = {} /\ Master \notin Projects \cup Others /\ Cloud \in Others
    /\ NoBranch \notin Projects \cup Others \cup {Master}
    /\ Detached \notin Projects \cup Others \cup {Master}

Refs == Projects \cup Others \cup {Master}

ASSUME SettingsAssumption ==
    \A s \in Settings :
       /\ s.made \in Nat
       /\ \A f \in {s.local, s.origin} :
             /\ Master \in DOMAIN f /\ DOMAIN f \subseteq Refs
             /\ \A b \in DOMAIN f : f[b] \subseteq 1 .. s.made
       /\ s.bases \subseteq Refs

VARIABLES
    setting,      \* fixed by Init: the refs there are at first (local, origin, tags), the
                  \* base and teleport choices a pg_init may be given, the branches users
                  \* switch to, the faults ("fetch": the server is out of reach, "push",
                  \* "later": a later step of pg_init fails), and the bounds: changes
                  \* made at first and at most, pg_inits and archives started
    origin,       \* branches of the server
    tracking,     \* refs/remotes/origin
    local,        \* refs/heads
    worktree,     \* registered worktrees: branch checked out, and the commit when detached
    here,         \* PGSQL_DIR/<project>/postgres/.git exists
    dir,          \* PGSQL_DIR/<project> exists
    reg,          \* projects in port_lock
    pc, name,     \* next step of each call, and its branch
    base, teleport,  \* its base_branch, and whether it resumes a cloud session
    todo,         \* cleanup_branches: branches still to be looked at
    target,       \* ... the one "git branch -D" is being called for
    source,       \* setup_worktree: the ref found, <<where, branch>>
    \* history, read by the properties only
    made,         \* changes made so far
    work,         \* changes committed in a project's directory on the project's branch
    asked,        \* what a pg_init could find: on the server when it began, of its two
                  \* branches, without one deleted since; and the project's local branch
    crossed,      \* projects two calls have worked on at the same time
    started

git == <<origin, tracking, local, worktree>>
disk == <<here, dir, reg>>
args == <<name, base, teleport>>
found == <<todo, target, source>>
history == <<made, work, asked, crossed>>
vars == <<setting, git, disk, pc, args, found, history, started>>

CleanupPcs == {"prune", "worktrees", "branches", "registry", "cleanup", "delete"}
InitPcs == {"allocate", "mkdir", "update"} \cup CleanupPcs \cup {"fetch", "choose", "add", "made", "align"}
ArchivePcs == {"move", "aprune", "dropLocal", "dropRemote", "unregister"}

\* the value of f at b, as a set: nothing when there is no such ref
At(f, b) == IF b \in DOMAIN f THEN f[b] ELSE {}
Drop(f, b) == Restrict(f, DOMAIN f \ {b})
Put(f, b, c) == [d \in DOMAIN f \cup {b} |-> IF d = b THEN c ELSE f[d]]

NothingAsked == [server |-> [b \in {} |-> {}], local |-> {}]

Init ==
    /\ setting \in Settings
    /\ origin = setting.origin /\ tracking = setting.origin /\ local = setting.local
    /\ worktree = [p \in {} |-> {}]
    /\ here = {} /\ dir = {} /\ reg = {}
    /\ pc = [r \in Calls |-> "off"]
    /\ name = [r \in Calls |-> NoBranch]
    /\ base = [r \in Calls |-> Master]
    /\ teleport = [r \in Calls |-> FALSE]
    /\ todo = [r \in Calls |-> {}]
    /\ target = [r \in Calls |-> NoBranch]
    /\ source = [r \in Calls |-> <<"none", NoBranch>>]
    /\ made = setting.made
    /\ work = [p \in Projects |-> {}]
    /\ asked = [r \in Calls |-> NothingAsked]
    /\ crossed = {} /\ started = 0

Goto(r, s) == pc' = [pc EXCEPT ![r] = s]
Leave(r) ==
    /\ Goto(r, "off")
    /\ name' = [name EXCEPT ![r] = NoBranch]
    /\ base' = [base EXCEPT ![r] = Master]
    /\ teleport' = [teleport EXCEPT ![r] = FALSE]
    /\ todo' = [todo EXCEPT ![r] = {}]
    /\ target' = [target EXCEPT ![r] = NoBranch]
    /\ source' = [source EXCEPT ![r] = <<"none", NoBranch>>]
    /\ UNCHANGED <<made, work, crossed>>
LeaveInit(r) == Leave(r) /\ asked' = [asked EXCEPT ![r] = NothingAsked]

\* Branch b is deleted on the server.
DropOrigin(b) ==
    /\ origin' = Drop(origin, b)
    /\ asked' = [r \in Calls |-> [asked[r] EXCEPT !.server = Drop(@, b)]]

\* Another call works on project b, or is about to delete its branch.
Contended(r, b) == \E c \in Calls \ {r} : name[c] = b \/ target[c] = b

-----------------------------------------------------------------------------
(* What git does *)

Registered(p) == p \in DOMAIN worktree
CheckedOut(b) == b = Master \/ \E p \in DOMAIN worktree : worktree[p].ref = b

\* the commit checked out in p's worktree
Tip(p) == IF worktree[p].ref = Detached THEN worktree[p].at ELSE local[worktree[p].ref]

On(b) == [ref |-> b, at |-> {}]

\* git worktree prune: a worktree whose directory is gone is forgotten
Pruned == Restrict(worktree, here)

\* git fetch --all, without --prune
Fetched == [b \in DOMAIN origin \cup DOMAIN tracking |->
              IF b \in DOMAIN origin THEN origin[b] ELSE tracking[b]]

\* Mutant: --force, which deletes what another worktree has checked out.
ForceDelete(b) == IF b \in DOMAIN local THEN Drop(local, b) ELSE local

\* git branch -D: refused for a branch some worktree has checked out
DeleteBranch(b) == IF CheckedOut(b) THEN local ELSE Drop(local, b)

-----------------------------------------------------------------------------
(* init_branch, up to the worktree *)

StartInit(r, b) ==
    /\ pc[r] = "off" /\ started < setting.maxCalls
    /\ \E bb \in setting.bases, t \in setting.teleports :
          /\ bb # b
          /\ base' = [base EXCEPT ![r] = bb]
          /\ teleport' = [teleport EXCEPT ![r] = t]
          /\ asked' = [asked EXCEPT ![r] = [server |-> Restrict(origin, {b, bb} \cap DOMAIN origin), local |-> {}]]
    /\ name' = [name EXCEPT ![r] = b]
    /\ crossed' = IF Contended(r, b) THEN crossed \cup {b} ELSE crossed
    /\ Goto(r, "allocate")
    /\ started' = started + 1
    /\ UNCHANGED <<git, disk, found, made, work>>

\* allocate_port: entries without a directory are dropped
Allocate(r) ==
    /\ pc[r] = "allocate" /\ name[r] \notin dir
    /\ reg' = (reg \cap dir) \cup {name[r]}
    /\ Goto(r, "mkdir")
    /\ UNCHANGED <<git, here, dir, args, found, history, started>>

\* "Already exists"
AllocateRaises(r) ==
    /\ pc[r] = "allocate" /\ name[r] \in dir
    /\ reg' = reg \cap dir
    /\ LeaveInit(r)
    /\ UNCHANGED <<git, here, dir, started>>

Mkdir(r) ==
    /\ pc[r] = "mkdir"
    /\ dir' = dir \cup {name[r]}
    /\ asked' = [asked EXCEPT ![r].local = At(local, name[r])]
    /\ crossed' = IF Contended(r, name[r]) \/ name[r] \in dir
                  THEN crossed \cup {name[r]} ELSE crossed \ {name[r]}
    /\ Goto(r, "update")
    /\ UNCHANGED <<git, here, reg, args, found, made, work, started>>

\* update_base_repo: fetch, checkout master, pull --ff-only; failures are ignored
UpdateBase(r) ==
    /\ pc[r] = "update"
    /\ \/ /\ tracking' = Fetched
          /\ local' = IF local[Master] \subseteq origin[Master]
                      THEN [local EXCEPT ![Master] = origin[Master]] ELSE local
       \/ "fetch" \in setting.faults /\ UNCHANGED <<tracking, local>>
    /\ Goto(r, "prune")
    /\ UNCHANGED <<origin, worktree, disk, args, found, history, started>>

-----------------------------------------------------------------------------
(* cleanup_branches: three lists, one after the other, then branch by branch *)

Prune(r) ==
    /\ pc[r] \in {"prune", "aprune"}
    /\ worktree' = Pruned
    /\ Goto(r, IF pc[r] = "prune" THEN "worktrees" ELSE "dropLocal")
    /\ UNCHANGED <<origin, tracking, local, disk, args, found, history, started>>

\* wt_branches: todo holds, until the branches are listed, those not to be listed
ListWorktrees(r) ==
    /\ pc[r] = "worktrees"
    /\ todo' = [todo EXCEPT ![r] = {b \in Refs : CheckedOut(b)}]
    /\ Goto(r, "branches")
    /\ UNCHANGED <<git, disk, args, target, source, history, started>>

ListBranches(r) ==
    /\ pc[r] = "branches"
    /\ todo' = [todo EXCEPT ![r] = DOMAIN local \ (@ \cup {Master})]
    /\ Goto(r, "registry")
    /\ UNCHANGED <<git, disk, args, target, source, history, started>>

ReadRegistry(r) ==
    /\ pc[r] = "registry"
    /\ todo' = [todo EXCEPT ![r] = @ \ reg]
    /\ Goto(r, "cleanup")
    /\ UNCHANGED <<git, disk, args, target, source, history, started>>

\* Mutant: only the worktrees and the registry protect a branch.
ConsiderUnhoused(r, b) ==
    /\ pc[r] = "cleanup" /\ b \in todo[r]
    /\ todo' = [todo EXCEPT ![r] = @ \ {b}]
    /\ target' = [target EXCEPT ![r] = b]
    /\ Goto(r, "delete")
    /\ UNCHANGED <<git, disk, args, source, history, started>>

\* A branch whose project directory exists now is kept, any other is to go.
Consider(r, b) ==
    /\ pc[r] = "cleanup" /\ b \in todo[r]
    /\ todo' = [todo EXCEPT ![r] = @ \ {b}]
    /\ \/ b \in dir /\ UNCHANGED <<pc, target>>
       \/ /\ b \notin dir
          /\ target' = [target EXCEPT ![r] = b]
          /\ Goto(r, "delete")
    /\ UNCHANGED <<git, disk, args, source, history, started>>

\* git branch -D
Delete(r) ==
    /\ pc[r] = "delete"
    /\ local' = DeleteBranch(target[r])
    /\ target' = [target EXCEPT ![r] = NoBranch]
    /\ Goto(r, "cleanup")
    /\ UNCHANGED <<origin, tracking, worktree, disk, args, todo, source, history, started>>

\* The worktree that is there is used: setup_worktree returns at once.
CleanupDone(r) ==
    /\ pc[r] = "cleanup" /\ todo[r] = {}
    /\ Goto(r, IF name[r] \in here THEN "made" ELSE "fetch")
    /\ UNCHANGED <<git, disk, args, found, history, started>>

-----------------------------------------------------------------------------
(* setup_worktree *)

\* check=True
Fetch(r) ==
    /\ pc[r] = "fetch"
    /\ tracking' = Fetched
    /\ Goto(r, "choose")
    /\ UNCHANGED <<origin, local, worktree, disk, args, found, history, started>>

\* Mutant: a local branch is not looked for.
FirstOfRemote(b, else) ==
    IF b \in DOMAIN tracking THEN <<"remote", b>>
    ELSE IF b \in setting.tags THEN <<"tag", b>>
    ELSE else

\* the first of the remote branch, the local branch and the tag named b
FirstOf(b, else) ==
    IF b \in DOMAIN tracking THEN <<"remote", b>>
    ELSE IF b \in DOMAIN local THEN <<"local", b>>
    ELSE IF b \in setting.tags THEN <<"tag", b>>
    ELSE else

Choose(r) ==
    /\ pc[r] = "choose"
    /\ source' = [source EXCEPT ![r] = FirstOf(name[r], FirstOf(base[r], <<"remote", Master>>))]
    /\ Goto(r, "add")
    /\ UNCHANGED <<git, disk, args, todo, target, history, started>>

\* What the ref chosen names by now.  A plain name that is also a tag is ambiguous to git.
Exists(s) ==
    \/ s[1] = "remote" /\ s[2] \in DOMAIN tracking
    \/ s[1] = "local" /\ s[2] \in DOMAIN local /\ s[2] \notin setting.tags
    \/ s[1] = "tag"
Commit(s) ==
    CASE s[1] = "remote" -> tracking[s[2]]
      [] s[1] = "local" -> local[s[2]]
      [] s[1] = "tag" -> {}

\* Mutant: with --force, a branch that is checked out elsewhere is reset too.
AddableByForce(r) ==
    /\ ~Registered(name[r]) /\ name[r] \notin here
    /\ Exists(source[r])

Addable(r) ==
    /\ ~Registered(name[r]) /\ name[r] \notin here
    /\ Exists(source[r])
    /\ source[r] = <<"tag", name[r]>> \/ ~CheckedOut(name[r])

\* git worktree add: -B <branch> makes or resets it; of a tag of the project's own name,
\* --detach
Add(r) ==
    /\ pc[r] = "add" /\ Addable(r)
    /\ LET b == name[r]
           c == Commit(source[r])
       IN IF source[r] = <<"tag", b>>
          THEN /\ worktree' = Put(worktree, b, [ref |-> Detached, at |-> c])
               /\ UNCHANGED local
          ELSE /\ worktree' = Put(worktree, b, On(b))
               /\ local' = Put(local, b, c)
    /\ here' = here \cup {name[r]}
    /\ dir' = dir \cup {name[r]}
    /\ Goto(r, "made")
    /\ UNCHANGED <<origin, tracking, reg, args, found, history, started>>

\* ... fails, and so does any step of pg_init that is checked: nothing is undone
InitRaises(r) ==
    /\ \/ pc[r] = "fetch" /\ "fetch" \in setting.faults
       \/ pc[r] = "add" /\ ~Addable(r)
       \/ pc[r] = "made" /\ "later" \in setting.faults
    /\ LeaveInit(r)
    /\ UNCHANGED <<git, disk, started>>

\* copy_settings, build_postgres, ..., and the session in tmux.  claude --teleport, when
\* it works, checks out the session's own branch in the worktree.
BuiltAndStarted(r) ==
    /\ pc[r] = "made"
    /\ LET p == name[r] IN
       \/ UNCHANGED git
       \/ /\ teleport[r] /\ p \in here /\ ~CheckedOut(Cloud)
          /\ worktree' = [worktree EXCEPT ![p] = On(Cloud)]
          /\ tracking' = Fetched
          /\ local' = Put(local, Cloud, At(local, Cloud) \cup At(origin, Cloud))
          /\ UNCHANGED origin
    /\ Goto(r, "align")
    /\ UNCHANGED <<disk, args, found, history, started>>

\* _align_teleport_branch: git branch -M <project>, refused while the project's branch is
\* checked out by another worktree; pg_init is over
Align(r) ==
    /\ pc[r] = "align"
    /\ LET p == name[r]
           current == IF p \in here THEN worktree[p].ref ELSE Detached
       IN IF ~teleport[r] \/ current \in {Detached, p} \/ CheckedOut(p)
          THEN UNCHANGED <<local, worktree>>
          ELSE /\ local' = Put(Drop(local, current), p, local[current])
               /\ worktree' = [worktree EXCEPT ![p] = On(p)]
    /\ LeaveInit(r)
    /\ UNCHANGED <<origin, tracking, disk, started>>

-----------------------------------------------------------------------------
(* archive_branch, from the move of the directory on *)

StartArchive(r, b) ==
    /\ pc[r] = "off" /\ started < setting.maxCalls
    /\ b \in dir
    /\ name' = [name EXCEPT ![r] = b]
    /\ crossed' = IF Contended(r, b) THEN crossed \cup {b} ELSE crossed
    /\ Goto(r, "move")
    /\ started' = started + 1
    /\ UNCHANGED <<git, disk, base, teleport, found, made, work, asked>>

Move(r) ==
    /\ pc[r] = "move" /\ name[r] \in dir
    /\ dir' = dir \ {name[r]}
    /\ here' = here \ {name[r]}
    /\ work' = [work EXCEPT ![name[r]] = {}]
    /\ Goto(r, "aprune")
    /\ UNCHANGED <<git, reg, args, found, made, asked, crossed, started>>

DropLocal(r) ==
    /\ pc[r] = "dropLocal"
    /\ local' = DeleteBranch(name[r])
    /\ Goto(r, "dropRemote")
    /\ UNCHANGED <<origin, tracking, worktree, disk, args, found, history, started>>

\* git push --delete, and its remote-tracking ref; a refusal is ignored
DropRemote(r) ==
    /\ pc[r] = "dropRemote"
    /\ \/ name[r] \in DOMAIN origin /\ DropOrigin(name[r]) /\ tracking' = Drop(tracking, name[r])
       \/ UNCHANGED <<origin, tracking, asked>>
    /\ Goto(r, "unregister")
    /\ UNCHANGED <<local, worktree, disk, args, found, made, work, crossed, started>>

RemovePortEntry(r) ==
    /\ pc[r] = "unregister"
    /\ reg' = reg \ {name[r]}
    /\ Leave(r)
    /\ UNCHANGED <<git, here, dir, asked, started>>

\* the directory is gone; git push is killed by its time limit, with or without effect
ArchiveRaises(r) ==
    /\ \/ pc[r] = "move" /\ name[r] \notin dir /\ UNCHANGED <<origin, asked>>
       \/ /\ pc[r] = "dropRemote" /\ "push" \in setting.faults
          /\ UNCHANGED <<origin, asked>> \/ DropOrigin(name[r])
    /\ Leave(r)
    /\ UNCHANGED <<tracking, local, worktree, disk, started>>

-----------------------------------------------------------------------------
(* The users of the worktrees, and of the server *)

\* Nobody works in a worktree that pg_init has not finished.
InUse(p) ==
    /\ p \in here
    /\ \A r \in Calls : name[r] = p => pc[r] \notin InitPcs

Commits(p) ==
    /\ InUse(p) /\ made < setting.maxChanges
    /\ made' = made + 1
    /\ IF worktree[p].ref = Detached
       THEN worktree' = [worktree EXCEPT ![p].at = @ \cup {made'}] /\ UNCHANGED local
       ELSE local' = [local EXCEPT ![worktree[p].ref] = @ \cup {made'}] /\ UNCHANGED worktree
    /\ work' = IF worktree[p].ref = p THEN [work EXCEPT ![p] = @ \cup {made'}] ELSE work
    /\ UNCHANGED <<origin, tracking, disk, pc, args, found, asked, crossed, started>>

\* git switch, or git switch -c: refused for a branch checked out elsewhere
Switches(p, b) ==
    /\ InUse(p) /\ b \in setting.switches /\ ~CheckedOut(b)
    /\ worktree' = [worktree EXCEPT ![p] = On(b)]
    /\ local' = IF b \in DOMAIN local THEN local ELSE Put(local, b, Tip(p))
    /\ UNCHANGED <<origin, tracking, disk, pc, args, found, history, started>>

\* git push of what is checked out: fast-forward only
Pushes(p) ==
    /\ InUse(p) /\ worktree[p].ref # Detached
    /\ At(origin, worktree[p].ref) \subseteq Tip(p)
    /\ origin' = Put(origin, worktree[p].ref, Tip(p))
    /\ tracking' = Put(tracking, worktree[p].ref, Tip(p))
    /\ UNCHANGED <<local, worktree, disk, pc, args, found, history, started>>

\* Somebody else pushes to the server, or gh repo sync does.
Upstream(b) ==
    /\ b \in DOMAIN origin /\ made < setting.maxChanges
    /\ made' = made + 1
    /\ origin' = [origin EXCEPT ![b] = @ \cup {made'}]
    /\ UNCHANGED <<tracking, local, worktree, disk, pc, args, found, work, asked, crossed, started>>

-----------------------------------------------------------------------------
InitStep(r) ==
    \/ Allocate(r) \/ AllocateRaises(r) \/ Mkdir(r) \/ UpdateBase(r)
    \/ Prune(r) \/ ListWorktrees(r) \/ ListBranches(r) \/ ReadRegistry(r)
    \/ (\E b \in Refs : Consider(r, b)) \/ Delete(r) \/ CleanupDone(r)
    \/ Fetch(r) \/ Choose(r) \/ Add(r) \/ InitRaises(r)
    \/ BuiltAndStarted(r) \/ Align(r)

ArchiveStep(r) ==
    \/ Move(r) \/ DropLocal(r) \/ DropRemote(r) \/ RemovePortEntry(r) \/ ArchiveRaises(r)

Call(r) ==
    \/ \E b \in Projects : StartInit(r, b) \/ StartArchive(r, b)
    \/ InitStep(r) \/ ArchiveStep(r)

User ==
    \/ \E p \in Projects : Commits(p) \/ Pushes(p)
    \/ \E p \in Projects, b \in Refs : Switches(p, b)
    \/ \E b \in Refs : Upstream(b)

Next ==
    /\ UNCHANGED setting
    /\ User \/ \E r \in Calls : Call(r)

Spec == Init /\ [][Next]_vars

-----------------------------------------------------------------------------
(* Properties *)

\* Types; a worktree that is there is registered, in a project directory, and on a branch
\* that exists.
TypeOK ==
    /\ \A f \in {origin, tracking, local} :
          DOMAIN f \subseteq Refs /\ \A b \in DOMAIN f : f[b] \subseteq 1 .. made
    /\ Master \in DOMAIN origin \cap DOMAIN tracking \cap DOMAIN local
    /\ here \subseteq dir \cap DOMAIN worktree /\ dir \subseteq Projects /\ reg \subseteq Projects
    /\ \A p \in DOMAIN worktree : worktree[p].ref \in DOMAIN local \cup {Detached}
    /\ \A r \in Calls :
          /\ pc[r] \in {"off"} \cup InitPcs \cup ArchivePcs
          /\ name[r] = NoBranch <=> pc[r] = "off"
          /\ target[r] # NoBranch <=> pc[r] = "delete"

\* What was committed in a project's directory on the project's branch stays on that branch
\* until the project is archived, whatever its user has switched to and whatever other
\* pg_inits clean up, reset or rename at the same time, unless two calls worked on that
\* project at once.
WorkKept == \A p \in dir \ crossed : work[p] \subseteq At(local, p)

\* No pg_init starts from a ref that was already out of date, although update_base_repo
\* ignores that it could not fetch.
FreshStart ==
    \A r \in Calls :
       pc[r] = "made" /\ source[r][1] = "remote" /\ name[r] \notin crossed
       => At(asked[r].server, source[r][2]) \subseteq Tip(name[r])

\* A local branch that exists when its project directory is made is not lost to any of the
\* cleanups that run before its worktree is made, unless the server has a branch of that name.
AdoptsLocal ==
    \A r \in Calls :
       pc[r] = "made" /\ name[r] \notin crossed /\ source[r] # <<"remote", name[r]>>
       => asked[r].local \subseteq Tip(name[r])

\* A new worktree lacks nothing: made from a branch of the server it holds what the server
\* had on that branch when pg_init began, unless the branch was deleted there since, and
\* otherwise all of the local branch its project had when its directory was made.
StartsWhole == FreshStart /\ AdoptsLocal

\* What a user has checked out changes under nobody else's hands: no cleanup, archive,
\* worktree or renaming of another project deletes, resets or moves that branch.
CheckedOutStands ==
    [][\A p \in Projects :
          InUse(p) /\ p \in here' /\ worktree'[p] = worktree[p] /\ made' = made
          => /\ worktree[p].ref \in DOMAIN local' \cup {Detached}
             /\ Tip(p)' = Tip(p)]_vars
=============================================================================
