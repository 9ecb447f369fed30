------------------------------ MODULE DocPull ------------------------------
(***************************************************************************)
(* The "update" button of the documentation server: api_pull and its       *)
(* helpers in internals/app.py, over a git checkout in which documents are *)
(* also written, staged and committed by hand, and an origin that moves.   *)
(*                                                                         *)
(* Per file: the content in HEAD, in the merge base, in the fetched target,*)
(* in the index and in the working tree.  What git status, merge --ff-only,*)
(* checkout TREE -- PATHS and reset -- PATHS do to them is modelled as the *)
(* code relies on it; the commit graph is kept as two facts, whether HEAD  *)
(* has commits the target has not, and the other way round.                *)
(***************************************************************************)
EXTENDS Integers, FiniteSets

CONSTANTS
    Files,        \* paths, numbered in the order of their names
    Docs,         \* those under DOC_DIRS
    Old, Gen,     \* contents: the first commit's; a document generated in this
                  \* checkout and merged upstream later
    Mine, Theirs, \* contents only written here; contents only written upstream
    None,         \* no such file
    FirstCommits, \* sets of files that the first commit may have
    EditKinds,    \* what is done by hand: "new", "unstaged", "staged", "commit";
                  \* "during" when also while a pull runs
    UpstreamDeletes,  \* whether upstream commits delete files
    GitMayFail,   \* whether git commands may fail: another git holds the index lock, a
                  \* time limit, an unreadable file
    ChunkSize,    \* paths per git checkout (100 in the code)
    MaxEdits, MaxUpstream, MaxPulls   \* bounds on the environment

ASSUME FilesAssumption == Files \subseteq Nat /\ Docs \subseteq Files /\ ChunkSize \in Nat \ {0}

Contents == {Old, Gen, None} \cup Mine \cup Theirs

VARIABLES
    head, base, target, remote,   \* contents per file of these commits
    index, wt,                    \* ... of the index and the working tree
    ahead, behind,    \* HEAD has commits target has not; target has commits HEAD has not
    moved,            \* origin has commits that are not fetched
    pc,               \* next step of api_pull
    todo,             \* files _drop_redundant_local_docs / _sync_docs still has to treat
    chunk,            \* files checked out and not yet reset
    result,           \* how the last pull ended
    indexBefore,      \* history: the index when the pull started
    own,              \* history: files edited by hand
    during,           \* history: those edited since this pull began
    overlooked,       \* history: documents of which a command this pull relied on said
                      \* nothing, or something that was misread
    leftStaged,       \* history: refreshed documents whose reset did not happen
    published,        \* history: contents every file has had on origin
    edits, commits, pulls

env == <<remote, moved, own, during, published, edits, commits>>
trees == <<head, base, target, ahead, behind>>
hidden == <<overlooked, leftStaged>>
vars == <<trees, env, hidden, index, wt, pc, todo, chunk, result, indexBefore, pulls>>

Init ==
    /\ \E first \in FirstCommits : head = [f \in Files |-> IF f \in first THEN Old ELSE None]
    /\ base = head /\ target = head /\ remote = head /\ index = head /\ wt = head
    /\ ahead = FALSE /\ behind = FALSE /\ moved = FALSE
    /\ pc = "idle" /\ todo = {} /\ chunk = {} /\ result = "none"
    /\ indexBefore = [f \in Files |-> None] /\ own = {} /\ during = {} /\ overlooked = {} /\ leftStaged = {}
    /\ published = [f \in Files |-> {head[f]}]
    /\ edits = 0 /\ commits = 0 /\ pulls = 0

Goto(s) == pc' = s
LowestOf(S) == {f \in S : Cardinality({g \in S : g < f}) < ChunkSize}

-----------------------------------------------------------------------------
(* What people and origin do between pulls *)

MayEdit == pc = "idle" \/ "during" \in EditKinds

Edit(f, v) ==
    /\ MayEdit /\ edits < MaxEdits
    /\ wt[f] # v
    /\ \/ "new" \in EditKinds /\ wt[f] = None /\ index[f] = None
          /\ wt' = [wt EXCEPT ![f] = v] /\ UNCHANGED index
       \/ "unstaged" \in EditKinds /\ index[f] # None
          /\ wt' = [wt EXCEPT ![f] = v] /\ UNCHANGED index
       \/ "staged" \in EditKinds
          /\ wt' = [wt EXCEPT ![f] = v] /\ index' = [index EXCEPT ![f] = v]
    /\ own' = own \cup {f}
    /\ during' = IF pc = "idle" THEN during ELSE during \cup {f}
    /\ edits' = edits + 1
    /\ UNCHANGED <<trees, remote, moved, pc, todo, chunk, result, indexBefore,
                   published, hidden, commits, pulls>>

Commit ==
    /\ MayEdit /\ "commit" \in EditKinds
    /\ index # head
    /\ head' = index
    /\ ahead' = TRUE
    /\ leftStaged' = {}
    /\ UNCHANGED <<base, target, behind, index, wt, env, overlooked, pc, todo, chunk, result,
                   indexBefore, pulls>>

\* A commit on origin; Gen arrives when the document written here is merged there.  A pull
\* reads origin once, in Fetch, so a push while it runs is one that comes before or after.
Upstream(f, v) ==
    /\ pc = "idle" /\ commits < MaxUpstream
    /\ remote[f] # v
    /\ v = None => UpstreamDeletes
    /\ remote' = [remote EXCEPT ![f] = v]
    /\ published' = [published EXCEPT ![f] = @ \cup {v}]
    /\ moved' = TRUE
    /\ commits' = commits + 1
    /\ UNCHANGED <<trees, index, wt, pc, todo, chunk, result, indexBefore, own, during,
                   hidden, edits, pulls>>

-----------------------------------------------------------------------------
(* git status, as _dirty_paths reads it *)

Staged(f) == index[f] # head[f]
Tracked(f) == index[f] # None
Modified(f) == Tracked(f) /\ wt[f] # index[f]
Untracked(f) == ~Tracked(f) /\ wt[f] # None
Reported == {f \in Files : Staged(f) \/ Modified(f) \/ Untracked(f)}

\* Lines for tracked paths come first, by path, then the untracked ones.
FirstReported ==
    LET known == {f \in Reported : Staged(f) \/ Modified(f)}
        first == IF known # {} THEN known ELSE Reported
    IN {f \in first : \A g \in first : f <= g}

\* _git strips its output, so a first line " M path" starts at "M", and line[3:] is
\* not the path any more.  A staged or untracked first entry has no leading space.
Misread == {f \in FirstReported : ~Staged(f) /\ Modified(f)}

\* The helpers take a command that fails for one that reports nothing; "failed" is the set
\* of those that do.
MayFail(cmds) == IF GitMayFail THEN SUBSET cmds ELSE {{}}

\* Mutant: untracked files are not asked for.
DirtyTracked(failed) ==
    IF "status" \in failed THEN {} ELSE {f \in Reported \ Misread : Tracked(f)}

DirtyPaths(failed) == IF "status" \in failed THEN {} ELSE Reported \ Misread

\* Mutant: the diff is not limited to DOC_DIRS.
IncomingAnywhere(failed) ==
    IF "incoming" \in failed THEN {} ELSE {f \in Files : head[f] # target[f]}

Incoming(failed) == IF "incoming" \in failed THEN {} ELSE {f \in Docs : head[f] # target[f]}
LocalEdits(failed) == IF "base" \in failed THEN {} ELSE {f \in Docs : base[f] # head[f]}
MatchesTarget(f) == wt[f] # None /\ wt[f] = target[f]

-----------------------------------------------------------------------------
(* api_pull *)

StartPull ==
    /\ pc = "idle" /\ pulls < MaxPulls
    /\ pulls' = pulls + 1
    /\ indexBefore' = index
    /\ overlooked' = {} /\ result' = "none"
    /\ Goto("fetch")
    /\ UNCHANGED <<trees, env, leftStaged, index, wt, todo, chunk>>

Fetch ==
    /\ pc = "fetch"
    /\ target' = remote
    /\ behind' = (behind \/ moved)
    /\ moved' = FALSE
    /\ Goto("decide")
    /\ UNCHANGED <<head, base, ahead, index, wt, remote, own, during, published, hidden, edits,
                   commits, todo, chunk, result, indexBefore, pulls>>

Done(r) ==
    /\ Goto("idle")
    /\ todo' = {} /\ chunk' = {}
    /\ result' = r
    /\ during' = {} /\ indexBefore' = [f \in Files |-> None]   \* that was this pull's
    /\ UNCHANGED <<remote, moved, own, published, edits, commits, pulls>>

UpToDate ==
    /\ pc = "decide" /\ ~behind
    /\ Done("uptodate")
    /\ UNCHANGED <<trees, index, wt, hidden>>

\* _is_ancestor takes a failure for "no".
FastForwardable ==
    /\ pc = "decide"
    /\ behind \/ GitMayFail
    /\ ~ahead
    /\ \E failed \in MayFail({"incoming", "status"}) :
          todo' = Incoming(failed) \cap DirtyPaths(failed)
    /\ Goto("drop")
    /\ UNCHANGED <<trees, index, wt, env, hidden, chunk, result, indexBefore, pulls>>

Diverged ==
    /\ pc = "decide"
    /\ behind \/ GitMayFail
    /\ ahead \/ GitMayFail
    /\ Goto("sync")
    /\ UNCHANGED <<trees, index, wt, env, hidden, todo, chunk, result, indexBefore, pulls>>

\* One path of _drop_redundant_local_docs: checkout HEAD -- path when git knows it
\* (which fails when HEAD has no such path), unlink otherwise.
DropRedundantDoc ==
    /\ pc = "drop"
    /\ \E f \in todo :
          /\ \A g \in todo : f <= g
          /\ todo' = todo \ {f}
          /\ \/ /\ MatchesTarget(f) /\ Tracked(f) /\ head[f] # None
                /\ wt' = [wt EXCEPT ![f] = head[f]]
                /\ index' = [index EXCEPT ![f] = head[f]]
             \/ /\ MatchesTarget(f) /\ (Tracked(f) => GitMayFail)   \* ls-files failed
                /\ wt' = [wt EXCEPT ![f] = None]
                /\ UNCHANGED index
             \/ /\ \/ ~MatchesTarget(f)
                   \/ Tracked(f) /\ head[f] = None
                   \/ GitMayFail
                /\ UNCHANGED <<index, wt>>
    /\ UNCHANGED <<trees, env, hidden, pc, chunk, result, indexBefore, pulls>>

DropDone ==
    /\ pc = "drop" /\ todo = {}
    /\ Goto("merge")
    /\ UNCHANGED <<trees, index, wt, env, hidden, todo, chunk, result, indexBefore, pulls>>

\* git merge --ff-only takes a path when the index has the target's content already,
\* or when the path is untouched in index and working tree.
MergeTakes(f) ==
    head[f] # target[f] => \/ index[f] = target[f]
                           \/ index[f] = head[f] /\ wt[f] = index[f]

Merge ==
    /\ pc = "merge"
    /\ \A f \in Files : MergeTakes(f)
    /\ wt' = [f \in Files |->
                 IF head[f] # target[f] /\ index[f] # target[f] THEN target[f] ELSE wt[f]]
    /\ index' = [f \in Files |-> IF head[f] # target[f] THEN target[f] ELSE index[f]]
    /\ head' = target /\ base' = target
    /\ behind' = FALSE
    /\ Done("forwarded")
    /\ UNCHANGED <<target, ahead, hidden>>

MergeRefused ==
    /\ pc = "merge"
    /\ GitMayFail \/ \E f \in Files : ~MergeTakes(f)
    /\ Goto("sync")
    /\ UNCHANGED <<trees, index, wt, env, hidden, todo, chunk, result, indexBefore, pulls>>

\* _sync_docs: what may not be refreshed
Blocked(failed) == Incoming(failed) \cap (LocalEdits(failed) \cup DirtyPaths(failed))

\* The documents that a failed or misread command let through, or left out.
Unseen(failed) ==
    (IF "status" \in failed THEN Docs \cap Reported ELSE Docs \cap Misread)
    \cup (IF "base" \in failed THEN LocalEdits({}) ELSE {})
    \cup (IF "incoming" \in failed THEN Incoming({}) ELSE {})

SyncDocs ==
    /\ pc = "sync"
    /\ \E failed \in MayFail({"incoming", "base", "status"}) :
          /\ Incoming(failed) \ Blocked(failed) # {}
          /\ todo' = Incoming(failed) \ Blocked(failed)
          /\ overlooked' = Unseen(failed)
    /\ Goto("checkout")
    /\ UNCHANGED <<trees, index, wt, env, leftStaged, chunk, result, indexBefore, pulls>>

NothingToSync ==
    /\ pc = "sync"
    /\ \E failed \in MayFail({"incoming", "base", "status"}) :
          /\ Incoming(failed) \ Blocked(failed) = {}
          /\ overlooked' = Unseen(failed)
          /\ Done(IF Incoming(failed) = {} THEN "uptodate" ELSE "blocked")
    /\ UNCHANGED <<trees, index, wt, leftStaged>>

\* Mutant: only the first chunk is refreshed.
CheckoutFirstChunk ==
    /\ pc = "checkout" /\ todo # {}
    /\ \A f \in LowestOf(todo) : target[f] # None
    /\ chunk' = LowestOf(todo)
    /\ todo' = {}
    /\ index' = [f \in Files |-> IF f \in LowestOf(todo) THEN target[f] ELSE index[f]]
    /\ wt' = [f \in Files |-> IF f \in LowestOf(todo) THEN target[f] ELSE wt[f]]
    /\ Goto("reset")
    /\ UNCHANGED <<trees, env, hidden, result, indexBefore, pulls>>

\* git checkout target -- chunk
CheckoutChunk ==
    /\ pc = "checkout" /\ todo # {}
    /\ \A f \in LowestOf(todo) : target[f] # None
    /\ chunk' = LowestOf(todo)
    /\ todo' = todo \ LowestOf(todo)
    /\ index' = [f \in Files |-> IF f \in LowestOf(todo) THEN target[f] ELSE index[f]]
    /\ wt' = [f \in Files |-> IF f \in LowestOf(todo) THEN target[f] ELSE wt[f]]
    /\ Goto("reset")
    /\ UNCHANGED <<trees, env, hidden, result, indexBefore, pulls>>

\* A path the target does not have fails the whole command, before it has changed anything.
CheckoutRefused ==
    /\ pc = "checkout" /\ todo # {}
    /\ GitMayFail \/ \E f \in LowestOf(todo) : target[f] = None
    /\ Done("refused")
    /\ UNCHANGED <<trees, index, wt, hidden>>

\* A checkout cut short (killed at its time limit, a file it cannot write): some files
\* are written, the index is not.
CheckoutCut ==
    /\ GitMayFail
    /\ pc = "checkout"
    /\ \A f \in LowestOf(todo) : target[f] # None
    /\ \E S \in SUBSET LowestOf(todo) :
          wt' = [f \in Files |-> IF f \in S THEN target[f] ELSE wt[f]]
    /\ \E r \in {"error", "refused"} : Done(r)
    /\ UNCHANGED <<trees, index, hidden>>

\* Mutant: the index is left as checkout made it.
ResetForgotten ==
    /\ pc = "reset"
    /\ chunk' = {}
    /\ Goto("checkout")
    /\ UNCHANGED <<trees, wt, env, hidden, todo, result, indexBefore, pulls, index>>

\* git reset HEAD -- chunk
ResetChunk ==
    /\ pc = "reset"
    /\ index' = [f \in Files |-> IF f \in chunk THEN head[f] ELSE index[f]]
    /\ chunk' = {}
    /\ Goto("checkout")
    /\ UNCHANGED <<trees, wt, env, hidden, todo, result, indexBefore, pulls>>

\* Its return code is ignored.
ResetRefused ==
    /\ GitMayFail
    /\ pc = "reset"
    /\ leftStaged' = leftStaged \cup chunk
    /\ chunk' = {}
    /\ Goto("checkout")
    /\ UNCHANGED <<trees, index, wt, env, overlooked, todo, result, indexBefore, pulls>>

SyncDone ==
    /\ pc = "checkout" /\ todo = {}
    /\ Done("synced")
    /\ UNCHANGED <<trees, index, wt, hidden>>

\* subprocess.TimeoutExpired or OSError from the next git command, or a failed fetch: 50x
PullRaises ==
    /\ GitMayFail /\ pc # "idle"
    /\ Done("error")
    /\ leftStaged' = leftStaged \cup chunk
    /\ UNCHANGED <<trees, index, wt, overlooked>>

PullStep ==
    \/ Fetch \/ UpToDate \/ FastForwardable \/ Diverged \/ DropRedundantDoc \/ DropDone
    \/ Merge \/ MergeRefused \/ SyncDocs \/ NothingToSync \/ CheckoutChunk
    \/ CheckoutRefused \/ CheckoutCut \/ ResetChunk \/ ResetRefused \/ SyncDone \/ PullRaises

Environment ==
    \/ \E f \in Files, v \in Mine \cup {Gen} : Edit(f, v)
    \/ Commit
    \/ \E f \in Files, v \in Theirs \cup {Gen, None} : Upstream(f, v)

Next == StartPull \/ PullStep \/ Environment
Spec == Init /\ [][Next]_vars

-----------------------------------------------------------------------------
\* Type invariant; todo and chunk hold documents only (git diff ... -- DOC_DIRS).
TypeOK ==
    /\ {head, base, target, remote, index, wt, indexBefore} \subseteq [Files -> Contents]
    /\ {ahead, behind, moved} \subseteq BOOLEAN
    /\ todo \subseteq Docs /\ chunk \subseteq Docs /\ overlooked \subseteq Docs
    /\ {own, during, leftStaged} \subseteq SUBSET Files
    /\ published \in [Files -> SUBSET Contents]

\* A step keeps file f: what it replaces there is in HEAD or has been on origin, and the
\* refresh of _sync_docs replaces no document whose local version is committed here (only
\* a fast-forward, which has no local commits, does).
Keeps(f) ==
    wt'[f] # wt[f] => /\ wt[f] \in {head[f], None} \cup published[f]
                      /\ pc = "checkout" /\ wt[f] = head[f] => head[f] = base[f]

\* "So nothing local is lost" (_sync_docs), word for word: a pull keeps every file.
NothingLocalLost == [][pc # "idle" /\ edits' = edits => \A f \in Files : Keeps(f)]_vars

\* "So nothing local is lost" (_sync_docs, _drop_redundant_local_docs), whatever fails and
\* whoever edits, stages or commits meanwhile: a pull keeps every file, but for one edited
\* while it runs and for a document that a failed or misread git status, merge-base or diff
\* said nothing of.
NothingLost ==
    [][pc # "idle" /\ edits' = edits => \A f \in Files \ (during \cup overlooked) : Keeps(f)]_vars

\* "The refreshed files never sneak into someone's next commit" (_sync_docs), whatever fails:
\* a commit made here changes only files somebody edited here, and a pull ends with an index
\* in which every path is as it was before or as in HEAD.  The exceptions are a document
\* whose reset was refused or never run, until the next commit takes it, and, for a commit
\* made in the middle of a pull, the chunk between its checkout and its reset.
NothingSneaksIn ==
    [][/\ head' # head /\ pc' = pc =>
             \A f \in Files \ (own \cup leftStaged \cup chunk) : head'[f] = head[f]
       /\ pc # "idle" /\ pc' = "idle" =>
             \A f \in Files \ (during \cup leftStaged') : index'[f] \in {indexBefore[f], head'[f]}]_vars

\* After the first pull, unless git reported an error, every document nobody edited here
\* is origin's (README.md and the fallback of api_pull), whichever way the pull went and
\* whatever failed unnoticed, but for documents that a failed git diff did not name.
PullDelivers ==
    pc = "idle" /\ pulls = 1 /\ result \notin {"error", "refused"} =>
        \A f \in Docs \ (own \cup overlooked) : wt[f] = target[f]
=============================================================================
