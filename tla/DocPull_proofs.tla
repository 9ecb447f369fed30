--------------------------- MODULE DocPull_proofs ---------------------------
(***************************************************************************)
(* Theorems about DocPull: what the update button of the documentation     *)
(* server leaves alone, and what its first pull delivers, for every number *)
(* of files, edits, commits and pulls, git commands that fail anywhere and *)
(* every chunk size.                                                       *)
(***************************************************************************)
EXTENDS DocPull, TLAPS

Tree == [Files -> Contents]

\* TypeOK, variable by variable.
Typed ==
    /\ head \in Tree /\ base \in Tree /\ target \in Tree /\ remote \in Tree
    /\ index \in Tree /\ wt \in Tree /\ indexBefore \in Tree
    /\ ahead \in BOOLEAN /\ behind \in BOOLEAN /\ moved \in BOOLEAN
    /\ todo \subseteq Docs /\ chunk \subseteq Docs /\ overlooked \subseteq Docs
    /\ own \subseteq Files /\ during \subseteq Files /\ leftStaged \subseteq Files
    /\ published \in [Files -> SUBSET Contents] /\ edits \in Nat

\* What the failed and misread commands of a pull hid are documents.
LEMMA UnseenAreDocs == ASSUME NEW failed PROVE Unseen(failed) \subseteq Docs
BY DEF Unseen, LocalEdits, Incoming

\* The trees hold contents, and the pull treats documents.
LEMMA TypedAlways == Spec => []Typed
<1>1. Init => Typed
  <2> SUFFICES ASSUME Init PROVE Typed
      OBVIOUS
  <2>1. head \in Tree /\ indexBefore \in Tree BY DEF Init, Contents, Tree
  <2>2. published \in [Files -> SUBSET Contents] BY <2>1 DEF Init, Tree
  <2> QED BY <2>1, <2>2, FilesAssumption DEF Init, Typed
<1>2. Typed /\ [Next]_vars => Typed'
  <2> SUFFICES ASSUME Typed, [Next]_vars PROVE Typed'
      OBVIOUS
  <2> USE DEF Typed, Tree, env, trees, hidden, Goto
  <2>1. CASE UNCHANGED vars BY <2>1 DEF vars
  <2>2. CASE StartPull BY <2>2 DEF StartPull
  <2>0. ASSUME NEW r, Done(r)
        PROVE  /\ indexBefore' \in Tree /\ remote' \in Tree /\ moved' \in BOOLEAN
               /\ todo' \subseteq Docs /\ chunk' \subseteq Docs
               /\ own' \subseteq Files /\ during' \subseteq Files
               /\ published' \in [Files -> SUBSET Contents] /\ edits' \in Nat
    BY <2>0 DEF Done, Contents
  <2>3. CASE PullStep
    <3>1. CASE Fetch BY <3>1 DEF Fetch
    <3>2. CASE UpToDate BY <3>2, <2>0 DEF UpToDate
    <3>3. CASE FastForwardable BY <3>3 DEF FastForwardable, Incoming
    <3>4. CASE Diverged BY <3>4 DEF Diverged
    <3>5. CASE DropRedundantDoc
      BY <3>5, FilesAssumption DEF DropRedundantDoc, MatchesTarget, Tracked, Contents
    <3>6. CASE DropDone BY <3>6 DEF DropDone
    <3>7. CASE Merge BY <3>7, <2>0 DEF Merge
    <3>8. CASE MergeRefused BY <3>8 DEF MergeRefused
    <3>9. CASE SyncDocs BY <3>9, UnseenAreDocs DEF SyncDocs, Incoming
    <3>10. CASE NothingToSync BY <3>10, <2>0, UnseenAreDocs DEF NothingToSync
    <3>11. CASE CheckoutChunk BY <3>11 DEF CheckoutChunk, LowestOf
    <3>12. CASE CheckoutRefused BY <3>12, <2>0 DEF CheckoutRefused
    <3>13. CASE CheckoutCut BY <3>13, <2>0 DEF CheckoutCut
    <3>14. CASE ResetChunk BY <3>14 DEF ResetChunk
    <3>15. CASE ResetRefused BY <3>15, FilesAssumption DEF ResetRefused
    <3>16. CASE SyncDone BY <3>16, <2>0 DEF SyncDone
    <3>17. CASE PullRaises BY <3>17, <2>0, FilesAssumption DEF PullRaises
    <3> QED BY <2>3, <3>1, <3>2, <3>3, <3>4, <3>5, <3>6, <3>7, <3>8, <3>9, <3>10, <3>11,
               <3>12, <3>13, <3>14, <3>15, <3>16, <3>17 DEF PullStep
  <2>4. ASSUME NEW f \in Files, NEW v \in Mine \cup {Gen}, Edit(f, v) PROVE Typed'
    BY <2>4 DEF Edit, Contents
  <2>5. CASE Commit BY <2>5 DEF Commit
  <2>6. ASSUME NEW f \in Files, NEW v \in Theirs \cup {Gen, None}, Upstream(f, v) PROVE Typed'
    BY <2>6 DEF Upstream, Contents
  <2> QED BY <2>1, <2>2, <2>3, <2>4, <2>5, <2>6 DEF Next, Environment
<1> QED BY <1>1, <1>2, PTL DEF Spec

\* TypeOK, for every state.
THEOREM TypeCorrect == Spec => []TypeOK
<1>1. Typed => TypeOK
  BY DEF Typed, TypeOK, Tree
<1> QED BY <1>1, TypedAlways, PTL

-----------------------------------------------------------------------------
(* Nothing local is lost *)

\* What _sync_docs may replace: a document that is not committed here, not staged, and
\* whose content is elsewhere.
Replaceable(f) ==
    base[f] = head[f] /\ index[f] = head[f] /\ wt[f] \in {head[f], None} \cup published[f]

\* What is still to be refreshed may be, except where somebody edits at the same time or a
\* command said nothing.
LossInv ==
    /\ \A f \in Files : target[f] \in published[f] /\ remote[f] \in published[f]
    /\ pc \in {"checkout", "reset"} => \A f \in todo \ (during \cup overlooked) : Replaceable(f)
    /\ chunk # {} => pc = "reset"
    /\ chunk \cap todo = {}

\* A document that git status would not show holds what HEAD has, or nothing.
LEMMA UnblockedIsReplaceable ==
    ASSUME NEW failed, NEW f \in (Incoming(failed) \ Blocked(failed)) \ Unseen(failed)
    PROVE  f \in Files /\ Replaceable(f)
<1>1. f \in Files /\ f \in Docs
  BY FilesAssumption DEF Incoming
<1>2. base[f] = head[f]
  BY <1>1 DEF Blocked, LocalEdits, Unseen
<1>3. f \notin Reported
  <2>1. CASE "status" \in failed BY <2>1, <1>1 DEF Unseen
  <2>2. CASE "status" \notin failed
    <3>1. f \notin Reported \ Misread BY <2>2 DEF Blocked, DirtyPaths
    <3>2. f \notin Misread BY <2>2, <1>1 DEF Unseen
    <3> QED BY <3>1, <3>2
  <2> QED BY <2>1, <2>2
<1> QED BY <1>1, <1>2, <1>3 DEF Reported, Staged, Modified, Untracked, Tracked, Replaceable

\* Only origin's contents come to be published; a file that somebody stages while the pull
\* runs is one of those edited meanwhile, and a commit takes nothing else.
LEMMA LossStep == ASSUME Typed, LossInv, [Next]_vars PROVE LossInv'
<1> USE DEF Typed, Tree, LossInv, Replaceable, env, trees, hidden, Goto
<1>1. CASE UNCHANGED vars BY <1>1 DEF vars
<1>2. CASE StartPull BY <1>2 DEF StartPull
<1>0. ASSUME NEW r, Done(r), \A f \in Files : target'[f] = target[f] PROVE LossInv'
  BY <1>0 DEF Done
<1>3. CASE PullStep
  <2>1. CASE Fetch BY <2>1 DEF Fetch
  <2>2. CASE UpToDate BY <2>2, <1>0 DEF UpToDate
  <2>3. CASE FastForwardable BY <2>3 DEF FastForwardable
  <2>4. CASE Diverged BY <2>4 DEF Diverged
  <2>5. CASE DropRedundantDoc BY <2>5, FilesAssumption DEF DropRedundantDoc
  <2>6. CASE DropDone BY <2>6 DEF DropDone
  <2>7. CASE Merge BY <2>7, <1>0 DEF Merge
  <2>8. CASE MergeRefused BY <2>8 DEF MergeRefused
  <2>9. CASE SyncDocs
    <3>1. PICK failed : /\ todo' = Incoming(failed) \ Blocked(failed)
                        /\ overlooked' = Unseen(failed)
      BY <2>9 DEF SyncDocs
    <3>2. \A f \in todo' \ overlooked' : f \in Files /\ Replaceable(f)
      BY <3>1, UnblockedIsReplaceable
    <3> QED BY <2>9, <3>2 DEF SyncDocs
  <2>10. CASE NothingToSync BY <2>10, <1>0 DEF NothingToSync
  <2>11. CASE CheckoutChunk
    <3> DEFINE low == LowestOf(todo)
    <3> HIDE DEF low
    <3>1. /\ pc = "checkout" /\ pc' = "reset"
          /\ chunk' = low /\ todo' = todo \ low
          /\ index' = [f \in Files |-> IF f \in low THEN target[f] ELSE index[f]]
          /\ wt' = [f \in Files |-> IF f \in low THEN target[f] ELSE wt[f]]
          /\ UNCHANGED <<head, base, target, remote, during, overlooked, published>>
      BY <2>11 DEF CheckoutChunk, low
    <3>2. low \subseteq todo /\ todo \subseteq Files
      BY FilesAssumption DEF LowestOf, low
    <3> QED BY <3>1, <3>2
  <2>12. CASE CheckoutRefused BY <2>12, <1>0 DEF CheckoutRefused
  <2>13. CASE CheckoutCut BY <2>13, <1>0 DEF CheckoutCut
  <2>14. CASE ResetChunk BY <2>14, FilesAssumption DEF ResetChunk
  <2>15. CASE ResetRefused BY <2>15 DEF ResetRefused
  <2>16. CASE SyncDone BY <2>16, <1>0 DEF SyncDone
  <2>17. CASE PullRaises BY <2>17, <1>0 DEF PullRaises
  <2> QED BY <1>3, <2>1, <2>2, <2>3, <2>4, <2>5, <2>6, <2>7, <2>8, <2>9, <2>10, <2>11,
             <2>12, <2>13, <2>14, <2>15, <2>16, <2>17 DEF PullStep
<1>4. ASSUME NEW f \in Files, NEW v \in Mine \cup {Gen}, Edit(f, v) PROVE LossInv'
  <2>1. /\ \A g \in Files \ {f} : wt'[g] = wt[g] /\ index'[g] = index[g]
        /\ during' = IF pc = "idle" THEN during ELSE during \cup {f}
        /\ UNCHANGED <<trees, remote, published, overlooked, pc, todo, chunk>>
    BY <1>4 DEF Edit
  <2> QED BY <2>1, FilesAssumption
<1>5. CASE Commit
  <2>1. head' = index /\ UNCHANGED <<base, target, index, wt, env, overlooked, pc, todo, chunk>>
    BY <1>5 DEF Commit
  <2> QED BY <2>1
<1>6. ASSUME NEW f \in Files, NEW v \in Theirs \cup {Gen, None}, Upstream(f, v) PROVE LossInv'
  BY <1>6, FilesAssumption DEF Upstream
<1> QED BY <1>1, <1>2, <1>3, <1>4, <1>5, <1>6 DEF Next, Environment

\* "So nothing local is lost", whatever is edited, staged or committed and whenever, and
\* whatever git command fails: what a pull replaces in a working tree is in HEAD or has been
\* on origin, and no document committed here is replaced, except in a file edited while the
\* pull runs or a document a failed or misread command said nothing of.
THEOREM NothingIsLost == Spec => NothingLost
<1> DEFINE Replaces == pc # "idle" /\ edits' = edits =>
               \A f \in Files \ (during \cup overlooked) : Keeps(f)
<1>1. Init => LossInv
  <2> SUFFICES ASSUME Init PROVE LossInv
      OBVIOUS
  <2> USE DEF Init
  <2>1. \A f \in Files : published[f] = {head[f]}
    OBVIOUS
  <2> QED BY <2>1 DEF LossInv
<1>2. Typed /\ LossInv /\ [Next]_vars => LossInv'
  BY LossStep
<1>3. Typed /\ LossInv /\ [Next]_vars => Replaces
  <2> SUFFICES ASSUME Typed, LossInv, [Next]_vars, pc # "idle", edits' = edits,
                      NEW f \in Files \ (during \cup overlooked), wt'[f] # wt[f]
               PROVE  /\ wt[f] \in {head[f], None} \cup published[f]
                      /\ pc = "checkout" /\ wt[f] = head[f] => head[f] = base[f]
      BY DEF Keeps
  <2> USE DEF Typed, Tree, env, hidden, Goto
  <2>1. DropRedundantDoc \/ Merge \/ CheckoutChunk \/ CheckoutCut
    <3>1. ~\E g \in Files, v \in Mine \cup {Gen} : Edit(g, v)
      BY DEF Edit
    <3> QED BY <3>1 DEF vars, Next, Environment, PullStep, StartPull, Fetch, UpToDate,
           FastForwardable, Diverged, DropDone, MergeRefused, SyncDocs, NothingToSync,
           CheckoutRefused, ResetChunk, ResetRefused, SyncDone, PullRaises, Commit, Upstream
  <2>2. CASE DropRedundantDoc
    <3>1. wt[f] = target[f] /\ pc = "drop"
      BY <2>2, FilesAssumption DEF DropRedundantDoc, MatchesTarget
    <3> QED BY <3>1 DEF LossInv
  <2>3. CASE Merge
    <3>1. head[f] # target[f] /\ index[f] # target[f] /\ pc = "merge"
      BY <2>3 DEF Merge
    <3>2. wt[f] = head[f]
      BY <2>3, <3>1 DEF Merge, MergeTakes
    <3> QED BY <3>1, <3>2
  <2>4. CASE CheckoutChunk
    <3>1. f \in todo /\ pc = "checkout"
      BY <2>4 DEF CheckoutChunk, LowestOf
    <3> QED BY <3>1 DEF LossInv, Replaceable
  <2>5. CASE CheckoutCut
    <3>1. f \in todo /\ pc = "checkout"
      BY <2>5 DEF CheckoutCut, LowestOf
    <3> QED BY <3>1 DEF LossInv, Replaceable
  <2> QED BY <2>1, <2>2, <2>3, <2>4, <2>5
<1>4. Spec => []Typed
  BY TypedAlways
<1> QED BY <1>1, <1>2, <1>3, <1>4, PTL DEF Spec, NothingLost

-----------------------------------------------------------------------------
(* Nothing sneaks into the index *)

\* The index differs from HEAD only where somebody edited, and from what it was when the
\* pull began only by agreeing with HEAD, but for the documents between checkout and reset
\* and those whose reset did not happen.
IndexInv ==
    /\ \A f \in Files \ (own \cup leftStaged \cup chunk) : index[f] = head[f]
    /\ pc # "idle" => \A f \in Files \ (during \cup leftStaged \cup chunk) :
                          index[f] \in {indexBefore[f], head[f]}
    /\ during \subseteq own
    /\ chunk # {} => pc = "reset"

\* Only the steps between checkout and reset put anything else into the index.
LEMMA IndexStep == ASSUME Typed, IndexInv, [Next]_vars PROVE IndexInv'
<1> USE DEF Typed, Tree, IndexInv, env, trees, hidden, Goto
<1>1. CASE UNCHANGED vars BY <1>1 DEF vars
<1>2. CASE StartPull BY <1>2 DEF StartPull
<1>3. CASE PullStep
  <2>1. CASE Fetch BY <2>1 DEF Fetch
  <2>2. CASE UpToDate BY <2>2 DEF UpToDate, Done
  <2>3. CASE FastForwardable BY <2>3 DEF FastForwardable
  <2>4. CASE Diverged BY <2>4 DEF Diverged
  <2>5. CASE DropRedundantDoc
    <3>1. PICK f \in Files : index'[f] \in {index[f], head[f]} /\ \A g \in Files \ {f} : index'[g] = index[g]
      BY <2>5, FilesAssumption DEF DropRedundantDoc
    <3> QED BY <2>5, <3>1 DEF DropRedundantDoc
  <2>6. CASE DropDone BY <2>6 DEF DropDone
  <2>7. CASE Merge BY <2>7 DEF Merge, Done
  <2>8. CASE MergeRefused BY <2>8 DEF MergeRefused
  <2>9. CASE SyncDocs BY <2>9 DEF SyncDocs
  <2>10. CASE NothingToSync BY <2>10 DEF NothingToSync, Done
  <2>11. CASE CheckoutChunk
    <3>1. /\ chunk = {} /\ pc' = "reset" /\ chunk' = LowestOf(todo)
          /\ \A f \in Files \ chunk' : index'[f] = index[f]
          /\ UNCHANGED <<head, own, during, leftStaged, indexBefore>> /\ pc # "idle"
      BY <2>11 DEF CheckoutChunk
    <3> QED BY <3>1
  <2>12. CASE CheckoutRefused BY <2>12 DEF CheckoutRefused, Done
  <2>13. CASE CheckoutCut BY <2>13 DEF CheckoutCut, Done
  <2>14. CASE ResetChunk BY <2>14 DEF ResetChunk
  <2>15. CASE ResetRefused BY <2>15 DEF ResetRefused
  <2>16. CASE SyncDone BY <2>16 DEF SyncDone, Done
  <2>17. CASE PullRaises BY <2>17 DEF PullRaises, Done
  <2> QED BY <1>3, <2>1, <2>2, <2>3, <2>4, <2>5, <2>6, <2>7, <2>8, <2>9, <2>10, <2>11,
             <2>12, <2>13, <2>14, <2>15, <2>16, <2>17 DEF PullStep
<1>4. ASSUME NEW f \in Files, NEW v \in Mine \cup {Gen}, Edit(f, v) PROVE IndexInv'
  <2>1. /\ \A g \in Files \ {f} : index'[g] = index[g]
        /\ own' = own \cup {f}
        /\ during' = IF pc = "idle" THEN during ELSE during \cup {f}
        /\ UNCHANGED <<head, leftStaged, pc, chunk, indexBefore>>
    BY <1>4 DEF Edit
  <2> QED BY <2>1
<1>5. CASE Commit BY <1>5 DEF Commit
<1>6. ASSUME NEW f \in Files, NEW v \in Theirs \cup {Gen, None}, Upstream(f, v) PROVE IndexInv'
  BY <1>6 DEF Upstream
<1> QED BY <1>1, <1>2, <1>3, <1>4, <1>5, <1>6 DEF Next, Environment

\* "The refreshed files never sneak into someone's next commit", whoever edits or commits
\* while a pull runs and whatever fails, but for the documents whose reset was refused or
\* never run, and the chunk of a commit made between its checkout and its reset.
THEOREM NothingIsStaged == Spec => NothingSneaksIn
<1> DEFINE Commits == head' # head /\ pc' = pc =>
               \A f \in Files \ (own \cup leftStaged \cup chunk) : head'[f] = head[f]
           Ends == pc # "idle" /\ pc' = "idle" =>
               \A f \in Files \ (during \cup leftStaged') : index'[f] \in {indexBefore[f], head'[f]}
<1>1. Init => IndexInv
  BY DEF Init, IndexInv
<1>2. Typed /\ IndexInv /\ [Next]_vars => IndexInv'
  BY IndexStep
<1>3. Typed /\ IndexInv /\ [Next]_vars => Commits /\ Ends
  <2> SUFFICES ASSUME Typed, IndexInv, [Next]_vars PROVE Commits /\ Ends
      OBVIOUS
  <2> USE DEF env, trees, hidden, Goto
  <2>1. Commits
    <3> SUFFICES ASSUME head' # head, pc' = pc
                 PROVE \A f \in Files \ (own \cup leftStaged \cup chunk) : head'[f] = head[f]
        OBVIOUS
    <3>1. Commit
      BY DEF vars, Next, Environment, PullStep, StartPull, Fetch, UpToDate, FastForwardable,
             Diverged, DropRedundantDoc, DropDone, Merge, MergeRefused, SyncDocs, NothingToSync,
             CheckoutChunk, CheckoutRefused, CheckoutCut, ResetChunk, ResetRefused, SyncDone,
             PullRaises, Edit, Upstream, Done
    <3> QED BY <3>1 DEF Commit, IndexInv
  <2>2. Ends
    <3> SUFFICES ASSUME pc # "idle", pc' = "idle", NEW f \in Files \ (during \cup leftStaged')
                 PROVE  index'[f] \in {indexBefore[f], head'[f]}
        OBVIOUS
    <3>1. \/ UpToDate \/ NothingToSync \/ CheckoutRefused \/ CheckoutCut \/ SyncDone
          \/ PullRaises \/ Merge
      BY DEF vars, Next, Environment, PullStep, StartPull, Fetch, FastForwardable,
             Diverged, DropRedundantDoc, DropDone, MergeRefused, SyncDocs,
             CheckoutChunk, ResetChunk, ResetRefused, Edit, Commit, Upstream
    <3>2. CASE Merge
      <4>1. pc = "merge" BY <3>2 DEF Merge
      <4> QED BY <3>2, <4>1 DEF Merge, IndexInv, Typed, Tree
    <3>3. CASE ~Merge
      <4>1. index' = index /\ head' = head /\ (pc = "reset" => chunk \subseteq leftStaged')
            /\ leftStaged \subseteq leftStaged'
        BY <3>1, <3>3 DEF UpToDate, NothingToSync, CheckoutRefused, CheckoutCut, SyncDone, PullRaises
      <4> QED BY <4>1 DEF IndexInv
    <3> QED BY <3>2, <3>3
  <2> QED BY <2>1, <2>2
<1>4. Spec => []Typed
  BY TypedAlways
<1> QED BY <1>1, <1>2, <1>3, <1>4, PTL DEF Spec, NothingSneaksIn

-----------------------------------------------------------------------------
(* What the first pull delivers *)

\* Nobody has touched file f here.
Untouched(f) == wt[f] = head[f] /\ index[f] = head[f] /\ base[f] = head[f]

\* A pull before it has changed anything for good, and the time before it.
Before == pulls = 0 \/ (pulls = 1 /\ pc \in {"fetch", "decide", "drop", "merge", "sync"})

\* PullDelivers is not inductive: that a file nobody edited is not blocked follows from its
\* being as in HEAD and in the merge base until it is refreshed, that only edited files are
\* dropped from what was reported when the pull began, and that a pull that finds nothing new
\* has fetched what was there at the start.
DeliverInv ==
    /\ pulls \in Nat
    /\ pc \in {"idle", "fetch", "decide", "drop", "merge", "sync", "checkout", "reset"}
    /\ pulls = 0 => pc = "idle"
    /\ ~moved => remote = target
    /\ pulls = 0 \/ (pulls = 1 /\ pc = "fetch") => target = base /\ ~behind
    /\ pulls = 1 /\ pc = "decide" /\ ~behind => target = base
    /\ Before => \A f \in Files \ own : Untouched(f)
    /\ pulls = 1 /\ pc = "drop" => todo \subseteq own
    /\ pulls = 1 /\ pc \in {"checkout", "reset"} =>
          \A f \in Docs \ (own \cup overlooked) : f \in todo \/ wt[f] = target[f]
    /\ PullDelivers

\* A file nobody has touched is not reported by git status.
LEMMA UntouchedIsClean == ASSUME NEW f \in Files, Untouched(f) PROVE f \notin Reported
BY DEF Untouched, Reported, Staged, Modified, Untracked, Tracked

\* ... so the refresh takes it whenever it is not the target's, unless git diff failed.
LEMMA UntouchedIsSynced ==
    ASSUME NEW failed, NEW f \in Docs \ Unseen(failed), Untouched(f)
    PROVE  f \in Incoming(failed) \ Blocked(failed) \/ wt[f] = target[f]
<1>1. f \in Files /\ f \notin Reported
  BY FilesAssumption, UntouchedIsClean
<1>2. f \notin Blocked(failed)
  BY <1>1 DEF Blocked, LocalEdits, DirtyPaths, Untouched
<1>3. CASE head[f] = target[f]
  BY <1>3 DEF Untouched
<1>4. CASE head[f] # target[f]
  BY <1>2, <1>4 DEF Incoming, Unseen
<1> QED BY <1>3, <1>4

LEMMA DeliverStep == ASSUME Typed, DeliverInv, [Next]_vars PROVE DeliverInv'
<1> USE FilesAssumption DEF DeliverInv, Before, Untouched, PullDelivers, env, trees, hidden, Goto, Done
<1>1. CASE UNCHANGED vars BY <1>1 DEF vars
<1>2. CASE StartPull
  <2>1. /\ pulls' = pulls + 1 /\ pc' = "fetch"
        /\ UNCHANGED <<head, base, target, index, wt, behind, remote, moved, own>>
    BY <1>2 DEF StartPull
  <2>2. CASE pulls = 0
    <3>1. target = base /\ ~behind
      BY <2>2, Zenon
    <3>2. ~moved => remote = target
      BY Zenon
    <3>3. \A f \in Files \ own : Untouched(f)
      BY <2>2, Zenon
    <3>4. pulls' = 1
      BY <2>1, <2>2
    <3> QED BY <2>1, <3>1, <3>2, <3>3, <3>4
  <2>3. CASE pulls # 0
    <3>1. pulls' \in Nat /\ pulls' # 0 /\ pulls' # 1
      BY <2>1, <2>3
    <3> QED BY <2>1, <3>1
  <2> QED BY <2>2, <2>3
<1>3. CASE PullStep
  <2>1. CASE Fetch BY <2>1 DEF Fetch, Typed
  <2>2. CASE UpToDate BY <2>2 DEF UpToDate
  <2>3. CASE FastForwardable
    <3>1. PICK failed : todo' = Incoming(failed) \cap DirtyPaths(failed)
      BY <2>3 DEF FastForwardable
    <3>2. pc = "decide" /\ pc' = "drop"
          /\ UNCHANGED <<trees, index, wt, env, hidden, chunk, result, indexBefore, pulls>>
      BY <2>3 DEF FastForwardable
    <3>3. pulls = 1 => todo' \subseteq own
      BY <3>1, <3>2, UntouchedIsClean DEF Incoming, DirtyPaths
    <3> QED BY <3>2, <3>3
  <2>4. CASE Diverged BY <2>4 DEF Diverged
  <2>5. CASE DropRedundantDoc
    <3>1. PICK f \in todo : todo' = todo \ {f} /\ \A g \in Files \ {f} : wt'[g] = wt[g] /\ index'[g] = index[g]
      BY <2>5 DEF DropRedundantDoc, Typed, Tree
    <3>2. UNCHANGED <<trees, env, hidden, pc, result, pulls>> /\ pc = "drop"
      BY <2>5 DEF DropRedundantDoc
    <3> QED BY <3>1, <3>2
  <2>6. CASE DropDone BY <2>6 DEF DropDone
  <2>7. CASE Merge
    <3>1. /\ pc' = "idle" /\ UNCHANGED <<target, remote, moved, own, overlooked, pulls>>
          /\ wt' = [f \in Files |-> IF head[f] # target[f] /\ index[f] # target[f] THEN target[f] ELSE wt[f]]
          /\ pc = "merge"
      BY <2>7 DEF Merge
    <3>2. pulls = 1 => \A f \in Docs \ own : wt'[f] = target[f]
      BY <3>1
    <3> QED BY <3>1, <3>2
  <2>8. CASE MergeRefused BY <2>8 DEF MergeRefused
  <2>9. CASE SyncDocs
    <3>1. PICK failed : /\ todo' = Incoming(failed) \ Blocked(failed)
                        /\ overlooked' = Unseen(failed)
      BY <2>9 DEF SyncDocs
    <3>2. pc = "sync" /\ pc' = "checkout"
          /\ UNCHANGED <<trees, index, wt, env, leftStaged, chunk, result, indexBefore, pulls>>
      BY <2>9 DEF SyncDocs
    <3>3. pulls = 1 => \A f \in Docs \ (own \cup overlooked') : f \in todo' \/ wt[f] = target[f]
      BY <3>1, <3>2, UntouchedIsSynced
    <3> QED BY <3>2, <3>3
  <2>10. CASE NothingToSync
    <3>1. PICK failed : /\ Incoming(failed) \ Blocked(failed) = {}
                        /\ overlooked' = Unseen(failed)
      BY <2>10 DEF NothingToSync
    <3>2. pc = "sync" /\ pc' = "idle"
          /\ UNCHANGED <<trees, index, wt, leftStaged, remote, moved, own, published, edits, commits, pulls>>
      BY <2>10 DEF NothingToSync
    <3>3. pulls = 1 => \A f \in Docs \ (own \cup overlooked') : wt[f] = target[f]
      BY <3>1, <3>2, UntouchedIsSynced
    <3> QED BY <3>2, <3>3
  <2>11. CASE CheckoutChunk BY <2>11 DEF CheckoutChunk
  <2>12. CASE CheckoutRefused BY <2>12 DEF CheckoutRefused
  <2>13. CASE CheckoutCut
    <3>1. pulls' = pulls /\ pc' = "idle" /\ result' \in {"error", "refused"} /\ pc = "checkout"
          /\ UNCHANGED <<target, remote, moved>>
      BY <2>13 DEF CheckoutCut
    <3> QED BY <3>1
  <2>14. CASE ResetChunk BY <2>14 DEF ResetChunk
  <2>15. CASE ResetRefused BY <2>15 DEF ResetRefused
  <2>16. CASE SyncDone BY <2>16 DEF SyncDone
  <2>17. CASE PullRaises BY <2>17 DEF PullRaises
  <2> QED BY <1>3, <2>1, <2>2, <2>3, <2>4, <2>5, <2>6, <2>7, <2>8, <2>9, <2>10, <2>11,
             <2>12, <2>13, <2>14, <2>15, <2>16, <2>17 DEF PullStep
<1>4. ASSUME NEW f \in Files, NEW v \in Mine \cup {Gen}, Edit(f, v) PROVE DeliverInv'
  <2>1. /\ own' = own \cup {f} /\ \A g \in Files \ {f} : wt'[g] = wt[g] /\ index'[g] = index[g]
        /\ UNCHANGED <<trees, remote, moved, overlooked, pc, todo, result, pulls>>
    BY <1>4 DEF Edit, Typed, Tree
  <2> QED BY <2>1
<1>5. CASE Commit
  <2>1. \A f \in Files \ own : Before => index[f] = head[f]
    OBVIOUS
  <2> QED BY <1>5, <2>1 DEF Commit
<1>6. ASSUME NEW f \in Files, NEW v \in Theirs \cup {Gen, None}, Upstream(f, v) PROVE DeliverInv'
  BY <1>6 DEF Upstream
<1> QED BY <1>1, <1>2, <1>3, <1>4, <1>5, <1>6 DEF Next, Environment

\* After the first pull every document nobody edited here is origin's, whichever way the pull
\* went, however many documents there are and however long the commands, unless git reported
\* an error or timed out: what git status and git diff report blocks no untouched document.
THEOREM FirstPullDelivers == Spec => []PullDelivers
<1>1. Init => DeliverInv
  BY DEF Init, DeliverInv, Before, Untouched, PullDelivers
<1>2. Typed /\ DeliverInv /\ [Next]_vars => DeliverInv'
  BY DeliverStep
<1>3. DeliverInv => PullDelivers
  BY DEF DeliverInv
<1> QED BY <1>1, <1>2, <1>3, TypedAlways, PTL DEF Spec
=============================================================================
