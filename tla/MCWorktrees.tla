---------------------------- MODULE MCWorktrees ----------------------------
(* Instances of Worktrees: two projects, one branch of the user's, one of the cloud. *)
EXTENDS Worktrees, TLC

CONSTANTS foo, bar, cloud, master, r1, r2

Plain == [local |-> (master :> {}), origin |-> (master :> {}), tags |-> {}, bases |-> {master},
          teleports |-> {FALSE}, switches |-> {}, faults |-> {}, made |-> 0, maxChanges |-> 1, maxCalls |-> 2]

\* A pg_init and another call, with users who change branches in their worktrees.
Users == [Plain EXCEPT !.switches = {cloud, foo}, !.maxCalls = 3]

\* Branches that are there already: local ones nobody has pushed, one of which is also a
\* tag, branches of the server, and a cloud session to resume.
Kept == [Plain EXCEPT !.local = (master :> {}) @@ (foo :> {1}) @@ (cloud :> {2}), !.made = 2,
                      !.maxChanges = 4, !.bases = {master, cloud}, !.tags = {bar},
                      !.faults = {"fetch", "push", "later"}, !.maxCalls = 2]
Shared == [Plain EXCEPT !.origin = (master :> {}) @@ (foo :> {}) @@ (cloud :> {}), !.bases = {master, foo},
                        !.teleports = BOOLEAN, !.switches = {cloud, bar}, !.faults = {"fetch"},
                        !.maxChanges = 2]

Symmetry == Permutations(Calls)
All == {Users, Kept, Shared}
=============================================================================
