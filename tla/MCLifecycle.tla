---------------------------- MODULE MCLifecycle ----------------------------
(* Instances of Lifecycle for TLC: two branches and one call at a time, or one *)
(* branch and two calls that overlap; rows are deleted and everything fails.   *)
EXTENDS Lifecycle
CONSTANTS foo, bar, r1, r2
SerialOrOverlap ==
    {[branches |-> {foo, bar}, calls |-> {r1}, deletes |-> TRUE,
      faults |-> {"dashboard", "host", "stop", "push", "sqlite"}],
     [branches |-> {foo}, calls |-> {r1, r2}, deletes |-> TRUE,
      faults |-> {"dashboard", "stop", "sqlite"}]}
=============================================================================
