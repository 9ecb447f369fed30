----------------------------- MODULE MCMcpBatch -----------------------------
(* Instances of McpBatch for TLC: one dashboard process, or the two that the *)
(* Flask reloader makes.                                                     *)
EXTENDS McpBatch, TLC
CONSTANTS serving, parent, ss, sp, w1, w2, lf

OneProcess == {serving}
TwoProcesses == {serving, parent}
SchedulerOfOne == serving :> ss
SchedulerOfTwo == serving :> ss @@ parent :> sp
ButtonOrBoth ==
    {[awake |-> {w1, w2}, slots |-> {}, lists |-> <<"hackers", "bugs">>, months |-> <<1, 2>>],
     [awake |-> {w1, ss}, slots |-> {}, lists |-> <<"hackers">>, months |-> <<1>>],
     [awake |-> {w1, w2}, slots |-> {lf}, lists |-> <<"hackers">>, months |-> <<1>>]}
BothSchedulers ==
    {[awake |-> {ss, sp}, slots |-> {}, lists |-> <<"hackers">>, months |-> <<1>>]}
=============================================================================
