----------------------------- MODULE MCPortLock -----------------------------
(***************************************************************************)
(* Calls that overlap, on master and one other project; and calls that     *)
(* come one at a time, on four projects that three ports do not suffice.   *)
(***************************************************************************)
EXTENDS PortLock
CONSTANTS master, a, b, c

Overlapping == [overlap |-> TRUE, projects |-> {master, a}]
Serial == [overlap |-> FALSE, projects |-> {master, a, b, c}]
Both == {Overlapping, Serial}
Three == {[Overlapping EXCEPT !.projects = {master, a, b}]}
=============================================================================
