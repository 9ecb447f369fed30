---------------------------- MODULE PortRegistry ----------------------------
(***************************************************************************)
(* What the port registry promises to the project directories: a directory *)
(* comes with a port no other directory has, PRIMARY_PORT_MIN goes to      *)
(* master and to nothing else, and the port is given back when the         *)
(* directory is archived.                                                  *)
(***************************************************************************)
EXTENDS Integers

CONSTANTS Projects, Master, PrimaryPortMin, PrimaryPortMax, NoPort

VARIABLE assigned     \* port of each existing project directory, or NoPort

PortsFor(d) == IF d = Master THEN {PrimaryPortMin}
                             ELSE PrimaryPortMin + 1 .. PrimaryPortMax

Init == assigned = [d \in Projects |-> NoPort]

Assign(d) ==
    /\ assigned[d] = NoPort
    /\ \E q \in PortsFor(d) :
          /\ \A e \in Projects : assigned[e] # q
          /\ assigned' = [assigned EXCEPT ![d] = q]

Release(d) ==
    /\ assigned[d] # NoPort
    /\ assigned' = [assigned EXCEPT ![d] = NoPort]

Next == \E d \in Projects : Assign(d) \/ Release(d)

Spec == Init /\ [][Next]_assigned
=============================================================================
