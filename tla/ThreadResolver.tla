--------------------------- MODULE ThreadResolver ---------------------------
(***************************************************************************)
(* mcp/ingester/src/thread_resolver.py: the thread each message of one     *)
(* mbox file is given.                                                     *)
(***************************************************************************)
EXTENDS Integers, FiniteSets

CONSTANTS Msgs, NoMsg
ASSUME NoMsgAssumption == NoMsg \notin Msgs

\* Mutant: the chain is not followed.
WalkNowhere(batch, parent) == [visited \in SUBSET Msgs |-> [current \in Msgs |-> current]]

\* while current in by_id and current not in visited
Walk(batch, parent) ==
    LET walk[visited \in SUBSET Msgs] ==
            [current \in Msgs |->
                IF current \in batch \ visited /\ parent[current] # NoMsg
                THEN walk[visited \cup {current}][parent[current]]
                ELSE current]
    IN walk

\* parent: In-Reply-To; ref: the first of References; batch: messages of the file
FindThreadRoot(m, batch, parent, ref) ==
    IF ref[m] # NoMsg THEN ref[m]
    ELSE IF parent[m] # NoMsg THEN Walk(batch, parent)[{}][parent[m]]
    ELSE m

=============================================================================
