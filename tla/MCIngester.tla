----------------------------- MODULE MCIngester -----------------------------
(***************************************************************************)
(* Small archives.  In the growing one hackers (file 1) gets the replies c *)
(* and b before their root a, bugs (file 2) is empty at first and          *)
(* cross-posts a; c replies to b replies to a, e stands alone, b has no    *)
(* date.  The others are one file of three messages.                       *)
(***************************************************************************)
EXTENDS McpServer, TLC
CONSTANTS a, b, c, e

Nobody == [m \in Msgs |-> NoMsg]
Dates == a :> 1 @@ b :> 0 @@ c :> 3 @@ e :> 2
Fine == [m \in Msgs |-> "none"]
Opinions == [Fine EXCEPT ![b] = "returned", ![c] = "committed"]

Growing ==
    [contents |-> <<<<{c}, {b, c}, {a, b, c}>>, <<{}, {a, e}>>>>,
     parent |-> a :> NoMsg @@ b :> a @@ c :> b @@ e :> NoMsg,
     ref |-> Nobody, concludes |-> Opinions, sent |-> Dates,
     fault |-> Fine, crashes |-> 0, reader |-> FALSE]

\* b has two patches and answers a; e has one and begins a thread
Faulty == {[Growing EXCEPT !.fault[x[1]] = x[2],
                        !.crashes = IF x[2] = "none" THEN 2 ELSE 1] :
               x \in {b} \X {"none", "undecodable", "rejected", "nul id", "long id", "patch unencodable"}
                 \cup {e} \X {"undecodable", "unencodable", "nul id", "patch rejected"}}

OneFile == [Growing EXCEPT !.contents = <<<<{a, b, c}>>>>]

\* every choice of In-Reply-To, and of References for two of the messages
Headers == {[OneFile EXCEPT !.parent = p @@ e :> NoMsg, !.ref = r @@ Nobody] :
                p \in [{a, b, c} -> Msgs \cup {NoMsg}], r \in [{b, c} -> {NoMsg, a, e}]}

\* every choice of what the three messages of one thread conclude
Verdicts == {[OneFile EXCEPT !.concludes = k @@ Fine] :
                 k \in [{a, b, c} -> {"none", "committed", "withdrawn"}]}

\* an agent reads: a thread of four, and the growing lists
Reads == {[s EXCEPT !.reader = TRUE] :
              s \in {Growing, [OneFile EXCEPT !.contents = <<<<{a, b, c, e}>>>>, !.parent = e :> a @@ @]}}

Carried == [m \in Msgs |-> CASE m = b -> 2 [] m = e -> 1 [] OTHER -> 0]
Lengths == a :> 150 @@ b :> 3000 @@ c :> 13000 @@ e :> 3000
Ranks == a :> 1 @@ b :> 3 @@ c :> 2 @@ e :> 1
Archives == Faulty \cup Headers \cup Verdicts \cup Reads
RejectsE == {[Growing EXCEPT !.fault[e] = "rejected"]}
=============================================================================
