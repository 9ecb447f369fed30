---------------------------- MODULE MCDocGuides ----------------------------
(***************************************************************************)
(* Every generated guide of the repository, as its build.py has it. The    *)
(* author leaves out the second chapter or the last: a gap in the numbers, *)
(* or none.                                                                *)
(***************************************************************************)
EXTENDS DocGuides, GuideData

WithSpare(g, c) == g @@ [spares |-> {c}]

MCGuides == UNION {{WithSpare(g, 2), WithSpare(g, Len(g.chapters))} : g \in AllGuides}

\* What DocGuides_proofs asks of the guides.
ASSUME GuidesAreWhole ==
    \A g \in AllGuides : TargetsThere(g) /\ MarksReplaced(g) /\ TablesMatch(g)
=============================================================================
