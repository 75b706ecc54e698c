---------------------------- MODULE MCEventQueue ----------------------------
(* Model checking of EventQueue: the symmetry of its workers, and the bound *)
(* of what happens at once.                                                 *)
EXTENDS EventQueue, TLC

Symmetry == Permutations(Workers)

\* Bounds: one request abandoned by its phone, two events being recorded.
FewAtOnce ==
    /\ Cardinality({w \in Workers : pc[w] = "idle" /\ handler[w] # "none"}) <= 1
    /\ Cardinality(checking \cup {e \in Events : place[e] = "numbered"}) <= 2
=============================================================================
