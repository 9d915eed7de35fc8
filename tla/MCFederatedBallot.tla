------------------------- MODULE MCFederatedBallot -------------------------
(***************************************************************************)
(* Two intact nodes that need each other, and a third node in their slices    *)
(* that is not intact.                                                        *)
(***************************************************************************)
EXTENDS FederatedBallot, TLC

CONSTANTS n1, n2, n3

MCSlices ==
    [n \in Node |-> {S \in SUBSET Node : n \in S /\ {n1, n2} \subseteq S}]

MCSymmetry == Permutations({n1, n2})
=============================================================================
