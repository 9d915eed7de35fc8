-------------------------- MODULE MCBallotProtocol --------------------------
(***************************************************************************)
(* Small networks for BallotProtocol.                                         *)
(***************************************************************************)
EXTENDS BallotProtocol, TLC

CONSTANTS n1, n2, n3

\* The intact nodes need each other.
UnanimousSlices == [n \in Node |-> {S \in SUBSET Node : Intact \subseteq S}]

AllValid == [n \in Intact |-> [x \in Value |-> kFullyValidatedValue]]

\* The second node cannot tell whether the value 2 is valid.
SomeUnsure ==
    [AllValid EXCEPT ![n2] = [x \in Value |-> IF x = 2 THEN kMaybeValidValue ELSE @[x]]]

AnyCandidate == [n \in Intact |-> Value]

\* What the node that is not intact says: it prepares and externalizes both values.
Contradictions ==
    {[type |-> PREPARE, ballot |-> [counter |-> 2, value |-> x], prepared |-> NullBallot,
      preparedPrime |-> NullBallot, nC |-> 0, nH |-> 0] : x \in {1, 2}}
    \cup
    {[type |-> EXTERNALIZE, ballot |-> [counter |-> 1, value |-> x], prepared |-> NullBallot,
      preparedPrime |-> NullBallot, nC |-> 1, nH |-> 1] : x \in {1, 2}}

NoStatements == {}

TwoSymmetry == Permutations({n1, n2})
=============================================================================
