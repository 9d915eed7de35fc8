---------------------------- MODULE MCNomination ----------------------------
(***************************************************************************)
(* Small networks for NominationProtocol.                                     *)
(***************************************************************************)
EXTENDS NominationProtocol

CONSTANTS n1, n2, n3

\* The first two nodes need each other.
UnanimousSlices == [n \in Node |-> {S \in SUBSET Node : {n1, n2} \subseteq S}]

Order == <<n1, n2, n3>>

OrderOfTwo == <<n1, n2>>

\* The nodes lead by turns; the third node begins with itself.
Turns ==
    LET leader(n, r) == Order[((r + (IF n = n3 THEN 1 ELSE 2)) % 3) + 1]
    IN  [n \in Intact |-> [r \in 1 .. Period |-> [m \in Node |-> IF m = leader(n, r) THEN 5 ELSE 3]]]

\* Values are ranked in turns.
RankInTurns == [r \in 1 .. Period |-> [x \in Value |-> (x + r) % (Cardinality(Value) + 1)]]

AllValid == [n \in Intact |-> Value]

\* The second node takes value 1 for value 2, and has no use for value 3.
SomeInvalid == [AllValid EXCEPT ![n2] = {1}]

Variation == [n \in Intact |-> [x \in Value |-> IF x = 2 THEN 1 ELSE NoValue]]

MaxOf == [C \in (SUBSET Value) \ {{}} |-> CHOOSE x \in C : \A y \in C : y <= x]

OwnProposal == [n \in Intact |-> IF n = n1 THEN {1} ELSE {2}]

AnyProposal == [n \in Intact |-> Value]

NoNominations == {}

\* What a node that is not intact may say: it accepted something, perhaps nobody
\* voted for.
Rumours == {[votes |-> {x}, accepted |-> A] : x \in Value, A \in {{}, {3}}}
           \cup {[votes |-> Value, accepted |-> Value]}
=============================================================================
