----------------------------- MODULE SCPBallot -----------------------------
(***************************************************************************)
(* Ballots and the order on them (src/scp/BallotProtocol.cpp).  A ballot is *)
(* a counter and a value; ballots are ordered by counter, then by value.    *)
(* Values are opaque to SCP, which only compares them: they are modelled by  *)
(* positive integers.  Counters start at 1; an EXTERNALIZE statement speaks   *)
(* for the counter UINT32_MAX.                                               *)
(***************************************************************************)
EXTENDS Integers

CONSTANTS
    Value,          \* the values a ballot may carry
    MaxCounter,     \* bound on the counters a node moves to by itself
    UINT32_MAX      \* the counter that stands for "infinity"

ASSUME ValueAssumption == Value \subseteq Nat \ {0}

ASSUME CounterAssumption ==
    /\ MaxCounter \in Nat \ {0}
    /\ UINT32_MAX \in Nat
    /\ MaxCounter < UINT32_MAX

Counter == 1 .. MaxCounter

\* The empty value, and the ballot a null pointer stands for.
NoValue == 0

NullBallot == [counter |-> 0, value |-> NoValue]

Ballot == [counter : Counter \cup {UINT32_MAX}, value : Value]

\* compareBallots(b1, b2) < 0
BallotLess(b1, b2) ==
    \/ b1.counter < b2.counter
    \/ b1.counter = b2.counter /\ b1.value < b2.value

\* compareBallots(b1, b2) <= 0
BallotLeq(b1, b2) ==
    \/ b1.counter < b2.counter
    \/ b1.counter = b2.counter /\ b1.value <= b2.value

areBallotsCompatible(b1, b2) == b1.value = b2.value

areBallotsLessAndIncompatible(b1, b2) ==
    BallotLeq(b1, b2) /\ ~ areBallotsCompatible(b1, b2)

areBallotsLessAndCompatible(b1, b2) ==
    BallotLeq(b1, b2) /\ areBallotsCompatible(b1, b2)
=============================================================================
