------------------------ MODULE MCPendingEnvelopes ------------------------
(***************************************************************************)
(* Two envelopes that share a transaction set, and two peers.                 *)
(***************************************************************************)
EXTENDS PendingEnvelopes

CONSTANTS a, b, bad, txs, p1, p2

\* An envelope of slot 2 and one of slot 3.
slots == [e \in Envelope |-> IF e = a THEN 2 ELSE 3]

\* The first envelope comes with a quorum set that is not sane, the second with one
\* that the node has had all along.
sharedNeeds == [e \in Envelope |-> IF e = a THEN {bad, txs} ELSE {txs}]

allAcceptable == [l \in 1 .. MaxLedger |-> Envelope]

\* The node may come up with the transaction set itself, after ledger 2.
setOnTwo == [l \in 1 .. MaxLedger |-> IF l = 2 THEN {txs} ELSE {}]

\* One peer has everything, the other nothing.
oneHas == [p \in Peer |-> IF p = p1 THEN Item ELSE {}]

\* What PendingEnvelopesProofs assumes for FetchersMatch is so here.
ASSUME HonestInstance == ProposedForNext /\ AcceptedOnce
=============================================================================
