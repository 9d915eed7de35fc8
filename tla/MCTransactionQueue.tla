------------------------ MODULE MCTransactionQueue ------------------------
(***************************************************************************)
(* An instance of TransactionQueue.  Alice has two transactions in a row, the  *)
(* first of which Bob offers to pay ten times as much for (a1by); Bob has a    *)
(* transaction of its own.                                                     *)
(***************************************************************************)
EXTENDS TransactionQueue, TLC

CONSTANTS alice, bob

Transaction(src, payer, n, bid, wrapped) ==
    [source |-> src, feeSource |-> payer, seqNum |-> n, fee |-> bid, ops |-> 1,
     inner |-> wrapped]

a1 == Transaction(alice, alice, 2, 1, {})
a2 == Transaction(alice, alice, 3, 1, {})
a1by == Transaction(alice, bob, 2, 10, {a1})
b1 == Transaction(bob, bob, 2, 1, {})

Transactions == {a1, a2, a1by, b1}

Expiring == {a1}

\* Either everything can be paid, or of a1 and a2, and of a1by and b1, only one.
Balances == {alice :> 2 @@ bob :> 11, alice :> 1 @@ bob :> 10}

FirstSeq == alice :> 1 @@ bob :> 1
=============================================================================
