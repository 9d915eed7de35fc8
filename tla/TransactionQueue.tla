------------------------- MODULE TransactionQueue -------------------------
(***************************************************************************)
(* The transactions a node has heard of and not yet seen applied:               *)
(* src/herder/TransactionQueue.cpp, with what HerderImpl does to it when a       *)
(* transaction arrives, when it proposes a transaction set (triggerNextLedger)   *)
(* and when a ledger closes (updateTransactionQueue), and the trimming of        *)
(* transaction sets (TxSetFrame.cpp).                                           *)
(*                                                                            *)
(*   queue.accounts[a]   mAccountStates: mTransactions, mTotalFees,              *)
(*                       mQueueSizeOps, mAge.  An account without an entry has   *)
(*                       the empty state, which the code treats alike.           *)
(*   queue.ops           mQueueSizeOps                                          *)
(*   queue.banned        mBannedTransactions, newest first                       *)
(*   ledger              the sequence numbers and available balances in the      *)
(*                       last closed ledger, the transactions that are invalid   *)
(*                       for another reason (time bounds, signers), whether the   *)
(*                       queue was updated when it closed, and how often it was,  *)
(*                       modulo 2                                               *)
(*   threw               triggerNextLedger found its own proposal invalid        *)
(*                                                                            *)
(* A transaction or fee bump is a record: the source, whose sequence number it   *)
(* takes, the feeSource, which pays, seqNum, the fee bid fee, the number of       *)
(* operations ops, and inner, the set of the transaction it wraps, {} if it is    *)
(* not a fee bump.  Records stand for full hashes.                              *)
(***************************************************************************)
EXTENDS Integers, Sequences, FiniteSetsExt

CONSTANTS
    Account,
    Tx,             \* the transactions and fee bumps there are
    Filtered,       \* transactions with an operation that is filtered out
    FEE_MULTIPLIER,
    PendingDepth,   \* ledgers a transaction may wait
    BanDepth,       \* ledgers a ban lasts
    MaxQueueOps,    \* maxQueueSizeOps()
    MaxLedgerOps,   \* operations in a transaction set
    InitialSeq,     \* sequence numbers in the first ledger
    MaxSeq,         \* bounds how far operations bump sequence numbers
    MayBump,        \* accounts whose sequence number operations bump
    Balance,        \* available balances that occur: functions on Account
    MayExpire       \* transactions that may become invalid by themselves

ASSUME TxAssumption ==
    /\ Tx \subseteq [source : Account, feeSource : Account, seqNum : Nat \ {0},
                     fee : Nat, ops : Nat, inner : SUBSET Tx]
    /\ IsFiniteSet(Tx)

ASSUME DepthAssumption ==
    /\ PendingDepth \in Nat \ {0}
    /\ BanDepth \in Nat \ {0}
    /\ MaxQueueOps \in Nat
    /\ InitialSeq \in [Account -> Nat \ {0}]
    /\ MaxSeq \in Nat
    /\ Balance \subseteq [Account -> Int]

VARIABLES queue, ledger, threw

vars == <<queue, ledger, threw>>

AccountState == [txs |-> <<>>, fees |-> 0, ops |-> 0, age |-> 0]

totalFee(S) == SumFunctionOnSet([t \in Tx |-> t.fee], S)

totalOps(S) == SumFunctionOnSet([t \in Tx |-> t.ops], S)

feesFrom(a, S) == totalFee({t \in S : t.feeSource = a})

feeBump(t) == t.inner # {}

queued(q) == UNION {Range(q.accounts[a].txs) : a \in Account}

-----------------------------------------------------------------------------
(***************************************************************************)
(* Validity in a ledger lg.                                                    *)
(***************************************************************************)
\* Without the sequence number: time bounds, signatures, and the fee.
payable(lg, t) == t \notin lg.bad /\ lg.balance[t.feeSource] >= t.fee

\* current is the sequence number before the transaction; 0: the account's.
checkValid(lg, t, current) ==
    /\ (IF current = 0 THEN lg.seq[t.source] ELSE current) + 1 = t.seqNum
    /\ payable(lg, t)

\* The first pass of checkOrTrim: each account's transactions in the order of their
\* numbers, each valid after the one before that was.
validTxs(lg, S) ==
    {t \in S :
        /\ lg.seq[t.source] < t.seqNum
        /\ \A n \in lg.seq[t.source] + 1 .. t.seqNum :
              \E u \in S : u.source = t.source /\ u.seqNum = n /\ payable(lg, u)}

\* Both passes: the transactions that stay.  One whose fee source cannot pay for
\* everything it has to goes with all that follow it.
trimInvalid(lg, S) ==
    LET valid == validTxs(lg, S)
        unpaid == {t \in valid :
                      lg.balance[t.feeSource] < feesFrom(t.feeSource, valid)}
    IN  {t \in valid : \A u \in unpaid :
            u.source = t.source => t.seqNum < u.seqNum}

\* TxSetFrame::checkValid.  The second of two transactions with the same number has
\* a bad one.
validSet(lg, S) ==
    /\ totalOps(S) <= MaxLedgerOps
    /\ \A t, u \in S : t.source = u.source /\ t.seqNum = u.seqNum => t = u
    /\ validTxs(lg, S) = S
    /\ \A t \in S : lg.balance[t.feeSource] >= feesFrom(t.feeSource, S)

\* When there is too much, the first transactions of some accounts are left; which
\* ones depends on the fees and is left open.
surgePricingFilter(S) ==
    IF totalOps(S) <= MaxLedgerOps THEN {S}
    ELSE {P \in SUBSET S :
             /\ totalOps(P) <= MaxLedgerOps
             /\ \A t \in P, u \in S :
                    u.source = t.source /\ u.seqNum < t.seqNum => u \in P}

-----------------------------------------------------------------------------
(***************************************************************************)
(* TransactionQueue.                                                           *)
(***************************************************************************)
\* Mutant: only the newest bans count.
isBannedLately(q, t) == t \in q.banned[1]

isBanned(q, t) == \E i \in DOMAIN q.banned : t \in q.banned[i]

\* The position that has sequence number seq; Len(txs) + 1 for the next one to come,
\* 0 if it is none of them.
findBySeq(seq, txs) ==
    LET first == txs[1].seqNum
        last == txs[Len(txs)].seqNum
    IN  IF txs = <<>> \/ seq < first \/ seq > last + 1 THEN 0 ELSE seq - first + 1

isDuplicateTx(old, new) == old = new \/ (~feeBump(new) /\ new \in old.inner)

canReplaceByFee(new, old) ==
    LET count(t) == Max({1, t.ops})
    IN  new.fee * count(old) >= FEE_MULTIPLIER * old.fee * count(new)

\* The transaction that t would replace: a set, empty if there is none.
replaced(q, t) ==
    LET txs == q.accounts[t.source].txs
        at == findBySeq(t.seqNum, txs)
    IN  IF feeBump(t) /\ at \in DOMAIN txs THEN {txs[at]} ELSE {}

canAdd(q, t) ==
    LET txs == q.accounts[t.source].txs
        at == findBySeq(t.seqNum, txs)
        old == replaced(q, t)
        netOps == t.ops - totalOps(old)
        netFee == t.fee - feesFrom(t.feeSource, old)
        current == IF txs = <<>> THEN 0
                   ELSE IF feeBump(t) THEN t.seqNum - 1
                   ELSE txs[Len(txs)].seqNum
    IN  IF isBanned(q, t) THEN "TRY_AGAIN_LATER"
        ELSE IF t \in Filtered THEN "FILTERED"
        ELSE IF at \in DOMAIN txs /\ isDuplicateTx(txs[at], t) THEN "DUPLICATE"
        ELSE IF \/ feeBump(t) /\ txs # <<>> /\ at = 0
                \/ \E o \in old : ~canReplaceByFee(t, o)
        THEN "ERROR"
        ELSE IF netOps + q.ops > MaxQueueOps THEN "FULL"
        ELSE IF \/ ~checkValid(ledger, t, current)
                \/ ledger.balance[t.feeSource] - netFee < q.accounts[t.feeSource].fees
        THEN "ERROR"
        ELSE "PENDING"

\* A state that holds no transactions and pays for none is erased.
maybeErase(r) == IF r.txs = <<>> /\ r.fees = 0 THEN AccountState ELSE r

\* Mutant: the fees are released from the account that the transactions belong to.
dropTransactionsOfSource(q, left, age) ==
    LET gone(a) == Range(q.accounts[a].txs) \ Range(left[a])
        allGone == UNION {gone(a) : a \in Account}
        after(a) == LET r == q.accounts[a]
                        txs == left[a]
                        dropped == Range(r.txs) \ Range(txs)
                    IN  [txs |-> txs, fees |-> r.fees - totalFee(dropped),
                         ops |-> r.ops - totalOps(dropped),
                         age |-> IF txs = <<>> THEN 0 ELSE age[a]]
    IN  [q EXCEPT !.accounts = [a \in Account |-> maybeErase(after(a))],
                  !.ops = @ - totalOps(allGone)]

\* releaseFeeMaybeEraseAccountState and the end of dropTransactions, for all the
\* transactions of the queue that are not in left.
dropTransactions(q, left, age) ==
    LET gone(a) == Range(q.accounts[a].txs) \ Range(left[a])
        allGone == UNION {gone(a) : a \in Account}
        after(a) == LET r == q.accounts[a]
                        txs == left[a]
                        dropped == Range(r.txs) \ Range(txs)
                    IN  [txs |-> txs, fees |-> r.fees - feesFrom(a, allGone),
                         ops |-> r.ops - totalOps(dropped),
                         age |-> IF txs = <<>> THEN 0 ELSE age[a]]
    IN  [q EXCEPT !.accounts = [a \in Account |-> maybeErase(after(a))],
                  !.ops = @ - totalOps(allGone)]

ages(q) == [a \in Account |-> q.accounts[a].age]

\* Mutant: every account is young again.
removeAppliedYoung(q, applied) ==
    LET highest(a) == Max({0} \cup {t.seqNum : t \in {u \in applied : u.source = a}})
        touched(a) == LET txs == q.accounts[a].txs
                      IN  txs # <<>> /\ txs[1].seqNum <= highest(a)
        left == [a \in Account |->
                    LET txs == q.accounts[a].txs
                        at == findBySeq(highest(a), txs)
                    IN  IF ~touched(a) THEN txs
                        ELSE IF at = 0 THEN <<>>
                        ELSE SubSeq(txs, at + 1, Len(txs))]
    IN  dropTransactions(q, left, [a \in Account |-> 0])

removeApplied(q, applied) ==
    LET highest(a) == Max({0} \cup {t.seqNum : t \in {u \in applied : u.source = a}})
        touched(a) == LET txs == q.accounts[a].txs
                      IN  txs # <<>> /\ txs[1].seqNum <= highest(a)
        left == [a \in Account |->
                    LET txs == q.accounts[a].txs
                        at == findBySeq(highest(a), txs)
                    IN  IF ~touched(a) THEN txs
                        ELSE IF at = 0 THEN <<>>
                        ELSE SubSeq(txs, at + 1, Len(txs))]
    IN  dropTransactions(q, left,
            [a \in Account |-> IF touched(a) THEN 0 ELSE q.accounts[a].age])

\* Every transaction after the first one that is banned goes with it.
ban(q, B) ==
    LET left == [a \in Account |->
                    LET txs == q.accounts[a].txs
                        hit == {i \in DOMAIN txs : txs[i] \in B}
                    IN  IF hit = {} THEN txs ELSE SubSeq(txs, 1, Min(hit) - 1)]
        gone == UNION {Range(q.accounts[a].txs) \ Range(left[a]) : a \in Account}
    IN  [dropTransactions(q, left, ages(q)) EXCEPT
            !.banned[1] = @ \cup B \cup gone]

shift(q) ==
    LET older(a) == LET r == q.accounts[a]
                    IN  IF r.txs = <<>> THEN r.age ELSE r.age + 1
        left == [a \in Account |-> IF older(a) = PendingDepth THEN <<>>
                                   ELSE q.accounts[a].txs]
        gone == UNION {Range(q.accounts[a].txs) \ Range(left[a]) : a \in Account}
    IN  [dropTransactions(q, left, [a \in Account |-> older(a)]) EXCEPT
            !.banned = <<gone>> \o SubSeq(@, 1, BanDepth - 1)]

toTxSet(q) == queued(q)

\* What tryAdd does once canAdd has let the transaction in.
addTx(q, t) ==
    LET at == findBySeq(t.seqNum, q.accounts[t.source].txs)
        old == replaced(q, t)
        released(b) == maybeErase([q.accounts[b] EXCEPT !.fees = @ - feesFrom(b, old)])
        after(b) == [released(b) EXCEPT
            !.txs = IF b # t.source THEN @
                    ELSE IF old = {} THEN Append(@, t) ELSE [@ EXCEPT ![at] = t],
            !.ops = IF b # t.source THEN @ ELSE @ - totalOps(old) + t.ops,
            !.fees = IF b # t.feeSource THEN @ ELSE @ + t.fee]
    IN  [q EXCEPT !.accounts = [b \in Account |-> after(b)],
                  !.ops = @ - totalOps(old) + t.ops]

-----------------------------------------------------------------------------
(***************************************************************************)
(* What the herder does with the queue.                                        *)
(***************************************************************************)
Init ==
    /\ queue = [accounts |-> [a \in Account |-> AccountState], ops |-> 0,
                banned |-> [i \in 1 .. BanDepth |-> {}]]
    /\ ledger \in [seq : {InitialSeq}, balance : Balance, bad : {{}},
                   updated : {TRUE}, round : {0}]
    /\ threw = FALSE

\* HerderImpl::recvTransaction, TransactionQueue::tryAdd.
RecvTransaction(t) ==
    /\ queue' = IF canAdd(queue, t) = "PENDING" THEN addTx(queue, t)
                ELSE IF canAdd(queue, t) = "FULL" THEN ban(queue, {t})
                ELSE queue
    /\ UNCHANGED <<ledger, threw>>

\* triggerNextLedger proposes what is in the queue, without the transactions late
\* that will not be valid at the next close time.
TriggerNextLedger(late) ==
    LET next == [ledger EXCEPT !.bad = @ \cup late]
        all == toTxSet(queue)
        kept == trimInvalid(next, all)
    IN  /\ queue' = ban(queue, all \ kept)
        /\ \E proposed \in surgePricingFilter(kept) :
               threw' = (threw \/ ~validSet(next, proposed))
        /\ ledger' = [ledger EXCEPT !.updated = TRUE]

\* The ledgers that can follow a transaction set: fees, payments and whatever else
\* its operations do to balances, sequence numbers and signers.
ledgersAfter(S) ==
    {[seq |-> [a \in Account |->
                  LET s == Max({ledger.seq[a]}
                                 \cup {t.seqNum : t \in {u \in S : u.source = a}})
                  IN  IF a \in bumped /\ s < MaxSeq THEN s + 1 ELSE s],
      balance |-> balance, bad |-> ledger.bad \cup late, updated |-> TRUE,
      round |-> 1 - ledger.round] :
        bumped \in SUBSET MayBump, balance \in Balance,
        late \in SUBSET MayExpire}

\* Mutant: what is left in the queue is not checked against the new ledger.
CloseLedgerUntrimmed(S) ==
    /\ validSet(ledger, S)
    /\ queue' = shift(removeApplied(queue, S))
    /\ ledger' \in ledgersAfter(S)
    /\ UNCHANGED threw

\* The latest slot is externalized and its ledger closes: updateTransactionQueue.
CloseLedger(S) ==
    LET aged == shift(removeApplied(queue, S))
        all == toTxSet(aged)
    IN  /\ validSet(ledger, S)
        /\ \E lg \in ledgersAfter(S) :
              /\ queue' = ban(aged, all \ trimInvalid(lg, all))
              /\ ledger' = lg
        /\ UNCHANGED threw

\* A ledger closes in another way: an older slot is externalized and buffered ledgers
\* are applied.  Nobody tells the queue.
CloseUnnoticed(S) ==
    /\ validSet(ledger, S)
    /\ \E lg \in ledgersAfter(S) : ledger' = [lg EXCEPT !.updated = FALSE, !.round = ledger.round]
    /\ UNCHANGED <<queue, threw>>

Next ==
    \/ \E t \in Tx : RecvTransaction(t)
    \/ \E late \in SUBSET MayExpire : TriggerNextLedger(late)
    \/ \E S \in SUBSET Tx : CloseLedger(S) \/ CloseUnnoticed(S)

Spec == Init /\ [][Next]_vars

\* The network keeps closing ledgers, and the node follows it: a ledger can always
\* close, so this is weak fairness of CloseLedger.
Fairness == []<><<ledger'.round # ledger.round>>_vars

FairSpec == Spec /\ Fairness

-----------------------------------------------------------------------------
(***************************************************************************)
(* Properties.                                                                *)
(***************************************************************************)
\* The transactions of an account are its own and have consecutive sequence numbers,
\* also after replacements, removals and bans in the middle (what findBySeq asserts,
\* TransactionQueue.cpp:96).
Consecutive ==
    \A a \in Account :
        LET txs == queue.accounts[a].txs
        IN  /\ \A i \in DOMAIN txs : txs[i].source = a
            /\ \A i \in 1 .. Len(txs) - 1 : txs[i + 1].seqNum = txs[i].seqNum + 1

\* The books are right: what an account is to pay is the sum of the fee bids of the
\* queued transactions it is the fee source of, however they came and went, and the
\* numbers of operations are those of the queued transactions; a state that nothing
\* needs is erased, and one without transactions has age 0.
Accounting ==
    /\ Consecutive
    /\ queue.ops = totalOps(queued(queue))
    /\ queue.ops <= MaxQueueOps
    /\ \A a \in Account :
          LET r == queue.accounts[a]
          IN  /\ r.fees = feesFrom(a, queued(queue))
              /\ r.ops = totalOps(Range(r.txs))
              /\ r.age < PendingDepth
              /\ r.txs = <<>> => r.age = 0

\* No transaction that is banned is in the queue: not one that was banned because
\* the queue was full, because another one before it was, or because it waited too
\* long.
NoneBanned == \A i \in DOMAIN queue.banned : queue.banned[i] \cap queued(queue) = {}

\* Once the queue has been updated for the last closed ledger it can be proposed as
\* it is: every transaction is valid in its turn and every fee source can pay for all
\* of its transactions together.  A proposal that was trimmed is never found invalid
\* (HerderImpl.cpp:1056).
Proposable ==
    /\ ledger.updated => trimInvalid(ledger, queued(queue)) = queued(queue)
    /\ ~threw

\* No transaction stays in the queue for good.
NoneStays == \A t \in Tx : t \in queued(queue) ~> t \notin queued(queue)
=============================================================================
