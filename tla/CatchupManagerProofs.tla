----------------------- MODULE CatchupManagerProofs -----------------------
(***************************************************************************)
(* ThrowsOnlyIfCaughtUp, SyncStateRight and InOrder of CatchupManager, proved  *)
(* for every checkpoint frequency, configuration and number of ledgers, faults *)
(* and restarts.                                                               *)
(*                                                                            *)
(* The inductive invariant has four parts.  Heard: what the node has heard of   *)
(* and not closed is in the buffer or in flight, ahead of the LCL, and is not   *)
(* to be heard of again.  WorkRight: in each phase of a catchup, where the LCL  *)
(* is in the range and that the buffer is ahead of the target.  StateRight:     *)
(* a node that says it is in sync has buffered nothing, or only the next        *)
(* ledger at the end of a catchup.  ThrowsRight: the one exception.             *)
(***************************************************************************)
EXTENDS CatchupManager, FiniteSetTheorems, WellFoundedInduction, TLAPS

Phases == {"none", "getState", "getBucketState", "getLedgers", "applyBuckets",
           "applied", "replay", "sequenceDone", "applyBuffered", "gap", "SUCCESS",
           "FAILURE"}

\* The phases before the ledgers of the range are closed, and before any is.
Early == {"getState", "getBucketState", "getLedgers", "applyBuckets", "applied"}

Thrown == {"txset mismatch", "target is not newer than LCL", "assert", "range",
           "buckets"}

Work == [phase : Phases, from : Nat, to : Nat, flight : Nat]

Node == [lcl : Nat, count : Nat, state : {"BOOTING", "CATCHING_UP", "SYNCED"},
         buffered : SUBSET Nat, work : Work, tracking : Nat,
         throws : SUBSET Thrown]

\* The buffer and the ledger in flight: heard of, ahead of the LCL, not to come again,
\* and with the latest slot the Herder heard of among them unless that is closed.
Heard(nd, coming, closed) ==
    /\ 2 <= nd.lcl
    /\ nd.lcl <= nd.tracking
    /\ nd.tracking <= closed
    /\ \A n \in nd.buffered : nd.lcl < n /\ n <= nd.tracking /\ n \notin coming
    /\ nd.work.flight # 0 =>
          /\ nd.work.flight = nd.lcl + 1
          /\ nd.work.flight <= nd.tracking
          /\ nd.work.flight \notin coming
          /\ nd.work.flight \notin nd.buffered
          /\ nd.work.phase = "applyBuffered"
    /\ nd.tracking \in {nd.lcl, nd.work.flight} \cup nd.buffered

\* Where a catchup is.
WorkRight(nd) ==
    LET range == CatchupRange(nd.work.from, nd.work.to, nd.count)
    IN  /\ nd.work.phase = "none" => nd.work = NoWork
        /\ nd.work.phase = "SUCCESS" => nd.buffered = {}
        /\ nd.work.phase \in Early \cup {"replay"} =>
              nd.buffered # {} /\ \A n \in nd.buffered : nd.work.to < n
        /\ nd.work.phase \in Early =>
              /\ nd.work.from = nd.lcl
              /\ nd.throws = {} => nd.lcl < nd.work.to
        /\ nd.work.phase \in {"applyBuckets", "applied"} => range.buckets # 0
        /\ nd.work.phase = "replay" =>
              nd.lcl < nd.work.to /\ range.first \in 0 .. nd.lcl + 1
        /\ nd.work.phase \in {"sequenceDone", "applyBuffered", "gap"} =>
              nd.work.to <= nd.lcl
        /\ nd.work.phase = "gap" => nd.buffered # {}

\* When the node says it is in sync.
StateRight(nd) ==
    nd.state = "SYNCED" =>
        \/ nd.buffered = {}
        \/ /\ nd.work.phase \in {"sequenceDone", "applyBuffered"}
           /\ nd.work.flight = 0
           /\ nd.buffered = {nd.lcl + 1}

\* When the process has stopped.
ThrowsRight(nd) ==
    nd.throws # {} =>
        /\ nd.throws = {"target is not newer than LCL"}
        /\ nd.lcl + 1 \in nd.buffered
        /\ isFirstLedgerInCheckpoint(nd.lcl + 1)
        /\ nd.work.phase = "getState"

NodeInv(nd, coming, closed) ==
    /\ nd \in Node
    /\ Heard(nd, coming, closed)
    /\ WorkRight(nd)
    /\ StateRight(nd)
    /\ ThrowsRight(nd)

CatchupInv ==
    /\ network.closed \in Nat
    /\ network.coming \subseteq Int
    /\ network = [closed |-> network.closed, coming |-> network.coming]
    /\ \A n \in network.coming : n <= network.closed
    /\ NodeInv(node, network.coming, network.closed)

-----------------------------------------------------------------------------
(* Arithmetic: least and greatest elements, and checkpoints.                   *)

\* A set of ledgers has a first one.
LEMMA MinRight ==
    ASSUME NEW S \in SUBSET Nat, S # {}
    PROVE  Min(S) \in S /\ \A n \in S : Min(S) <= n
<1>1. PICK d \in S : \A e \in S : ~ (<<e, d>> \in OpToRel(<, Nat))
  BY NatLessThanWellFounded, WFMin, Zenon
<1>2. \A e \in S : ~ (e < d)
  BY <1>1, Zenon DEF OpToRel
<1>3. \E m \in S : \A n \in S : m <= n
  BY <1>2
<1>4. QED
  BY <1>3, Zenon DEF Min

\* A set of ledgers that has a last one.
LEMMA MaxRight ==
    ASSUME NEW S, NEW m \in S, \A n \in S : n <= m, S \subseteq Nat
    PROVE  Max(S) = m
<1>1. \E x \in S : \A y \in S : x >= y
  BY Zenon
<1>2. Max(S) \in S /\ \A y \in S : Max(S) >= y
  BY <1>1, Zenon DEF Max
<1>3. \A x \in S : (\A y \in S : x >= y) => x = m
  OBVIOUS
<1>4. QED
  BY <1>2, <1>3, Zenon

\* A set of ledgers up to some ledger has a last one.
LEMMA HasLast ==
    ASSUME NEW S \in SUBSET Nat, S # {}, NEW b \in Nat, \A n \in S : n <= b
    PROVE  Max(S) \in S /\ \A n \in S : n <= Max(S)
<1> DEFINE D == {x \in Nat : b - x \in S}
<1>1. D \in SUBSET Nat
  BY Zenon
<1>2. D # {}
  <2>1. PICK n \in S : TRUE
    BY Zenon
  <2>2. b - n \in Nat /\ b - (b - n) = n
    BY <2>1
  <2>3. QED
    BY <2>1, <2>2, Zenon
<1>3. Min(D) \in D /\ \A n \in D : Min(D) <= n
  BY <1>1, <1>2, MinRight, Zenon
<1> DEFINE m == b - Min(D)
<1>4. m \in S
  BY <1>3, Zenon
<1>5. \A n \in S : n <= m
  <2>1. TAKE n \in S
  <2>2. b - n \in Nat /\ b - (b - n) = n
    OBVIOUS
  <2>3. b - n \in D
    BY <2>2, Zenon
  <2>4. QED
    BY <2>3, <1>3
<1>6. Max(S) = m
  <2> HIDE DEF m
  <2>1. QED
    BY <1>4, <1>5, MaxRight, Zenon
<1>7. QED
  BY <1>4, <1>5, <1>6, Zenon

LEMMA MaxTwo ==
    ASSUME NEW a \in Nat, NEW n \in Int
    PROVE  Max({a, n}) = IF a < n THEN n ELSE a
<1>1. \E x \in {a, n} : \A y \in {a, n} : x >= y
  OBVIOUS
<1>2. Max({a, n}) \in {a, n} /\ \A y \in {a, n} : Max({a, n}) >= y
  BY <1>1, Zenon DEF Max
<1>3. QED
  BY <1>2

LEMMA Division ==
    ASSUME NEW n \in Nat
    PROVE  /\ n \div Freq \in Nat
           /\ (n \div Freq) * Freq <= n
           /\ n < (n \div Freq) * Freq + Freq
BY CatchupAssumption

LEMMA Multiples ==
    ASSUME NEW q \in Nat \ {0}
    PROVE  /\ q * Freq \in Nat
           /\ Freq <= q * Freq
           /\ (q * Freq - 1) \div Freq = q - 1
BY CatchupAssumption

\* What a range r is: it ends at the target, and if it starts with buckets then these
\* are the state at the end of a checkpoint that is not before the LCL, which is the
\* first ledger after genesis.
RangeRight(r, lcl, to) ==
    /\ r.buckets \in Nat
    /\ r.first \in Nat
    /\ r.count \in Nat
    /\ r.buckets = 0 => r.count # 0 /\ r.first = lcl + 1
    /\ r.buckets # 0 =>
          /\ isLastLedgerInCheckpoint(r.buckets)
          /\ lcl = 2
          /\ lcl <= r.buckets
          /\ r.buckets + r.count = to
          /\ r.count # 0 => r.first = r.buckets + 1

\* A checkpoint that does not start at genesis follows a whole number of checkpoints.
LEMMA LastBefore ==
    ASSUME NEW n \in Nat, 4 <= n,
           firstLedgerInCheckpointContaining(n) # GENESIS_LEDGER_SEQ
    PROVE  LET b == lastLedgerBeforeCheckpointContaining(n)
           IN  /\ b \in Nat
               /\ 2 <= b
               /\ b < n
               /\ isLastLedgerInCheckpoint(b)
               /\ firstLedgerInCheckpointContaining(n) = b + 1
<1> DEFINE q == n \div Freq
           qF == q * Freq
<1>1. /\ q \in Nat
      /\ qF <= n
      /\ n < qF + Freq
  BY Division, Zenon
<1>2. Freq \in Nat /\ 2 <= Freq
  BY CatchupAssumption
<1>3. (q + 1) * Freq = qF + Freq /\ qF \in Nat
  BY <1>1, <1>2
<1>4. checkpointContainingLedger(n) = qF + Freq - 1
  BY <1>1, <1>2, <1>3 DEF checkpointContainingLedger
<1>5. ~(n < Freq)
  <2>1. SUFFICES ASSUME n < Freq PROVE FALSE
    BY Zenon
  <2>2. q = 0
    BY <1>1, <1>2, <2>1
  <2>3. firstLedgerInCheckpointContaining(n) = 1
    BY <1>4, <1>2, <2>1, <2>2
    DEF firstLedgerInCheckpointContaining, sizeOfCheckpointContaining
  <2>4. QED
    BY <2>3, Zenon DEF GENESIS_LEDGER_SEQ
<1>6. q # 0
  BY <1>1, <1>2, <1>5
<1>7. Freq <= qF /\ (qF - 1) \div Freq = q - 1
  BY <1>1, <1>6, Multiples, Zenon
<1>8. lastLedgerBeforeCheckpointContaining(n) = qF - 1
  BY <1>2, <1>3, <1>4, <1>5
  DEF lastLedgerBeforeCheckpointContaining, sizeOfCheckpointContaining
<1>9. firstLedgerInCheckpointContaining(n) = qF
  BY <1>2, <1>3, <1>4, <1>5
  DEF firstLedgerInCheckpointContaining, sizeOfCheckpointContaining
<1>10. checkpointContainingLedger(qF - 1) = qF - 1
  BY <1>1, <1>3, <1>7 DEF checkpointContainingLedger
<1>11. 3 <= qF
  BY <1>1, <1>2, <1>3, <1>7
<1>12. QED
  <2> HIDE DEF qF, q
  <2>1. QED
    BY <1>1, <1>3, <1>8, <1>9, <1>10, <1>11 DEF isLastLedgerInCheckpoint

LEMMA Ranges ==
    ASSUME NEW lcl \in Nat, NEW to \in Nat, NEW config \in Nat, 2 <= lcl, lcl < to
    PROVE  RangeRight(CatchupRange(lcl, to, config), lcl, to)
<1> DEFINE r == CatchupRange(lcl, to, config)
           replay == [buckets |-> 0, first |-> lcl + 1, count |-> to - lcl]
           start == to - config + 1
           b == lastLedgerBeforeCheckpointContaining(start)
<1>1. RangeRight(replay, lcl, to)
  BY DEF RangeRight
<1>2. CASE lcl > GENESIS_LEDGER_SEQ + 1 \/ config >= to - lcl
  BY <1>1, <1>2, Zenon DEF CatchupRange
<1>3. CASE /\ ~(lcl > GENESIS_LEDGER_SEQ + 1 \/ config >= to - lcl)
           /\ config = 0 /\ isLastLedgerInCheckpoint(to)
  <2>1. r = [buckets |-> to, first |-> 0, count |-> 0]
    BY <1>3, Zenon DEF CatchupRange
  <2>2. lcl = 2
    BY <1>3 DEF GENESIS_LEDGER_SEQ
  <2>3. QED
    BY <1>3, <2>1, <2>2 DEF RangeRight
<1>4. CASE /\ ~(lcl > GENESIS_LEDGER_SEQ + 1 \/ config >= to - lcl)
           /\ ~(config = 0 /\ isLastLedgerInCheckpoint(to))
           /\ firstLedgerInCheckpointContaining(start) = GENESIS_LEDGER_SEQ
  <2>1. r = replay
    BY <1>4, Zenon DEF CatchupRange
  <2>2. QED
    BY <1>1, <2>1, Zenon
<1>5. CASE /\ ~(lcl > GENESIS_LEDGER_SEQ + 1 \/ config >= to - lcl)
           /\ ~(config = 0 /\ isLastLedgerInCheckpoint(to))
           /\ firstLedgerInCheckpointContaining(start) # GENESIS_LEDGER_SEQ
  <2>1. r = [buckets |-> b, first |-> firstLedgerInCheckpointContaining(start),
             count |-> to - b]
    BY <1>5, Zenon DEF CatchupRange
  <2>2. lcl = 2 /\ start \in Nat /\ 4 <= start /\ start <= to + 1
    BY <1>5 DEF GENESIS_LEDGER_SEQ
  <2>3. /\ b \in Nat
        /\ 2 <= b
        /\ b < start
        /\ isLastLedgerInCheckpoint(b)
        /\ firstLedgerInCheckpointContaining(start) = b + 1
    BY <1>5, <2>2, LastBefore, Zenon
  <2> HIDE DEF b, start, r
  <2>4. RangeRight(r, lcl, to)
    BY <2>1, <2>2, <2>3 DEF RangeRight
  <2>5. QED
    BY <2>4, Zenon DEF r
<1>6. QED
  BY <1>2, <1>3, <1>4, <1>5, Zenon

\* So no range is refused.
LEMMA RangeAccepted ==
    ASSUME NEW lcl \in Nat, NEW to \in Nat, NEW config \in Nat, 2 <= lcl, lcl < to
    PROVE  ~rangeThrows(lcl, to, config)
BY Ranges DEF RangeRight, rangeThrows, GENESIS_LEDGER_SEQ

-----------------------------------------------------------------------------
(* The buffer.                                                                 *)

\* Trimming keeps a suffix of the buffer that is not empty.
LEMMA TrimRight ==
    ASSUME NEW S \in SUBSET Nat, NEW b \in Nat, \A n \in S : n <= b
    PROVE  /\ trimSyncingLedgers(S) \subseteq S
           /\ \A m \in S : (\A n \in S : n <= m) => m \in trimSyncingLedgers(S)
<1> DEFINE starts == {n \in S : isFirstLedgerInCheckpoint(n)}
           kept == {n \in S : n >= Max(starts)}
<1>1. CASE starts = {}
  <2>1. trimSyncingLedgers(S) = S
    BY <1>1, Zenon DEF trimSyncingLedgers
  <2>2. QED
    BY <2>1, Zenon
<1>2. CASE starts # {}
  <2>1. trimSyncingLedgers(S) = kept
    BY <1>2, Zenon DEF trimSyncingLedgers
  <2>2. Max(starts) \in starts
    BY <1>2, HasLast, Zenon
  <2>3. QED
    BY <2>1, <2>2, Zenon
<1>3. QED
  BY <1>1, <1>2, Zenon

\* The ledgers in a row that follow the LCL are applied, up to last.
LEMMA TryApplyRight ==
    ASSUME NEW nd \in Node, NEW b \in Nat,
           \A n \in nd.buffered : nd.lcl < n /\ n <= b
    PROVE  LET r == tryApplySyncingLedgers(nd)
           IN  /\ r = [nd EXCEPT !.lcl = r.lcl, !.buffered = r.buffered]
               /\ r.lcl \in Nat
               /\ r.lcl = nd.lcl \/ r.lcl \in nd.buffered
               /\ nd.lcl <= r.lcl
               /\ nd.lcl + 1 .. r.lcl \subseteq nd.buffered
               /\ r.buffered = {n \in nd.buffered : r.lcl < n}
<1> DEFINE run == sequential(nd)
           S == {nd.lcl} \cup run
           m == Max(S)
<1>1. /\ nd.lcl \in Nat
      /\ nd.buffered \in SUBSET Nat
  BY Zenon DEF Node
<1>2. run \subseteq nd.buffered /\ \A n \in run : nd.lcl + 1 .. n \subseteq nd.buffered
  BY Zenon DEF sequential
<1>3. S \in SUBSET Nat /\ S # {} /\ \A n \in S : n <= b \/ n = nd.lcl
  BY <1>1, <1>2, Zenon
<1>4. m \in S /\ \A n \in S : n <= m
  <2>1. CASE nd.lcl <= b
    BY <1>1, <1>3, <2>1, HasLast, Zenon
  <2>2. CASE ~(nd.lcl <= b)
    <3>1. \A n \in S : n <= nd.lcl
      BY <1>1, <1>3, <2>2
    <3>2. QED
      BY <1>1, <1>3, <3>1, HasLast, Zenon
  <2>3. QED
    BY <2>1, <2>2, Zenon
<1> HIDE DEF m
<1>5. m \in Nat /\ nd.lcl <= m /\ (m = nd.lcl \/ m \in nd.buffered)
  BY <1>1, <1>2, <1>4, Zenon
<1>6. nd.lcl + 1 .. m \subseteq nd.buffered
  <2>1. CASE m = nd.lcl
    BY <1>1, <2>1
  <2>2. CASE m \in run
    BY <1>2, <2>2, Zenon
  <2>3. QED
    BY <1>4, <2>1, <2>2, Zenon
<1>7. nd.buffered \ run = {n \in nd.buffered : m < n}
  <2>1. ASSUME NEW n \in nd.buffered, m < n
        PROVE  n \notin run
    BY <1>1, <1>3, <1>4, <1>5, <2>1
  <2>2. ASSUME NEW n \in nd.buffered, ~(m < n)
        PROVE  n \in run
    <3>1. nd.lcl < n /\ n <= m /\ n \in Nat
      BY <1>1, <1>5, <2>2
    <3>2. m \in run
      BY <1>1, <1>4, <3>1
    <3>3. nd.lcl + 1 .. n \subseteq nd.buffered
      BY <1>1, <1>5, <1>6, <3>1
    <3>4. Min(nd.buffered) = nd.lcl + 1
      BY <3>2, Zenon DEF sequential
    <3>5. QED
      BY <3>3, <3>4, <2>2, Zenon DEF sequential
  <2>3. QED
    BY <2>1, <2>2, Zenon
<1>8. tryApplySyncingLedgers(nd) = [nd EXCEPT !.lcl = m, !.buffered = nd.buffered \ run]
  BY Zenon DEF tryApplySyncingLedgers, m
<1> HIDE DEF run, S
<1>9. QED
  BY <1>5, <1>6, <1>7, <1>8, Zenon DEF Node

LEMMA Pair ==
    ASSUME NEW x, NEW y, x # y
    PROVE  Cardinality({x, y}) = 2
<1>1. IsFiniteSet({x}) /\ Cardinality({x}) = 1
  BY FS_Singleton, Zenon
<1>2. Cardinality({x} \cup {y}) = Cardinality({x}) + 1
  BY <1>1, FS_AddElement, Zenon
<1>3. {x, y} = {x} \cup {y}
  BY Zenon
<1>4. QED
  BY <1>1, <1>2, <1>3

\* Node r is node nd with the ledgers of S from f on in the buffer, and with a catchup
\* to f, which is refused if f is the next ledger.
StartsFrom(r, nd, S, f) ==
    /\ isFirstLedgerInCheckpoint(f)
    /\ \E i \in S : f < i
    /\ r = [nd EXCEPT
               !.buffered = {i \in S : f <= i},
               !.work = [phase |-> "getState", from |-> nd.lcl, to |-> f - 1,
                         flight |-> 0],
               !.throws = IF f = nd.lcl + 1
                            THEN {"target is not newer than LCL"} ELSE {}]

\* A ledger that is buffered while no catchup runs starts one, from the buffer's
\* first ledger of a checkpoint, if a later ledger is buffered too.
LEMMA BufferLedgerRight ==
    ASSUME NEW nd \in Node, NEW n \in Nat, NEW b \in Nat, n <= b, nd.lcl < n,
           \A i \in nd.buffered : nd.lcl < i /\ i <= b,
           nd.work = NoWork, nd.throws = {}
    PROVE  \/ bufferLedger(nd, n) = [nd EXCEPT !.buffered = @ \cup {n}]
           \/ \E f \in nd.buffered \cup {n} :
                 StartsFrom(bufferLedger(nd, n), nd, nd.buffered \cup {n}, f)
<1> DEFINE S == nd.buffered \cup {n}
           starts == {i \in S : isFirstLedgerInCheckpoint(i)}
           f == Min(starts)
           B == {i \in S : i >= f}
           m == [nd EXCEPT !.buffered = B]
<1>1. /\ nd.lcl \in Nat
      /\ S \in SUBSET Nat
      /\ n \in S
      /\ \A i \in S : nd.lcl < i /\ i <= b
  BY Zenon DEF Node
<1>2. CASE ~(starts # {} /\ f < Max(S))
  BY <1>2, Zenon DEF bufferLedger
<1>3. CASE starts # {} /\ f < Max(S)
  <2>1. bufferLedger(nd, n) = startOnlineCatchup(m)
    BY <1>3, Zenon DEF bufferLedger
  <2>2. f \in starts /\ \A i \in starts : f <= i
    BY <1>1, <1>3, MinRight, Zenon
  <2>3. Max(S) \in S
    BY <1>1, HasLast, Zenon
  <2>4. f \in S /\ f \in B /\ Max(S) \in B /\ f # Max(S) /\ B \in SUBSET Nat
    <3> HIDE DEF f
    <3>1. QED
      BY <1>1, <1>3, <2>2, <2>3
  <2>5. /\ m.buffered = B
        /\ m.lcl = nd.lcl
        /\ m.work = NoWork
        /\ m.throws = {}
    BY Zenon DEF Node
  <2>6. Min(B) = f
    <3>1. Min(B) \in B /\ \A i \in B : Min(B) <= i
      BY <2>4, MinRight, Zenon
    <3>2. \A x \in B : (\A i \in B : x <= i) => x = f
      <4> HIDE DEF f
      <4>1. QED
        BY <1>1, <2>4
    <3>3. QED
      BY <3>1, <3>2, Zenon
  <2>7. ~(Cardinality(m.buffered) <= 1)
    <3>1. IsFiniteSet(B)
      <4>1. B \subseteq 0 .. b
        BY <1>1
      <4>2. IsFiniteSet(0 .. b)
        BY FS_Interval
      <4>3. QED
        BY <4>1, <4>2, FS_Subset, Zenon
    <3>2. {f, Max(S)} \subseteq B
      BY <2>4, Zenon
    <3>3. Cardinality({f, Max(S)}) = 2
      BY <2>4, Pair, Zenon
    <3>4. Cardinality(B) \in Nat /\ Cardinality({f, Max(S)}) <= Cardinality(B)
      BY <3>1, <3>2, FS_Subset, FS_CardinalityType, Zenon
    <3>5. QED
      BY <2>5, <3>3, <3>4
  <2>8. ~isCatchupInitialized(m)
    BY <2>5 DEF isCatchupInitialized, NoWork
  <2>9. Throw("assert", \/ Cardinality(m.buffered) <= 1
                        \/ isCatchupInitialized(m)) = {}
    BY <2>7, <2>8, Zenon DEF Throw
  <2> DEFINE th == Throw("target is not newer than LCL", f - 1 <= nd.lcl)
  <2>10. th = IF f = nd.lcl + 1 THEN {"target is not newer than LCL"} ELSE {}
    <3> HIDE DEF f
    <3>1. (f - 1 <= nd.lcl) <=> f = nd.lcl + 1
      BY <1>1, <2>4
    <3>2. QED
      BY <3>1, Zenon DEF Throw
  <2>11. startOnlineCatchup(m) =
            [m EXCEPT !.work = [phase |-> "getState", from |-> nd.lcl,
                                to |-> f - 1, flight |-> 0],
                      !.throws = {} \cup th \cup {}]
    BY <2>5, <2>6, <2>9, Zenon DEF startOnlineCatchup
  <2>12. {} \cup th \cup {} = th
    BY Zenon
  <2>13. B = {i \in S : f <= i}
    <3> HIDE DEF f
    <3>1. QED
      BY <1>1, <2>4, Zenon
  <2> HIDE DEF f, th, B
  <2>14. startOnlineCatchup(m) =
            [nd EXCEPT !.buffered = B,
                       !.work = [phase |-> "getState", from |-> nd.lcl,
                                 to |-> f - 1, flight |-> 0],
                       !.throws = th]
    BY <2>11, <2>12, Zenon DEF Node
  <2> HIDE DEF S, m
  <2>15. \E i \in S : f < i
    BY <2>3, <1>3, Zenon
  <2>16. isFirstLedgerInCheckpoint(f)
    BY <2>2, Zenon
  <2>17. StartsFrom(bufferLedger(nd, n), nd, S, f)
    BY <2>1, <2>10, <2>13, <2>14, <2>15, <2>16, Zenon DEF StartsFrom
  <2>18. QED
    BY <2>4, <2>17, Zenon DEF S
<1>4. QED
  BY <1>2, <1>3, Zenon

-----------------------------------------------------------------------------
(* A slot externalizes.                                                        *)

\* The node after slot n.
externalized(nd, n) == [valueExternalized(nd, n) EXCEPT !.tracking = Max({@, n})]

\* What closeLedgerIf and processLedger leave of a node is written back with the state
\* and the latest slot.
written(now, n) ==
    [now EXCEPT !.state = IF now.buffered # {} THEN @ ELSE "SYNCED",
                !.tracking = IF now.tracking < n THEN n ELSE now.tracking]

LEMMA ExternalizedState ==
    ASSUME NEW nd, NEW n \in Int, NEW now \in Node,
           now = processLedger(closeLedgerIf(nd, n), n)
    PROVE  externalized(nd, n) = written(now, n)
<1>1. now.tracking \in Nat
  BY Zenon DEF Node
<1> DEFINE v == IF now.buffered # {} THEN now ELSE [now EXCEPT !.state = "SYNCED"]
           t == IF now.tracking < n THEN n ELSE now.tracking
<1>2. valueExternalized(nd, n) = v
  BY Zenon DEF valueExternalized, hasBufferedLedger
<1>3. v.tracking = now.tracking
  BY Zenon DEF Node
<1>4. Max({v.tracking, n}) = t
  BY <1>1, <1>3, MaxTwo, Zenon
<1>5. externalized(nd, n) = [v EXCEPT !.tracking = t]
  BY <1>2, <1>4, Zenon DEF externalized
<1> HIDE DEF t
<1>6. [v EXCEPT !.tracking = t] =
         [now EXCEPT !.state = IF now.buffered # {} THEN @ ELSE "SYNCED",
                     !.tracking = t]
  BY Zenon DEF Node
<1>7. QED
  BY <1>5, <1>6, Zenon DEF written, t

LEMMA WrittenFields ==
    ASSUME NEW now \in Node, NEW n \in Int
    PROVE  /\ written(now, n) \in Node
           /\ written(now, n).lcl = now.lcl
           /\ written(now, n).count = now.count
           /\ written(now, n).state = IF now.buffered # {} THEN now.state ELSE "SYNCED"
           /\ written(now, n).buffered = now.buffered
           /\ written(now, n).work = now.work
           /\ written(now, n).tracking =
                 IF now.tracking < n THEN n ELSE now.tracking
           /\ written(now, n).throws = now.throws
<1> DEFINE t == IF now.tracking < n THEN n ELSE now.tracking
           st == IF now.buffered # {} THEN now.state ELSE "SYNCED"
<1>1. t \in Nat /\ st \in {"BOOTING", "CATCHING_UP", "SYNCED"}
  BY DEF Node
<1> HIDE DEF t, st
<1>2. written(now, n) = [now EXCEPT !.state = st, !.tracking = t]
  BY Zenon DEF written, t, st
<1>3. [now EXCEPT !.state = st, !.tracking = t] \in Node
  BY <1>1, Zenon DEF Node
<1>4. QED
  BY <1>2, <1>3, Zenon DEF Node, t, st

\* While a catchup runs nothing closes; what is ahead of its target is buffered.
LEMMA ExternalizeRunning ==
    ASSUME NEW nd, NEW coming, NEW closed \in Nat, NodeInv(nd, coming, closed),
           NEW n \in coming, n \in Int, n <= closed, nd.throws = {}, running(nd)
    PROVE  /\ NodeInv(externalized(nd, n), coming \ {n}, closed)
           /\ externalized(nd, n).lcl = nd.lcl
<1> DEFINE s == IF n > nd.lcl + 1 THEN "CATCHING_UP" ELSE nd.state
           B == IF n > nd.lcl /\ n > nd.work.to THEN nd.buffered \cup {n}
                ELSE nd.buffered
           now == [nd EXCEPT !.state = s, !.buffered = B]
           t == IF nd.tracking < n THEN n ELSE nd.tracking
           r == externalized(nd, n)
<1>1. /\ nd \in Node
      /\ nd.lcl \in Nat
      /\ nd.buffered \in SUBSET Nat
      /\ nd.work \in Work
      /\ nd.work.to \in Nat
      /\ nd.tracking \in Nat
  BY Zenon DEF NodeInv, Node, Work
<1>2. /\ s \in {"BOOTING", "CATCHING_UP", "SYNCED"}
      /\ s = "SYNCED" => nd.state = "SYNCED" /\ n <= nd.lcl + 1
  BY <1>1 DEF Node
<1>a. /\ B \in SUBSET Nat
      /\ nd.buffered \subseteq B
      /\ B \subseteq nd.buffered \cup {n}
      /\ IF n > nd.lcl /\ n > nd.work.to THEN n \in B ELSE B = nd.buffered
  BY <1>1
<1>b. nd.work.to <= nd.tracking
  <2>1. nd.work.phase \in Phases /\ nd.work.phase \notin {"none", "SUCCESS", "FAILURE"}
    BY <1>1, Zenon DEF Work, running, isCatchupInitialized, catchupWorkIsDone
  <2>2. CASE nd.work.phase \in Early \cup {"replay"}
    <3>1. PICK i \in nd.buffered : nd.work.to < i
      BY <2>2, Zenon DEF NodeInv, WorkRight
    <3>2. i <= nd.tracking /\ i \in Nat
      BY <3>1, <1>1, Zenon DEF NodeInv, Heard
    <3>3. QED
      BY <1>1, <3>1, <3>2
  <2>3. CASE nd.work.phase \in {"sequenceDone", "applyBuffered", "gap"}
    <3>1. nd.work.to <= nd.lcl /\ nd.lcl <= nd.tracking
      BY <2>3, Zenon DEF NodeInv, WorkRight, Heard
    <3>2. QED
      BY <1>1, <3>1
  <2>4. QED
    BY <2>1, <2>2, <2>3, Zenon DEF Phases, Early
<1>c. /\ t \in Nat
      /\ nd.tracking <= t
      /\ n <= t
      /\ t = nd.tracking \/ (t = n /\ n \in B)
      /\ t <= closed
  BY <1>1, <1>b, <1>a DEF NodeInv, Heard
<1>3. closeLedgerIf(nd, n) = [nd EXCEPT !.state = s]
  <2>1. CASE n = nd.lcl + 1
    <3>1. closeLedgerIf(nd, n) = nd
      BY <2>1, Zenon DEF closeLedgerIf
    <3>2. s = nd.state
      BY <1>1, <2>1
    <3>3. QED
      BY <1>1, <3>1, <3>2, Zenon DEF Node
  <2>2. CASE n # nd.lcl + 1 /\ n <= nd.lcl
    <3>1. closeLedgerIf(nd, n) = nd
      BY <2>2, Zenon DEF closeLedgerIf
    <3>2. s = nd.state
      BY <1>1, <2>2
    <3>3. QED
      BY <1>1, <3>1, <3>2 DEF Node
  <2>3. CASE n # nd.lcl + 1 /\ ~(n <= nd.lcl)
    <3>1. closeLedgerIf(nd, n) = [nd EXCEPT !.state = "CATCHING_UP"]
      BY <2>3, Zenon DEF closeLedgerIf
    <3>2. s = "CATCHING_UP"
      BY <1>1, <2>3
    <3>3. QED
      BY <3>1, <3>2, Zenon
  <2>4. QED
    BY <2>1, <2>2, <2>3, Zenon
<1> DEFINE m == [nd EXCEPT !.state = s]
<1>4. /\ m.work = nd.work
      /\ m.lcl = nd.lcl
      /\ m.buffered = nd.buffered
  BY <1>1, Zenon DEF Node
<1>5. isCatchupInitialized(m) /\ ~catchupWorkIsDone(m)
  BY <1>4, Zenon DEF running, isCatchupInitialized, catchupWorkIsDone
<1>6. processLedger(m, n) = IF n <= m.lcl THEN m
                            ELSE IF n <= m.work.to THEN m
                            ELSE [m EXCEPT !.buffered = @ \cup {n}]
  BY <1>5, Zenon DEF processLedger
<1>7. processLedger(m, n) = now
  <2>1. CASE n <= nd.lcl \/ n <= nd.work.to
    <3>1. processLedger(m, n) = m
      BY <1>4, <1>6, <2>1, Zenon
    <3>2. B = nd.buffered
      BY <1>1, <2>1
    <3>3. QED
      BY <1>1, <3>1, <3>2, Zenon DEF Node
  <2>2. CASE ~(n <= nd.lcl \/ n <= nd.work.to)
    <3>1. processLedger(m, n) = [m EXCEPT !.buffered = nd.buffered \cup {n}]
      BY <1>4, <1>6, <2>2, Zenon
    <3>2. B = nd.buffered \cup {n}
      BY <1>1, <2>2
    <3>3. QED
      BY <1>1, <3>1, <3>2, Zenon DEF Node
  <2>3. QED
    BY <2>1, <2>2, Zenon
<1> HIDE DEF B, t, s
<1>d. now \in Node
  BY <1>1, <1>2, <1>a, Zenon DEF Node
<1>8. r = written(now, n)
  <2>1. now = processLedger(closeLedgerIf(nd, n), n)
    BY <1>3, <1>7, Zenon
  <2>2. QED
    BY <1>d, <2>1, ExternalizedState, Zenon
<1>9. /\ r \in Node
      /\ r.lcl = nd.lcl
      /\ r.count = nd.count
      /\ r.state = IF B # {} THEN s ELSE "SYNCED"
      /\ r.buffered = B
      /\ r.work = nd.work
      /\ r.tracking = t
      /\ r.throws = {}
  <2>1. /\ now.lcl = nd.lcl
        /\ now.count = nd.count
        /\ now.buffered = B
        /\ now.state = s
        /\ now.work = nd.work
        /\ now.tracking = nd.tracking
        /\ now.throws = {}
    BY <1>1, Zenon DEF Node
  <2> HIDE DEF now, r
  <2>2. QED
    BY <1>d, <1>8, <2>1, WrittenFields, Zenon DEF t
<1> HIDE DEF r
<1>10. Heard(r, coming \ {n}, closed)
  <2>1. /\ 2 <= nd.lcl /\ nd.lcl <= nd.tracking /\ nd.tracking <= closed
        /\ \A i \in nd.buffered : nd.lcl < i /\ i <= nd.tracking /\ i \notin coming
    BY Zenon DEF NodeInv, Heard
  <2>2. nd.lcl <= t
    BY <1>1, <1>c, <2>1
  <2>3. \A i \in B : nd.lcl < i /\ i <= t /\ i \notin coming \ {n}
    <3>1. TAKE i \in B
    <3>2. CASE i \in nd.buffered
      BY <1>1, <1>c, <2>1, <3>2
    <3>3. CASE i = n /\ i \notin nd.buffered
      BY <1>1, <1>a, <1>c, <3>3, Zenon
    <3>4. QED
      BY <1>a, <3>2, <3>3, Zenon
  <2>4. nd.work.flight # 0 =>
           /\ nd.work.flight = nd.lcl + 1
           /\ nd.work.flight <= t
           /\ nd.work.flight \notin coming
           /\ nd.work.flight \notin B
           /\ nd.work.phase = "applyBuffered"
    <3>1. SUFFICES ASSUME nd.work.flight # 0
                   PROVE  /\ nd.work.flight = nd.lcl + 1
                          /\ nd.work.flight <= t
                          /\ nd.work.flight \notin coming
                          /\ nd.work.flight \notin B
                          /\ nd.work.phase = "applyBuffered"
      BY Zenon
    <3>2. /\ nd.work.flight = nd.lcl + 1
          /\ nd.work.flight <= nd.tracking
          /\ nd.work.flight \notin coming
          /\ nd.work.flight \notin nd.buffered
          /\ nd.work.phase = "applyBuffered"
      BY <3>1, Zenon DEF NodeInv, Heard
    <3>3. nd.work.flight # n
      BY <3>2, Zenon
    <3>4. nd.work.flight \notin B
      BY <1>a, <3>2, <3>3, Zenon
    <3>5. nd.work.flight <= t
      BY <1>1, <1>c, <3>2
    <3>6. QED
      BY <3>2, <3>4, <3>5, Zenon
  <2>5. t \in {nd.lcl, nd.work.flight} \cup B
    <3>1. nd.tracking \in {nd.lcl, nd.work.flight} \cup nd.buffered
      BY Zenon DEF NodeInv, Heard
    <3>2. QED
      BY <1>a, <1>c, <3>1, Zenon
  <2>6. QED
    BY <1>9, <1>c, <2>1, <2>2, <2>3, <2>4, <2>5, Zenon DEF Heard
<1>11. WorkRight(r)
  <2>1. nd.work.phase # "SUCCESS"
    BY Zenon DEF running, catchupWorkIsDone
  <2>2. r.buffered # {} \/ nd.buffered = {}
    BY <1>9, <1>a, Zenon
  <2>3. (\A i \in nd.buffered : nd.work.to < i) => \A i \in r.buffered : r.work.to < i
    BY <1>1, <1>9, <1>a, Zenon
  <2>4. QED
    BY <1>9, <2>1, <2>2, <2>3, Zenon DEF NodeInv, WorkRight
<1>12. StateRight(r)
  <2>1. SUFFICES ASSUME r.state = "SYNCED", B # {}
                 PROVE  /\ nd.work.phase \in {"sequenceDone", "applyBuffered"}
                        /\ nd.work.flight = 0
                        /\ B = {nd.lcl + 1}
    BY <1>9, Zenon DEF StateRight
  <2>2. nd.state = "SYNCED" /\ n <= nd.lcl + 1
    BY <1>2, <1>9, <2>1, Zenon
  <2>3. CASE nd.buffered = {}
    <3>1. n \in B /\ n = nd.lcl + 1 /\ B = {n}
      <4>1. n \in B /\ B = {n} /\ n > nd.lcl
        BY <1>a, <2>1, <2>3, Zenon
      <4>2. QED
        BY <1>1, <2>2, <4>1
    <3>2. nd.work.flight = 0
      BY <3>1, Zenon DEF NodeInv, Heard
    <3>3. nd.work.phase \in {"sequenceDone", "applyBuffered"}
      <4>1. nd.work.phase \in Phases /\ nd.work.phase \notin {"none", "SUCCESS", "FAILURE"}
        BY <1>1, Zenon DEF Work, running, isCatchupInitialized, catchupWorkIsDone
      <4>2. nd.work.phase \notin Early \cup {"replay"} /\ nd.work.phase # "gap"
        BY <2>3, Zenon DEF NodeInv, WorkRight
      <4>3. QED
        BY <4>1, <4>2, Zenon DEF Phases, Early
    <3>4. QED
      BY <3>1, <3>2, <3>3, Zenon
  <2>4. CASE nd.buffered # {}
    <3>1. /\ nd.work.phase \in {"sequenceDone", "applyBuffered"}
          /\ nd.work.flight = 0
          /\ nd.buffered = {nd.lcl + 1}
      BY <2>2, <2>4, Zenon DEF NodeInv, StateRight
    <3>2. n # nd.lcl + 1
      BY <3>1, Zenon DEF NodeInv, Heard
    <3>3. B = nd.buffered
      BY <1>1, <1>a, <2>2, <3>2
    <3>4. QED
      BY <3>1, <3>3, Zenon
  <2>5. QED
    BY <2>3, <2>4, Zenon
<1>13. ThrowsRight(r)
  BY <1>9, Zenon DEF ThrowsRight
<1>14. QED
  BY <1>9, <1>10, <1>11, <1>12, <1>13, Zenon DEF NodeInv, r

\* B has the last ledger of S.
KeepsLast(B, S) == \A m \in S : (\A i \in S : i <= m) => m \in B

\* Node nd with no catchup, the ledgers up to l closed, and B buffered for the rest.
closedUpTo(nd, B, l) ==
    [nd EXCEPT !.lcl = l, !.work = NoWork, !.buffered = {i \in B : l < i}]

\* Ledger l is the LCL, slot n that follows it or buffered, and not before any of these.
Follows(nd, n, B, l) ==
    /\ l \in Nat
    /\ nd.lcl <= l
    /\ n <= l
    /\ l \in B \/ l = nd.lcl \/ (l = n /\ n = nd.lcl + 1)

\* A catchup that is done is forgotten, and the buffer trimmed.
LEMMA ResetRight ==
    ASSUME NEW nd \in Node, NEW b \in Nat, \A i \in nd.buffered : i <= b,
           ~running(nd), nd.work.phase = "none" => nd.work = NoWork
    PROVE  \E B \in SUBSET nd.buffered :
              /\ KeepsLast(B, nd.buffered)
              /\ (IF catchupWorkIsDone(nd) THEN trimAndReset(nd) ELSE nd) =
                     [nd EXCEPT !.work = NoWork, !.buffered = B]
<1>1. CASE catchupWorkIsDone(nd)
  <2> DEFINE B == trimSyncingLedgers(nd.buffered)
  <2>1. nd.buffered \in SUBSET Nat
    BY Zenon DEF Node
  <2>2. /\ B \subseteq nd.buffered
        /\ \A m \in nd.buffered : (\A i \in nd.buffered : i <= m) => m \in B
    BY <2>1, TrimRight, Zenon
  <2>3. trimAndReset(nd) = [nd EXCEPT !.work = NoWork, !.buffered = B]
    BY Zenon DEF trimAndReset
  <2> HIDE DEF B
  <2>4. QED
    BY <1>1, <2>2, <2>3, Zenon DEF KeepsLast
<1>2. CASE ~catchupWorkIsDone(nd)
  <2>1. nd.work = NoWork
    BY <1>2, Zenon DEF running, isCatchupInitialized
  <2>2. nd = [nd EXCEPT !.work = NoWork, !.buffered = nd.buffered]
    BY <2>1, Zenon DEF Node
  <2>3. QED
    BY <1>2, <2>2, Zenon DEF KeepsLast
<1>3. QED
  BY <1>1, <1>2, Zenon

\* The node keeps the invariant when it has closed up to l and nothing is between.
LEMMA Settled ==
    ASSUME NEW nd, NEW coming, NEW closed \in Nat, NodeInv(nd, coming, closed),
           NEW n \in coming, n \in Int, n <= closed, nd.throws = {}, ~running(nd),
           NEW B \in SUBSET nd.buffered,
           KeepsLast(B, nd.buffered),
           NEW l, Follows(nd, n, B, l),
           processLedger(closeLedgerIf(nd, n), n) = closedUpTo(nd, B, l)
    PROVE  /\ NodeInv(externalized(nd, n), coming \ {n}, closed)
           /\ externalized(nd, n).lcl = l
<1> DEFINE C == {i \in B : l < i}
           now == processLedger(closeLedgerIf(nd, n), n)
           t == IF nd.tracking < n THEN n ELSE nd.tracking
           r == externalized(nd, n)
<1>1. /\ nd \in Node
      /\ nd.lcl \in Nat
      /\ nd.buffered \in SUBSET Nat
      /\ nd.tracking \in Nat
      /\ nd.state \in {"BOOTING", "CATCHING_UP", "SYNCED"}
  BY Zenon DEF NodeInv, Node
<1>a. /\ l \in Nat
      /\ nd.lcl <= l
      /\ n <= l
      /\ l \in B \/ l = nd.lcl \/ (l = n /\ n = nd.lcl + 1)
  BY Zenon DEF Follows
<1>2. NoWork \in Work /\ NoWork.phase = "none" /\ NoWork.flight = 0
  BY Zenon DEF NoWork, Work, Phases
<1>3. /\ now \in Node
      /\ now.tracking = nd.tracking
      /\ now.buffered = C
      /\ now.state = nd.state
  <2>1. C \in SUBSET Nat
    BY <1>1, Zenon
  <2> HIDE DEF C
  <2>2. now = [nd EXCEPT !.lcl = l, !.work = NoWork, !.buffered = C]
    BY Zenon DEF closedUpTo, C
  <2>3. QED
    BY <1>1, <1>2, <1>a, <2>1, <2>2, Zenon DEF Node
<1>4. r = written(now, n)
  BY <1>3, ExternalizedState, Zenon
<1>5. nd.work.flight = 0
  BY Zenon DEF NodeInv, Heard, running, isCatchupInitialized, catchupWorkIsDone
<1>6. /\ C \in SUBSET Nat
      /\ \A i \in C : l < i /\ i \in B
  BY <1>1, Zenon
<1>7. nd.tracking = nd.lcl \/ nd.tracking \in B
  <2>1. nd.tracking \in {nd.lcl, 0} \cup nd.buffered /\ nd.lcl <= nd.tracking
    BY <1>5, Zenon DEF NodeInv, Heard
  <2>2. \A i \in nd.buffered : i <= nd.tracking
    BY Zenon DEF NodeInv, Heard
  <2>3. nd.tracking \in nd.buffered => nd.tracking \in B
    BY <2>2, Zenon DEF KeepsLast
  <2>4. QED
    BY <1>1, <2>1, <2>3
<1>8. \A i \in B : nd.lcl < i /\ i <= nd.tracking /\ i # n /\ i \in Nat
  BY <1>1, Zenon DEF NodeInv, Heard
<1>9. /\ t \in Nat
      /\ t <= closed
      /\ l <= t
      /\ nd.tracking <= t
      /\ t = l \/ t \in C
  <2>1. nd.tracking <= closed /\ nd.lcl <= nd.tracking
    BY Zenon DEF NodeInv, Heard
  <2>2. CASE nd.tracking = nd.lcl
    <3>1. B = {}
      BY <1>1, <1>8, <2>2
    <3>2. QED
      BY <1>1, <1>a, <2>1, <2>2, <3>1
  <2>3. CASE nd.tracking \in B
    BY <1>1, <1>a, <1>8, <2>1, <2>3
  <2>4. QED
    BY <1>7, <2>2, <2>3, Zenon
<1>10. /\ r \in Node
       /\ r.lcl = l
       /\ r.count = nd.count
       /\ r.state = IF C # {} THEN nd.state ELSE "SYNCED"
       /\ r.buffered = C
       /\ r.work = NoWork
       /\ r.tracking = t
       /\ r.throws = {}
  <2>1. /\ now.lcl = l
        /\ now.count = nd.count
        /\ now.work = NoWork
        /\ now.throws = {}
    <3> HIDE DEF C
    <3>1. now = [nd EXCEPT !.lcl = l, !.work = NoWork, !.buffered = C]
      BY Zenon DEF closedUpTo, C
    <3>2. QED
      BY <1>1, <1>a, <3>1, Zenon DEF Node
  <2> HIDE DEF r, C
  <2>2. QED
    BY <1>3, <1>4, <2>1, WrittenFields, Zenon
<1> HIDE DEF r, t, C
<1>11. Heard(r, coming \ {n}, closed)
  <2>1. 2 <= nd.lcl
    BY Zenon DEF NodeInv, Heard
  <2>2. 2 <= l
    BY <1>1, <1>a, <2>1
  <2>3. \A i \in C : l < i /\ i <= t /\ i \notin coming
    <3>1. TAKE i \in C
    <3>2. i \in nd.buffered /\ l < i /\ i \in B
      BY <1>6, Zenon
    <3>3. i \notin coming
      BY <3>2, Zenon DEF NodeInv, Heard
    <3>4. i <= t
      BY <1>1, <1>8, <1>9, <3>2
    <3>5. QED
      BY <3>2, <3>3, <3>4, Zenon
  <2>4. QED
    BY <1>2, <1>9, <1>10, <2>2, <2>3, Zenon DEF Heard
<1>12. WorkRight(r)
  BY <1>2, <1>10, Zenon DEF WorkRight, Early
<1>13. StateRight(r)
  <2>1. SUFFICES ASSUME r.state = "SYNCED", C # {} PROVE FALSE
    BY <1>10, Zenon DEF StateRight
  <2>2. nd.state = "SYNCED"
    BY <1>10, <2>1, Zenon
  <2>3. nd.work.phase \notin {"sequenceDone", "applyBuffered"}
    BY Zenon DEF running, isCatchupInitialized, catchupWorkIsDone
  <2>4. nd.buffered = {}
    BY <2>2, <2>3, Zenon DEF NodeInv, StateRight
  <2>5. QED
    BY <1>6, <2>1, <2>4, Zenon
<1>14. ThrowsRight(r)
  BY <1>10, Zenon DEF ThrowsRight
<1>15. QED
  BY <1>10, <1>11, <1>12, <1>13, <1>14, Zenon DEF NodeInv, r

\* The node keeps the invariant when it buffers a ledger and perhaps starts a catchup.
LEMMA Buffers ==
    ASSUME NEW nd, NEW coming, NEW closed \in Nat, NodeInv(nd, coming, closed),
           NEW n \in coming, n \in Int, n <= closed, nd.throws = {}, ~running(nd),
           NEW B \in SUBSET nd.buffered,
           KeepsLast(B, nd.buffered),
           nd.lcl + 1 < n,
           processLedger(closeLedgerIf(nd, n), n) =
               bufferLedger([nd EXCEPT !.state = "CATCHING_UP", !.work = NoWork,
                                       !.buffered = B], n)
    PROVE  /\ NodeInv(externalized(nd, n), coming \ {n}, closed)
           /\ externalized(nd, n).lcl = nd.lcl
<1> DEFINE now == [nd EXCEPT !.state = "CATCHING_UP", !.work = NoWork, !.buffered = B]
           S == B \cup {n}
           t == IF nd.tracking < n THEN n ELSE nd.tracking
           r == externalized(nd, n)
           r0 == bufferLedger(now, n)
<1>1. /\ nd \in Node
      /\ nd.lcl \in Nat
      /\ nd.buffered \in SUBSET Nat
      /\ nd.tracking \in Nat
      /\ n \in Nat
  BY DEF NodeInv, Node
<1>2. NoWork \in Work /\ NoWork.phase = "none" /\ NoWork.flight = 0
  BY Zenon DEF NoWork, Work, Phases
<1>3. /\ now \in Node
      /\ now.lcl = nd.lcl
      /\ now.tracking = nd.tracking
      /\ now.buffered = B
      /\ now.work = NoWork
      /\ now.throws = {}
  BY <1>1, <1>2, Zenon DEF Node
<1>4. nd.work.flight = 0
  BY Zenon DEF NodeInv, Heard, running, isCatchupInitialized, catchupWorkIsDone
<1>5. \A i \in B : nd.lcl < i /\ i <= nd.tracking /\ i \notin coming /\ i \in Nat
  BY <1>1, Zenon DEF NodeInv, Heard
<1>6. 2 <= nd.lcl /\ nd.lcl <= nd.tracking /\ nd.tracking <= closed
  BY Zenon DEF NodeInv, Heard
<1>7. nd.tracking = nd.lcl \/ nd.tracking \in B
  <2>1. nd.tracking \in {nd.lcl, 0} \cup nd.buffered /\ nd.lcl <= nd.tracking
    BY <1>4, Zenon DEF NodeInv, Heard
  <2>2. \A i \in nd.buffered : i <= nd.tracking
    BY Zenon DEF NodeInv, Heard
  <2>3. nd.tracking \in nd.buffered => nd.tracking \in B
    BY <2>2, Zenon DEF KeepsLast
  <2>4. QED
    BY <1>1, <2>1, <2>3
<1>8. /\ t \in Nat /\ t \in S /\ t <= closed /\ nd.lcl <= t
      /\ \A i \in S : nd.lcl < i /\ i <= t /\ i \notin coming \ {n} /\ i \in Nat
  BY <1>1, <1>5, <1>6, <1>7
<1>9. \/ r0 = [now EXCEPT !.buffered = S]
      \/ \E f \in S : StartsFrom(r0, now, S, f)
  <2>1. \A i \in now.buffered : now.lcl < i /\ i <= closed
    BY <1>1, <1>3, <1>5, <1>6
  <2>2. now.lcl < n
    BY <1>1, <1>3
  <2>3. \/ r0 = [now EXCEPT !.buffered = now.buffered \cup {n}]
        \/ \E f \in now.buffered \cup {n} :
              StartsFrom(r0, now, now.buffered \cup {n}, f)
    BY <1>1, <1>3, <2>1, <2>2, BufferLedgerRight, Zenon
  <2>4. QED
    BY <1>3, <2>3, Zenon
<1> HIDE DEF t, r, S, r0
<1>10. ASSUME NEW D \in SUBSET Nat, NEW w \in Work, NEW th \in SUBSET Thrown, D # {},
              r0 = [now EXCEPT !.buffered = D, !.work = w, !.throws = th]
       PROVE  /\ r \in Node
              /\ r.lcl = nd.lcl
              /\ r.count = nd.count
              /\ r.state = "CATCHING_UP"
              /\ r.buffered = D
              /\ r.work = w
              /\ r.tracking = t
              /\ r.throws = th
  <2>1. /\ r0 \in Node
        /\ r0.lcl = now.lcl
        /\ r0.count = now.count
        /\ r0.state = now.state
        /\ r0.tracking = now.tracking
        /\ r0.buffered = D
        /\ r0.work = w
        /\ r0.throws = th
    BY <1>3, <1>10, Zenon DEF Node
  <2>2. now.count = nd.count /\ now.state = "CATCHING_UP"
    BY <1>1, Zenon DEF Node
  <2>3. r = written(r0, n)
    BY <2>1, ExternalizedState, Zenon DEF r, r0
  <2>4. /\ r \in Node
        /\ r.lcl = r0.lcl
        /\ r.count = r0.count
        /\ r.state = IF r0.buffered # {} THEN r0.state ELSE "SYNCED"
        /\ r.buffered = r0.buffered
        /\ r.work = r0.work
        /\ r.tracking = IF r0.tracking < n THEN n ELSE r0.tracking
        /\ r.throws = r0.throws
    BY <2>1, <2>3, WrittenFields, ZenonT(30)
  <2>5. r.state = "CATCHING_UP"
    BY <1>10, <2>1, <2>2, <2>4, Zenon
  <2>6. r.tracking = t
    BY <1>3, <2>1, <2>4, Zenon DEF t
  <2>7. QED
    BY <1>3, <2>1, <2>2, <2>4, <2>5, <2>6, Zenon
<1>11. CASE r0 = [now EXCEPT !.buffered = S]
  <2>1. r0 = [now EXCEPT !.buffered = S, !.work = NoWork, !.throws = {}]
    BY <1>3, <1>11, Zenon DEF Node
  <2>2. S \in SUBSET Nat /\ S # {}
    BY <1>8, Zenon
  <2>3. /\ r \in Node
        /\ r.lcl = nd.lcl
        /\ r.count = nd.count
        /\ r.state = "CATCHING_UP"
        /\ r.buffered = S
        /\ r.work = NoWork
        /\ r.tracking = t
        /\ r.throws = {}
    <3>1. {} \in SUBSET Thrown
      BY Zenon
    <3>2. QED
      BY <1>2, <1>10, <2>1, <2>2, <3>1, Zenon
  <2>4. Heard(r, coming \ {n}, closed)
    BY <1>2, <1>6, <1>8, <2>3, Zenon DEF Heard
  <2>5. WorkRight(r)
    BY <1>2, <2>3, Zenon DEF WorkRight, Early
  <2>6. StateRight(r) /\ ThrowsRight(r)
    BY <2>3, Zenon DEF StateRight, ThrowsRight
  <2>7. QED
    BY <2>3, <2>4, <2>5, <2>6, Zenon DEF NodeInv, r
<1>12. ASSUME NEW f \in S, StartsFrom(r0, now, S, f)
       PROVE  /\ NodeInv(r, coming \ {n}, closed)
              /\ r.lcl = nd.lcl
  <2> DEFINE D == {i \in S : f <= i}
             w == [phase |-> "getState", from |-> nd.lcl, to |-> f - 1, flight |-> 0]
             th == IF f = nd.lcl + 1 THEN {"target is not newer than LCL"} ELSE {}
  <2>1. f \in Nat /\ nd.lcl < f /\ f - 1 \in Nat
    BY <1>1, <1>8
  <2>2. /\ w \in Work
        /\ w.phase = "getState" /\ w.from = nd.lcl /\ w.to = f - 1 /\ w.flight = 0
    BY <1>1, <2>1, Zenon DEF Work, Phases
  <2>3. /\ D \in SUBSET Nat /\ f \in D /\ t \in D
        /\ \A i \in D : i \in S /\ f <= i /\ i \in Nat
    <3>1. PICK i \in S : f < i
      BY <1>12, Zenon DEF StartsFrom
    <3>2. i <= t /\ i \in Nat /\ t \in S /\ t \in Nat
      BY <1>8, <3>1, Zenon
    <3>3. f <= t /\ f <= f
      BY <2>1, <3>1, <3>2
    <3>4. QED
      BY <1>8, <3>2, <3>3, Zenon
  <2>4. th \in SUBSET Thrown
    BY Zenon DEF Thrown
  <2> HIDE DEF D, w, th
  <2>5. r0 = [now EXCEPT !.buffered = D, !.work = w, !.throws = th]
    BY <1>3, <1>12, Zenon DEF StartsFrom, D, w, th
  <2>6. /\ r \in Node
        /\ r.lcl = nd.lcl
        /\ r.count = nd.count
        /\ r.state = "CATCHING_UP"
        /\ r.buffered = D
        /\ r.work = w
        /\ r.tracking = t
        /\ r.throws = th
    BY <1>10, <2>2, <2>3, <2>4, <2>5, Zenon
  <2>7. Heard(r, coming \ {n}, closed)
    BY <1>6, <1>8, <2>2, <2>3, <2>6, Zenon DEF Heard
  <2>8. WorkRight(r)
    <3>1. \A i \in D : f - 1 < i
      BY <2>1, <2>3
    <3>2. th = {} => nd.lcl < f - 1
      <4>1. th = {} => f # nd.lcl + 1
        BY Zenon DEF th
      <4>2. QED
        BY <1>1, <2>1, <4>1
    <3>3. D # {}
      BY <2>3, Zenon
    <3>4. QED
      BY <2>2, <2>6, <3>1, <3>2, <3>3, Zenon DEF WorkRight
  <2>9. StateRight(r)
    BY <2>6, Zenon DEF StateRight
  <2>10. ThrowsRight(r)
    <3>1. th # {} => f = nd.lcl + 1 /\ th = {"target is not newer than LCL"}
      BY Zenon DEF th
    <3>2. QED
      BY <2>2, <2>3, <2>6, <1>12, <3>1, Zenon DEF ThrowsRight, StartsFrom
  <2>11. QED
    BY <2>6, <2>7, <2>8, <2>9, <2>10, Zenon DEF NodeInv
<1>13. QED
  BY <1>9, <1>11, <1>12, Zenon DEF r

\* A slot externalizes while no catchup runs.
LEMMA ExternalizeIdle ==
    ASSUME NEW nd, NEW coming, NEW closed \in Nat, NodeInv(nd, coming, closed),
           NEW n \in coming, n \in Int, n <= closed, nd.throws = {}, ~running(nd)
    PROVE  /\ NodeInv(externalized(nd, n), coming \ {n}, closed)
           /\ nd.lcl <= externalized(nd, n).lcl
           /\ nd.lcl + 1 .. externalized(nd, n).lcl \subseteq nd.buffered \cup {n}
<1> DEFINE c == closeLedgerIf(nd, n)
           l == IF n = nd.lcl + 1 THEN n ELSE nd.lcl
           s == IF n > nd.lcl + 1 THEN "CATCHING_UP" ELSE nd.state
<1>1. /\ nd \in Node
      /\ nd.lcl \in Nat
      /\ nd.buffered \in SUBSET Nat
      /\ nd.tracking \in Nat
      /\ nd.state \in {"BOOTING", "CATCHING_UP", "SYNCED"}
      /\ nd.work.phase = "none" => nd.work = NoWork
      /\ nd.work \in Work
  BY Zenon DEF NodeInv, Node, WorkRight
<1>2. /\ l \in Nat /\ nd.lcl <= l /\ l <= nd.lcl + 1
      /\ s \in {"BOOTING", "CATCHING_UP", "SYNCED"}
  BY <1>1
<1>3. c = [nd EXCEPT !.lcl = l, !.state = s]
  <2>1. CASE n = nd.lcl + 1
    <3>1. c = [nd EXCEPT !.lcl = n]
      BY <2>1, Zenon DEF closeLedgerIf, closeLedger
    <3>2. s = nd.state /\ l = n
      BY <1>1, <2>1
    <3>3. QED
      BY <1>1, <3>1, <3>2, Zenon DEF Node
  <2>2. CASE n # nd.lcl + 1 /\ n <= nd.lcl
    <3>1. c = nd
      BY <2>2, Zenon DEF closeLedgerIf
    <3>2. s = nd.state /\ l = nd.lcl
      BY <1>1, <2>2
    <3>3. QED
      BY <1>1, <3>1, <3>2, Zenon DEF Node
  <2>3. CASE n # nd.lcl + 1 /\ ~(n <= nd.lcl)
    <3>1. c = [nd EXCEPT !.state = "CATCHING_UP"]
      BY <2>3, Zenon DEF closeLedgerIf
    <3>2. s = "CATCHING_UP" /\ l = nd.lcl
      BY <1>1, <2>3
    <3>3. QED
      BY <1>1, <3>1, <3>2, Zenon DEF Node
  <2>4. QED
    BY <2>1, <2>2, <2>3, Zenon
<1> HIDE DEF c, l, s
<1>4. /\ c \in Node
      /\ c.lcl = l
      /\ c.buffered = nd.buffered
      /\ c.work = nd.work
  BY <1>1, <1>2, <1>3, Zenon DEF Node
<1>5. PICK B \in SUBSET nd.buffered :
         /\ KeepsLast(B, nd.buffered)
         /\ (IF catchupWorkIsDone(c) THEN trimAndReset(c) ELSE c) =
                [c EXCEPT !.work = NoWork, !.buffered = B]
  <2>1. ~running(c)
    BY <1>4, Zenon DEF running, isCatchupInitialized, catchupWorkIsDone
  <2>2. \A i \in c.buffered : i <= nd.tracking
    BY <1>4, Zenon DEF NodeInv, Heard
  <2>3. c.work.phase = "none" => c.work = NoWork
    BY <1>1, <1>4, Zenon
  <2>4. \E B \in SUBSET c.buffered :
           /\ KeepsLast(B, c.buffered)
           /\ (IF catchupWorkIsDone(c) THEN trimAndReset(c) ELSE c) =
                  [c EXCEPT !.work = NoWork, !.buffered = B]
    BY <1>1, <1>4, <2>1, <2>2, <2>3, ResetRight, Zenon
  <2>5. QED
    BY <1>4, <2>4, Zenon
<1> DEFINE now == [c EXCEPT !.work = NoWork, !.buffered = B]
<1>6. B \in SUBSET Nat
  BY <1>1, Zenon
<1>7. /\ now \in Node
      /\ now.lcl = l
      /\ now.work = NoWork
      /\ now.buffered = B
  <2>1. NoWork \in Work
    BY Zenon DEF NoWork, Work, Phases
  <2>2. QED
    BY <1>4, <1>6, <2>1, Zenon DEF Node
<1>8. ~isCatchupInitialized(now)
  BY <1>7 DEF isCatchupInitialized, NoWork
<1>9. processLedger(c, n) = IF n = l THEN tryApplySyncingLedgers(now)
                            ELSE IF n <= l THEN now
                            ELSE bufferLedger(now, n)
  <2> HIDE DEF now
  <2>1. (IF catchupWorkIsDone(c) THEN trimAndReset(c) ELSE c) = now
    BY <1>5, Zenon DEF now
  <2>2. QED
    BY <1>7, <1>8, <2>1, Zenon DEF processLedger
<1>10. \A i \in B : nd.lcl < i /\ i <= nd.tracking /\ i # n /\ i \in Nat
  BY <1>1, Zenon DEF NodeInv, Heard
<1>11. CASE n <= l
  <2> DEFINE r0 == IF n = l THEN tryApplySyncingLedgers(now) ELSE now
  <2>1. s = nd.state
    BY <1>1, <1>2, <1>11 DEF s, l
  <2>2. \A i \in B : l < i
    BY <1>1, <1>10 DEF l
  <2>3. \E k \in Nat :
           /\ r0 = [now EXCEPT !.lcl = k, !.buffered = {i \in B : k < i}]
           /\ k = l \/ k \in B
           /\ l <= k
           /\ l + 1 .. k \subseteq B
    <3>1. CASE n = l
      <4> DEFINE tr == tryApplySyncingLedgers(now)
      <4>1. \A i \in now.buffered : now.lcl < i /\ i <= nd.tracking
        BY <1>7, <1>10, <2>2, Zenon
      <4>2. /\ tr = [now EXCEPT !.lcl = tr.lcl, !.buffered = tr.buffered]
            /\ tr.lcl \in Nat
            /\ tr.lcl = now.lcl \/ tr.lcl \in now.buffered
            /\ now.lcl <= tr.lcl
            /\ now.lcl + 1 .. tr.lcl \subseteq now.buffered
            /\ tr.buffered = {n_1 \in now.buffered : tr.lcl < n_1}
        <5> HIDE DEF now
        <5>1. QED
          BY <1>1, <1>7, <4>1, TryApplyRight, Zenon
      <4> HIDE DEF tr, now
      <4>3. r0 = tr
        BY <3>1, Zenon DEF tr
      <4>4. QED
        BY <1>7, <4>2, <4>3, Zenon
    <3>2. CASE n # l
      <4>1. B = {i \in B : l < i}
        BY <2>2, Zenon
      <4>2. now = [now EXCEPT !.lcl = l, !.buffered = B]
        BY <1>4, <1>6, <1>7, Zenon DEF Node
      <4>3. l <= l /\ l + 1 .. l \subseteq B
        BY <1>2
      <4> HIDE DEF now
      <4>4. r0 = now
        BY <3>2, Zenon
      <4>5. QED
        BY <1>2, <4>1, <4>2, <4>3, <4>4, Zenon
    <3>3. QED
      BY <3>1, <3>2, Zenon
  <2>4. PICK k \in Nat :
           /\ r0 = [now EXCEPT !.lcl = k, !.buffered = {i \in B : k < i}]
           /\ k = l \/ k \in B
           /\ l <= k
           /\ l + 1 .. k \subseteq B
    BY <2>3, Zenon
  <2> DEFINE C == {i \in B : k < i}
             r1 == [nd EXCEPT !.lcl = k, !.work = NoWork, !.buffered = C]
  <2>5. r0 = r1
    <3> HIDE DEF C, r0
    <3>1. r0 = [now EXCEPT !.lcl = k, !.buffered = C]
      BY <2>4, Zenon DEF C
    <3>2. QED
      BY <1>1, <1>3, <2>1, <3>1, Zenon DEF Node
  <2>6. r1 = processLedger(closeLedgerIf(nd, n), n)
    <3> HIDE DEF now, r1
    <3>1. QED
      BY <1>9, <1>11, <2>5, Zenon DEF c
  <2>7. /\ nd.lcl <= k
        /\ n <= k
        /\ k \in B \/ k = nd.lcl \/ (k = n /\ n = nd.lcl + 1)
    BY <1>1, <1>2, <1>11, <2>4 DEF l
  <2> HIDE DEF now, r0
  <2>8. /\ NodeInv(externalized(nd, n), coming \ {n}, closed)
        /\ externalized(nd, n).lcl = k
    <3>1. KeepsLast(B, nd.buffered)
      BY <1>5, Zenon
    <3>2. processLedger(closeLedgerIf(nd, n), n) = closedUpTo(nd, B, k)
      BY <2>6, Zenon DEF closedUpTo
    <3>3. Follows(nd, n, B, k)
      BY <2>7, Zenon DEF Follows
    <3>4. QED
      BY <3>1, <3>2, <3>3, Settled, ZenonT(30)
  <2>9. nd.lcl + 1 .. k \subseteq nd.buffered \cup {n}
    <3>1. SUFFICES ASSUME NEW i \in nd.lcl + 1 .. k
                   PROVE  i \in nd.buffered \cup {n}
      BY Zenon
    <3>2. i \in l + 1 .. k \/ (i = n /\ n = nd.lcl + 1)
      BY <1>1, <1>2, <3>1 DEF l
    <3>3. QED
      BY <2>4, <3>2, Zenon
  <2>10. QED
    BY <2>7, <2>8, <2>9, Zenon
<1>12. CASE ~(n <= l)
  <2>1. l = nd.lcl /\ s = "CATCHING_UP" /\ nd.lcl + 1 < n
    BY <1>1, <1>12 DEF l, s
  <2>2. now = [nd EXCEPT !.state = "CATCHING_UP", !.work = NoWork, !.buffered = B]
    BY <1>1, <1>3, <2>1, Zenon DEF Node
  <2>3. n # l
    BY <1>2, <1>12
  <2> HIDE DEF now
  <2>4. processLedger(closeLedgerIf(nd, n), n) =
           bufferLedger([nd EXCEPT !.state = "CATCHING_UP", !.work = NoWork,
                                   !.buffered = B], n)
    BY <1>9, <1>12, <2>2, <2>3, Zenon DEF c
  <2>5. KeepsLast(B, nd.buffered)
    BY <1>5, Zenon
  <2>6. /\ NodeInv(externalized(nd, n), coming \ {n}, closed)
        /\ externalized(nd, n).lcl = nd.lcl
    BY <2>1, <2>4, <2>5, Buffers, Zenon
  <2>7. nd.lcl <= nd.lcl /\ nd.lcl + 1 .. nd.lcl \subseteq nd.buffered \cup {n}
    BY <1>1
  <2>8. QED
    BY <2>6, <2>7, Zenon
<1>13. QED
  BY <1>11, <1>12, Zenon

-----------------------------------------------------------------------------
(* A catchup goes on.                                                          *)

\* Node r is node nd after a step of its catchup, to phase p.
Moved(r, nd, l, B, p, f) ==
    /\ r \in Node
    /\ r.lcl = l
    /\ r.count = nd.count
    /\ r.state = nd.state
    /\ r.buffered = B
    /\ r.work.phase = p
    /\ r.work.from = nd.work.from
    /\ r.work.to = nd.work.to
    /\ r.work.flight = f
    /\ r.tracking = nd.tracking
    /\ r.throws = nd.throws

LEMMA PhaseFields ==
    ASSUME NEW nd \in Node, NEW p \in Phases
    PROVE  Moved([nd EXCEPT !.work.phase = p], nd, nd.lcl, nd.buffered, p,
                 nd.work.flight)
<1> DEFINE w == [nd.work EXCEPT !.phase = p]
<1>1. nd.work \in Work
  BY Zenon DEF Node
<1>2. /\ w \in Work
      /\ w.phase = p /\ w.from = nd.work.from /\ w.to = nd.work.to
      /\ w.flight = nd.work.flight
  BY <1>1, Zenon DEF Work
<1> HIDE DEF w
<1>3. [nd EXCEPT !.work.phase = p] = [nd EXCEPT !.work = w]
  BY Zenon DEF w
<1>4. QED
  BY <1>2, <1>3, Zenon DEF Moved, Node

LEMMA LclFields ==
    ASSUME NEW nd \in Node, NEW l \in Nat, NEW p \in Phases
    PROVE  Moved([nd EXCEPT !.lcl = l, !.work.phase = p], nd, l, nd.buffered, p,
                 nd.work.flight)
<1> DEFINE m == [nd EXCEPT !.lcl = l]
<1>1. /\ m \in Node
      /\ m.lcl = l /\ m.count = nd.count /\ m.state = nd.state
      /\ m.buffered = nd.buffered /\ m.work = nd.work /\ m.tracking = nd.tracking
      /\ m.throws = nd.throws
  BY Zenon DEF Node
<1> HIDE DEF m
<1>2. Moved([m EXCEPT !.work.phase = p], m, m.lcl, m.buffered, p, m.work.flight)
  BY <1>1, PhaseFields, Zenon
<1>3. QED
  BY <1>1, <1>2, Zenon DEF Moved, m

\* A step that only changes the phase, from one in which no ledger is in flight.
LEMMA PhaseMoves ==
    ASSUME NEW nd, NEW coming, NEW closed, NodeInv(nd, coming, closed),
           nd.throws = {}, nd.work.flight = 0, NEW r, NEW p,
           Moved(r, nd, nd.lcl, nd.buffered, p, 0), WorkRight(r),
           nd.buffered # {} /\ p \notin {"sequenceDone", "applyBuffered"} =>
               \/ nd.state # "SYNCED"
               \/ nd.work.phase \notin {"sequenceDone", "applyBuffered"}
    PROVE  NodeInv(r, coming, closed) /\ r.lcl = nd.lcl
<1>1. Heard(r, coming, closed)
  BY Zenon DEF NodeInv, Heard, Moved
<1>2. StateRight(r)
  BY Zenon DEF NodeInv, StateRight, Moved
<1>3. ThrowsRight(r)
  BY Zenon DEF ThrowsRight, Moved
<1>4. QED
  BY <1>1, <1>2, <1>3, Zenon DEF NodeInv, Moved

\* No ledger is in flight before the buffered ledgers are applied.
LEMMA NoFlight ==
    ASSUME NEW nd, NEW coming, NEW closed, NodeInv(nd, coming, closed),
           nd.work.phase # "applyBuffered"
    PROVE  nd.work.flight = 0
BY Zenon DEF NodeInv, Heard

\* The range of a catchup that has not yet closed a ledger.
LEMMA EarlyRange ==
    ASSUME NEW nd, NEW coming, NEW closed, NodeInv(nd, coming, closed),
           nd.throws = {}, nd.work.phase \in Early
    PROVE  /\ RangeRight(CatchupRange(nd.work.from, nd.work.to, nd.count), nd.lcl,
                         nd.work.to)
           /\ ~rangeThrows(nd.work.from, nd.work.to, nd.count)
<1>1. /\ nd.lcl \in Nat /\ nd.work.to \in Nat /\ nd.count \in Nat
  BY Zenon DEF NodeInv, Node, Work
<1>2. 2 <= nd.lcl /\ nd.work.from = nd.lcl /\ nd.lcl < nd.work.to
  BY Zenon DEF NodeInv, Heard, WorkRight
<1>3. QED
  BY <1>1, <1>2, Ranges, RangeAccepted, Zenon

\* The ledgers of the range are closed, up to l, while the buffer is ahead of them.
LEMMA RangeMoves ==
    ASSUME NEW nd, NEW coming, NEW closed \in Nat, NodeInv(nd, coming, closed),
           nd.throws = {}, nd.work.phase \in Early \cup {"replay"},
           NEW l \in Nat, nd.lcl <= l, l <= nd.work.to,
           NEW r, NEW p, Moved(r, nd, l, nd.buffered, p, 0), WorkRight(r)
    PROVE  NodeInv(r, coming, closed)
<1>1. /\ nd.lcl \in Nat /\ nd.work.to \in Nat /\ nd.buffered \in SUBSET Nat
      /\ nd.tracking \in Nat
  BY Zenon DEF NodeInv, Node, Work
<1>2. /\ nd.buffered # {} /\ \A i \in nd.buffered : nd.work.to < i
      /\ \A i \in nd.buffered : i <= nd.tracking /\ i \notin coming
      /\ 2 <= nd.lcl /\ nd.tracking <= closed
      /\ nd.tracking \in {nd.lcl, nd.work.flight} \cup nd.buffered
  BY Zenon DEF NodeInv, WorkRight, Heard
<1>3. nd.work.flight = 0
  <2>1. nd.work.phase # "applyBuffered"
    BY Zenon DEF Early
  <2>2. QED
    BY <2>1, NoFlight, Zenon
<1>4. \A i \in nd.buffered : l < i
  BY <1>1, <1>2
<1>5. nd.tracking \in nd.buffered /\ l <= nd.tracking /\ 2 <= l
  <2>1. PICK i \in nd.buffered : nd.work.to < i /\ i <= nd.tracking /\ i \in Nat
    BY <1>1, <1>2, Zenon
  <2>2. nd.lcl < nd.tracking /\ l <= nd.tracking
    BY <1>1, <2>1
  <2>3. QED
    BY <1>1, <1>2, <1>3, <2>2
<1>6. Heard(r, coming, closed)
  BY <1>2, <1>4, <1>5, Zenon DEF Heard, Moved
<1>7. StateRight(r)
  <2>1. nd.state # "SYNCED"
    <3>1. nd.work.phase \notin {"sequenceDone", "applyBuffered"}
      BY Zenon DEF Early
    <3>2. QED
      BY <1>2, <3>1, Zenon DEF NodeInv, StateRight
  <2>2. QED
    BY <2>1, Zenon DEF StateRight, Moved
<1>8. ThrowsRight(r)
  BY Zenon DEF ThrowsRight, Moved
<1>9. QED
  BY <1>6, <1>7, <1>8, Zenon DEF NodeInv, Moved

\* ApplyBufferedLedgersWork looks at the buffer.
LEMMA TakeBufferedRight ==
    ASSUME NEW nd, NEW coming, NEW closed, NodeInv(nd, coming, closed),
           nd.throws = {}, nd.work.phase = "applyBuffered", nd.work.flight = 0
    PROVE  NodeInv(takeBuffered(nd), coming, closed) /\ takeBuffered(nd).lcl = nd.lcl
<1> DEFINE r == takeBuffered(nd)
           m == Min(nd.buffered)
<1>1. /\ nd \in Node /\ nd.lcl \in Nat /\ nd.buffered \in SUBSET Nat
      /\ nd.work \in Work /\ nd.work.to \in Nat
  BY Zenon DEF NodeInv, Node, Work
<1>2. nd.work.to <= nd.lcl
  BY Zenon DEF NodeInv, WorkRight
<1>3. "sequenceDone" \in Phases /\ "gap" \in Phases
  BY Zenon DEF Phases
<1>4. CASE nd.buffered = {}
  <2>1. r = [nd EXCEPT !.work.phase = "sequenceDone"]
    BY <1>4, Zenon DEF takeBuffered, hasBufferedLedger
  <2>2. Moved(r, nd, nd.lcl, nd.buffered, "sequenceDone", 0)
    BY <1>1, <1>3, <2>1, PhaseFields, Zenon
  <2> HIDE DEF r
  <2>3. WorkRight(r)
    BY <1>2, <2>2, Zenon DEF WorkRight, Moved, Early
  <2>4. QED
    BY <1>4, <2>2, <2>3, PhaseMoves, Zenon DEF r
<1>5. CASE nd.buffered # {} /\ m # nd.lcl + 1
  <2>1. r = [nd EXCEPT !.work.phase = "gap"]
    BY <1>5, Zenon DEF takeBuffered, hasBufferedLedger
  <2>2. Moved(r, nd, nd.lcl, nd.buffered, "gap", 0)
    BY <1>1, <1>3, <2>1, PhaseFields, Zenon
  <2>3. nd.state # "SYNCED"
    <3>1. SUFFICES ASSUME nd.state = "SYNCED" PROVE FALSE
      BY Zenon
    <3>2. nd.buffered = {nd.lcl + 1}
      BY <1>5, <3>1, Zenon DEF NodeInv, StateRight
    <3>3. m \in nd.buffered
      BY <1>1, <1>5, MinRight, Zenon
    <3>4. QED
      BY <1>5, <3>2, <3>3, Zenon
  <2> HIDE DEF r
  <2>4. WorkRight(r)
    BY <1>2, <1>5, <2>2, Zenon DEF WorkRight, Moved, Early
  <2>5. QED
    BY <2>2, <2>3, <2>4, PhaseMoves, Zenon DEF r
<1>6. CASE nd.buffered # {} /\ m = nd.lcl + 1
  <2> DEFINE B == nd.buffered \ {m}
             w == [nd.work EXCEPT !.flight = m]
  <2>1. r = [nd EXCEPT !.work = w, !.buffered = B]
    BY <1>6, Zenon DEF takeBuffered, hasBufferedLedger
  <2>2. m \in nd.buffered /\ m \in Nat /\ m # 0
    BY <1>1, <1>6, MinRight
  <2> HIDE DEF m
  <2>3. /\ w \in Work
        /\ w.phase = "applyBuffered" /\ w.from = nd.work.from /\ w.to = nd.work.to
        /\ w.flight = m
    BY <1>1, <2>2, Zenon DEF Work
  <2>4. B \in SUBSET Nat
    BY <1>1, Zenon
  <2> HIDE DEF w, B, r
  <2>5. /\ r \in Node
        /\ r.lcl = nd.lcl /\ r.count = nd.count /\ r.state = nd.state
        /\ r.buffered = B /\ r.work = w /\ r.tracking = nd.tracking /\ r.throws = {}
    BY <1>1, <2>1, <2>3, <2>4, Zenon DEF Node
  <2>6. Heard(r, coming, closed)
    <3>1. /\ 2 <= nd.lcl /\ nd.lcl <= nd.tracking /\ nd.tracking <= closed
          /\ \A i \in nd.buffered : nd.lcl < i /\ i <= nd.tracking /\ i \notin coming
          /\ nd.tracking \in {nd.lcl, 0} \cup nd.buffered
      BY Zenon DEF NodeInv, Heard
    <3>2. nd.tracking # 0
      BY <1>1, <3>1 DEF NodeInv, Node
    <3>3. nd.tracking \in {nd.lcl, m} \cup B
      BY <3>1, <3>2, Zenon DEF B
    <3>4. m <= nd.tracking /\ m \notin coming /\ m \notin B
      BY <2>2, <3>1, Zenon DEF B
    <3>5. \A i \in B : nd.lcl < i /\ i <= nd.tracking /\ i \notin coming
      BY <3>1, Zenon DEF B
    <3>6. QED
      BY <1>6, <2>3, <2>5, <3>1, <3>3, <3>4, <3>5, Zenon DEF Heard
  <2>7. WorkRight(r)
    BY <1>2, <2>3, <2>5, Zenon DEF WorkRight, Early
  <2>8. StateRight(r)
    <3>1. SUFFICES ASSUME nd.state = "SYNCED" PROVE B = {}
      BY <2>5, Zenon DEF StateRight
    <3>2. nd.buffered = {nd.lcl + 1}
      BY <1>6, <3>1, Zenon DEF NodeInv, StateRight
    <3>3. QED
      BY <1>6, <3>2, Zenon DEF B
  <2>9. ThrowsRight(r)
    BY <2>5, Zenon DEF ThrowsRight
  <2>10. QED
    BY <2>5, <2>6, <2>7, <2>8, <2>9, Zenon DEF NodeInv, r
<1>7. QED
  BY <1>4, <1>5, <1>6, Zenon

\* The ledger in flight closes.
LEMMA FlightCloses ==
    ASSUME NEW nd, NEW coming, NEW closed, NodeInv(nd, coming, closed),
           nd.throws = {}, nd.work.phase = "applyBuffered", nd.work.flight # 0
    PROVE  LET c == [closeLedger(nd, nd.work.flight) EXCEPT !.work.flight = 0]
           IN  /\ NodeInv(c, coming, closed)
               /\ c.lcl = nd.lcl + 1
               /\ c.throws = {}
               /\ c.work.phase = "applyBuffered"
               /\ c.work.flight = 0
<1> DEFINE f == nd.work.flight
           r == [closeLedger(nd, f) EXCEPT !.work.flight = 0]
           w == [nd.work EXCEPT !.flight = 0]
           m == [nd EXCEPT !.lcl = f]
<1>1. /\ nd \in Node /\ nd.lcl \in Nat /\ nd.buffered \in SUBSET Nat
      /\ nd.work \in Work /\ nd.work.to \in Nat /\ f \in Nat /\ nd.tracking \in Nat
  BY Zenon DEF NodeInv, Node, Work
<1>2. /\ f = nd.lcl + 1 /\ f <= nd.tracking /\ f \notin nd.buffered
      /\ 2 <= nd.lcl /\ nd.tracking <= closed
      /\ \A i \in nd.buffered : nd.lcl < i /\ i <= nd.tracking /\ i \notin coming
      /\ nd.tracking \in {nd.lcl, f} \cup nd.buffered
  BY Zenon DEF NodeInv, Heard
<1>3. nd.work.to <= nd.lcl
  BY Zenon DEF NodeInv, WorkRight
<1>4. /\ w \in Work
      /\ w.phase = "applyBuffered" /\ w.from = nd.work.from /\ w.to = nd.work.to
      /\ w.flight = 0
  BY <1>1, Zenon DEF Work
<1>5. closeLedger(nd, f) = m
  BY <1>2, Zenon DEF closeLedger
<1>6. /\ m \in Node /\ m.lcl = f /\ m.count = nd.count /\ m.state = nd.state
      /\ m.buffered = nd.buffered /\ m.work = nd.work /\ m.tracking = nd.tracking
      /\ m.throws = {}
  BY <1>1, Zenon DEF Node
<1> HIDE DEF m, w
<1>7. r = [m EXCEPT !.work = w]
  BY <1>5, <1>6, Zenon DEF w
<1> HIDE DEF r, f
<1>8. /\ r \in Node /\ r.lcl = f /\ r.count = nd.count /\ r.state = nd.state
      /\ r.buffered = nd.buffered /\ r.work = w /\ r.tracking = nd.tracking
      /\ r.throws = {}
  BY <1>4, <1>6, <1>7, Zenon DEF Node
<1>9. Heard(r, coming, closed)
  <2>1. \A i \in nd.buffered : f < i
    BY <1>1, <1>2
  <2>2. nd.tracking # nd.lcl /\ 2 <= f
    BY <1>1, <1>2
  <2>3. QED
    BY <1>2, <1>4, <1>8, <2>1, <2>2, Zenon DEF Heard
<1>10. WorkRight(r)
  <2>1. nd.work.to <= f
    BY <1>1, <1>2, <1>3
  <2>2. QED
    BY <1>4, <1>8, <2>1, Zenon DEF WorkRight, Early
<1>11. StateRight(r)
  <2>1. nd.state = "SYNCED" => nd.buffered = {}
    BY Zenon DEF NodeInv, StateRight
  <2>2. QED
    BY <1>8, <2>1, Zenon DEF StateRight
<1>12. ThrowsRight(r)
  BY <1>8, Zenon DEF ThrowsRight
<1>13. QED
  BY <1>2, <1>4, <1>8, <1>9, <1>10, <1>11, <1>12, Zenon DEF NodeInv, r, f

\* What a step of a catchup may do to the LCL.
LclMoves(nd, next) ==
    \/ next.lcl \in {nd.lcl, nd.lcl + 1}
    \/ /\ nd.lcl = GENESIS_LEDGER_SEQ + 1
       /\ next.lcl > nd.lcl
       /\ next.lcl <= nd.work.to

StepRight(nd, next, coming, closed) ==
    NodeInv(next, coming, closed) /\ LclMoves(nd, next)

LEMMA GetStateRight ==
    ASSUME NEW coming, NEW closed, NodeInv(node, coming, closed),
           node.throws = {}, GetState
    PROVE  StepRight(node, node', coming, closed)
<1> DEFINE p == IF catchupRange.buckets \in
                       {0, checkpointContainingLedger(node.work.to)}
                  THEN "getLedgers" ELSE "getBucketState"
<1>1. node \in Node /\ node.work.phase = "getState"
  BY Zenon DEF NodeInv, GetState
<1>2. node.work.phase \in Early /\ p \in Early /\ p \in Phases
      /\ p \notin {"applyBuckets", "applied"}
  BY <1>1, Zenon DEF Early, Phases
<1>3. ~rangeThrows(node.work.from, node.work.to, node.count)
  BY <1>2, EarlyRange, Zenon
<1> HIDE DEF p
<1>4. node' = [node EXCEPT !.throws = {} \cup {}, !.work.phase = p]
  BY <1>3, Zenon DEF GetState, Throw, p
<1>5. node' = [node EXCEPT !.work.phase = p]
  <2>1. {} \cup {} = {}
    BY Zenon
  <2>2. [node EXCEPT !.throws = {}] = node
    BY <1>1, Zenon DEF Node
  <2>3. QED
    BY <1>4, <2>1, <2>2, Zenon
<1>6. node.work.flight = 0
  BY <1>1, NoFlight, Zenon
<1>7. Moved(node', node, node.lcl, node.buffered, p, 0)
  BY <1>1, <1>2, <1>5, <1>6, PhaseFields, Zenon
<1>8. WorkRight(node')
  BY <1>1, <1>2, <1>7, Zenon DEF WorkRight, Moved, NodeInv, Early
<1>9. QED
  BY <1>1, <1>6, <1>7, <1>8, PhaseMoves, Zenon DEF StepRight, LclMoves

LEMMA GetBucketStateRight ==
    ASSUME NEW coming, NEW closed, NodeInv(node, coming, closed),
           node.throws = {}, GetBucketState
    PROVE  StepRight(node, node', coming, closed)
<1>1. /\ node \in Node /\ node.work.phase = "getBucketState"
      /\ node' = [node EXCEPT !.work.phase = "getLedgers"]
  BY Zenon DEF NodeInv, GetBucketState, Phase
<1>2. "getLedgers" \in Phases
  BY Zenon DEF Phases
<1>3. node.work.flight = 0
  BY <1>1, NoFlight, Zenon
<1>4. Moved(node', node, node.lcl, node.buffered, "getLedgers", 0)
  BY <1>1, <1>2, <1>3, PhaseFields, Zenon
<1>5. WorkRight(node')
  BY <1>1, <1>4, Zenon DEF WorkRight, Moved, NodeInv, Early
<1>6. QED
  BY <1>1, <1>3, <1>4, <1>5, PhaseMoves, Zenon DEF StepRight, LclMoves

LEMMA GetLedgersRight ==
    ASSUME NEW coming, NEW closed, NodeInv(node, coming, closed),
           node.throws = {}, GetLedgers
    PROVE  StepRight(node, node', coming, closed)
<1> DEFINE p == IF catchupRange.buckets # 0 THEN "applyBuckets" ELSE "replay"
<1>1. node \in Node /\ node.work.phase = "getLedgers"
  BY Zenon DEF NodeInv, GetLedgers
<1>2. node.work.phase \in Early /\ p \in Phases
  BY <1>1, Zenon DEF Early, Phases
<1>3. RangeRight(catchupRange, node.lcl, node.work.to)
  BY <1>2, EarlyRange, Zenon DEF catchupRange
<1>4. ~(/\ catchupRange.buckets # 0
        /\ \/ ~isLastLedgerInCheckpoint(catchupRange.buckets)
           \/ catchupRange.buckets < node.lcl)
  <2>1. node.lcl \in Nat
    BY <1>1, Zenon DEF Node
  <2>2. QED
    BY <1>3, <2>1 DEF RangeRight
<1>5. node' = [node EXCEPT !.throws = {} \cup {}, !.work.phase = p]
  BY <1>4, Zenon DEF GetLedgers, Throw
<1> HIDE DEF p
<1>6. node' = [node EXCEPT !.work.phase = p]
  <2>1. {} \cup {} = {}
    BY Zenon
  <2>2. [node EXCEPT !.throws = {}] = node
    BY <1>1, Zenon DEF Node
  <2>3. QED
    BY <1>5, <2>1, <2>2, Zenon
<1>7. node.work.flight = 0
  BY <1>1, NoFlight, Zenon
<1>8. Moved(node', node, node.lcl, node.buffered, p, 0)
  BY <1>1, <1>2, <1>6, <1>7, PhaseFields, Zenon
<1>9. WorkRight(node')
  <2>1. catchupRange = CatchupRange(node'.work.from, node'.work.to, node'.count)
    BY <1>8, Zenon DEF Moved, catchupRange
  <2>2. catchupRange.buckets = 0 => catchupRange.first \in 0 .. node.lcl + 1
    BY <1>1, <1>3 DEF RangeRight, Node
  <2>3. /\ node.buffered # {} /\ \A n \in node.buffered : node.work.to < n
        /\ node.work.from = node.lcl /\ node.lcl < node.work.to
    BY <1>2, Zenon DEF NodeInv, WorkRight
  <2>4. CASE catchupRange.buckets # 0
    <3>1. p = "applyBuckets"
      BY <2>4, Zenon DEF p
    <3>2. QED
      BY <1>8, <2>1, <2>3, <2>4, <3>1, Zenon DEF WorkRight, Moved, Early
  <2>5. CASE catchupRange.buckets = 0
    <3>1. p = "replay"
      BY <2>5, Zenon DEF p
    <3>2. QED
      BY <1>8, <2>1, <2>2, <2>3, <2>5, <3>1, Zenon DEF WorkRight, Moved, Early
  <2>6. QED
    BY <2>4, <2>5, Zenon
<1>10. QED
  BY <1>1, <1>7, <1>8, <1>9, PhaseMoves, Zenon DEF StepRight, LclMoves

LEMMA ApplyBucketsRight ==
    ASSUME NEW coming, NEW closed, NodeInv(node, coming, closed),
           node.throws = {}, ApplyBuckets
    PROVE  StepRight(node, node', coming, closed)
<1>1. /\ node \in Node /\ node.work.phase = "applyBuckets"
      /\ node' = [node EXCEPT !.work.phase = "applied"]
  BY Zenon DEF NodeInv, ApplyBuckets, Phase
<1>2. "applied" \in Phases
  BY Zenon DEF Phases
<1>3. node.work.flight = 0
  BY <1>1, NoFlight, Zenon
<1>4. Moved(node', node, node.lcl, node.buffered, "applied", 0)
  BY <1>1, <1>2, <1>3, PhaseFields, Zenon
<1>5. WorkRight(node')
  BY <1>1, <1>4, Zenon DEF WorkRight, Moved, NodeInv, Early
<1>6. QED
  BY <1>1, <1>3, <1>4, <1>5, PhaseMoves, Zenon DEF StepRight, LclMoves

LEMMA SetLastClosedLedgerRight ==
    ASSUME NEW coming, NEW closed \in Nat, NodeInv(node, coming, closed),
           node.throws = {}, SetLastClosedLedger
    PROVE  StepRight(node, node', coming, closed)
<1> DEFINE l == catchupRange.buckets
           p == IF catchupRange.count # 0 THEN "replay" ELSE "sequenceDone"
<1>1. /\ node \in Node /\ node.work.phase = "applied"
      /\ node' = [node EXCEPT !.lcl = l, !.work.phase = p]
  BY Zenon DEF NodeInv, SetLastClosedLedger
<1>2. node.work.phase \in Early /\ p \in Phases
  BY <1>1, Zenon DEF Early, Phases
<1>3. RangeRight(catchupRange, node.lcl, node.work.to) /\ l # 0
  <2>1. RangeRight(catchupRange, node.lcl, node.work.to)
    BY <1>2, EarlyRange, Zenon DEF catchupRange
  <2>2. l # 0
    BY <1>1, Zenon DEF NodeInv, WorkRight, catchupRange
  <2>3. QED
    BY <2>1, <2>2, Zenon
<1>4. node.work.flight = 0
  BY <1>1, NoFlight, Zenon
<1>5. /\ l \in Nat /\ node.lcl <= l /\ l <= node.work.to /\ node.lcl = 2
      /\ catchupRange.count # 0 => l < node.work.to /\ catchupRange.first = l + 1
      /\ catchupRange.count = 0 => l = node.work.to
  <2>1. node.work.to \in Nat
    BY <1>1, Zenon DEF Node, Work
  <2>2. QED
    BY <1>3, <2>1 DEF RangeRight
<1> HIDE DEF l, p
<1>6. Moved(node', node, l, node.buffered, p, 0)
  BY <1>1, <1>2, <1>4, <1>5, LclFields, Zenon
<1>7. /\ node.buffered # {} /\ \A n \in node.buffered : node.work.to < n
  BY <1>2, Zenon DEF NodeInv, WorkRight
<1>8. WorkRight(node')
  <2>1. catchupRange = CatchupRange(node'.work.from, node'.work.to, node'.count)
    BY <1>6, Zenon DEF Moved, catchupRange
  <2>2. CASE catchupRange.count # 0
    <3>1. p = "replay"
      BY <2>2, Zenon DEF p
    <3>2. catchupRange.first \in 0 .. l + 1
      BY <1>5, <2>2
    <3>3. QED
      BY <1>5, <1>6, <1>7, <2>1, <2>2, <3>1, <3>2, Zenon DEF WorkRight, Moved, Early
  <2>3. CASE catchupRange.count = 0
    <3>1. p = "sequenceDone"
      BY <2>3, Zenon DEF p
    <3>2. node.work.to <= l
      BY <1>5, <2>3, Zenon
    <3>3. QED
      BY <1>6, <3>1, <3>2, Zenon DEF WorkRight, Moved, Early
  <2>4. QED
    BY <2>2, <2>3, Zenon
<1>9. NodeInv(node', coming, closed)
  <2>1. node.work.phase \in Early \cup {"replay"}
    BY <1>2, Zenon
  <2>2. QED
    BY <1>5, <1>6, <1>8, <2>1, RangeMoves, Zenon
<1>10. LclMoves(node, node')
  <2>1. node'.lcl = l
    BY <1>6, Zenon DEF Moved
  <2>2. QED
    BY <1>1, <1>5, <2>1 DEF LclMoves, GENESIS_LEDGER_SEQ
<1>11. QED
  BY <1>9, <1>10, Zenon DEF StepRight

LEMMA ReplayRight ==
    ASSUME NEW coming, NEW closed \in Nat, NodeInv(node, coming, closed),
           node.throws = {}, Replay
    PROVE  StepRight(node, node', coming, closed)
<1> DEFINE l == node.lcl + 1
           p == IF l < node.work.to THEN "replay" ELSE "sequenceDone"
           n == Max({node.lcl + 1, catchupRange.first})
<1>1. /\ node \in Node /\ node.work.phase = "replay"
      /\ node' = [closeLedger(node, n) EXCEPT
                     !.work.phase = IF n < node.work.to THEN "replay"
                                    ELSE "sequenceDone"]
  BY Zenon DEF NodeInv, Replay
<1>2. /\ node.lcl \in Nat /\ node.work.to \in Nat /\ node.work.from \in Nat
      /\ node.count \in Nat
  BY <1>1, Zenon DEF Node, Work
<1>3. /\ node.lcl < node.work.to /\ catchupRange.first \in 0 .. l
      /\ node.buffered # {} /\ \A i \in node.buffered : node.work.to < i
  <2>1. node.work.phase \in Early \cup {"replay"}
    BY <1>1, Zenon
  <2>2. QED
    BY <1>1, <2>1, Zenon DEF NodeInv, WorkRight, catchupRange
<1>4. n = l
  <2>1. l \in {l, catchupRange.first} /\ \A y \in {l, catchupRange.first} : l >= y
    BY <1>2, <1>3
  <2>2. \A x \in {l, catchupRange.first} :
           (\A y \in {l, catchupRange.first} : x >= y) => x = l
    <3>1. SUFFICES ASSUME catchupRange.first >= l PROVE catchupRange.first = l
      BY Zenon
    <3>2. QED
      BY <1>2, <1>3, <3>1
  <2>3. QED
    BY <2>1, <2>2, Zenon DEF Max
<1>5. node' = [node EXCEPT !.lcl = l, !.work.phase = p]
  BY <1>1, <1>4, Zenon DEF closeLedger
<1>6. p \in Phases
  BY Zenon DEF Phases
<1>7. node.work.flight = 0
  BY <1>1, NoFlight, Zenon
<1>8. l \in Nat /\ node.lcl <= l /\ l <= node.work.to
  BY <1>2, <1>3
<1> HIDE DEF l, p
<1>9. Moved(node', node, l, node.buffered, p, 0)
  <2>1. node \in Node /\ l \in Nat
    BY <1>1, <1>8, Zenon
  <2>2. QED
    BY <1>5, <1>6, <1>7, <2>1, LclFields, Zenon
<1>10. WorkRight(node')
  <2>1. catchupRange = CatchupRange(node'.work.from, node'.work.to, node'.count)
    BY <1>9, Zenon DEF Moved, catchupRange
  <2>2. CASE l < node.work.to
    <3>1. p = "replay"
      BY <2>2, Zenon DEF p
    <3>2. catchupRange.first \in 0 .. l + 1
      BY <1>2, <1>3, <1>8
    <3>3. QED
      BY <1>3, <1>9, <2>1, <2>2, <3>1, <3>2, Zenon DEF WorkRight, Moved, Early
  <2>3. CASE ~(l < node.work.to)
    <3>1. p = "sequenceDone"
      BY <2>3, Zenon DEF p
    <3>2. node.work.to <= l
      BY <1>2, <1>8, <2>3
    <3>3. QED
      BY <1>9, <3>1, <3>2, Zenon DEF WorkRight, Moved, Early
  <2>4. QED
    BY <2>2, <2>3, Zenon
<1>11. NodeInv(node', coming, closed)
  <2>1. node.work.phase \in Early \cup {"replay"}
    BY <1>1, Zenon
  <2>2. QED
    BY <1>8, <1>9, <1>10, <2>1, RangeMoves, Zenon
<1>12. QED
  BY <1>9, <1>11, Zenon DEF StepRight, LclMoves, Moved, l

LEMMA FinishOrApplyRight ==
    ASSUME NEW coming, NEW closed, NodeInv(node, coming, closed),
           node.throws = {}, FinishOrApply
    PROVE  StepRight(node, node', coming, closed)
<1> DEFINE p == IF hasBufferedLedger(node) THEN "applyBuffered" ELSE "SUCCESS"
<1>1. /\ node \in Node /\ node.work.phase = "sequenceDone"
      /\ node' = [node EXCEPT !.work.phase = p]
  BY Zenon DEF NodeInv, FinishOrApply
<1>2. p \in Phases
  BY Zenon DEF Phases
<1>3. node.work.flight = 0
  BY <1>1, NoFlight, Zenon
<1> HIDE DEF p
<1>4. Moved(node', node, node.lcl, node.buffered, p, 0)
  BY <1>1, <1>2, <1>3, PhaseFields, Zenon
<1>5. p = "applyBuffered" \/ (p = "SUCCESS" /\ node.buffered = {})
  BY Zenon DEF p, hasBufferedLedger
<1>6. WorkRight(node')
  BY <1>1, <1>4, <1>5, Zenon DEF WorkRight, Moved, NodeInv, Early
<1>7. QED
  BY <1>1, <1>3, <1>4, <1>5, <1>6, PhaseMoves, Zenon DEF StepRight, LclMoves

LEMMA GiveUpRight ==
    ASSUME NEW coming, NEW closed, NodeInv(node, coming, closed),
           node.throws = {}, GiveUp
    PROVE  StepRight(node, node', coming, closed)
<1>1. /\ node \in Node /\ node.work.phase = "gap"
      /\ node' = [node EXCEPT !.work.phase = "FAILURE"]
  BY Zenon DEF NodeInv, GiveUp, Phase
<1>2. "FAILURE" \in Phases
  BY Zenon DEF Phases
<1>3. node.work.flight = 0
  BY <1>1, NoFlight, Zenon
<1>4. Moved(node', node, node.lcl, node.buffered, "FAILURE", 0)
  BY <1>1, <1>2, <1>3, PhaseFields, Zenon
<1>5. WorkRight(node')
  BY <1>1, <1>4, Zenon DEF WorkRight, Moved, NodeInv, Early
<1>6. QED
  BY <1>1, <1>3, <1>4, <1>5, PhaseMoves, Zenon DEF StepRight, LclMoves

LEMMA CatchupStepRight ==
    ASSUME NEW coming, NEW closed \in Nat, NodeInv(node, coming, closed), CatchupStep
    PROVE  StepRight(node, node', coming, closed)
<1>1. node.throws = {}
  BY Zenon DEF CatchupStep
<1>2. CASE TakeBuffered
  <2>1. /\ node.work.phase = "applyBuffered"
        /\ node.work.flight = 0
        /\ node' = takeBuffered(node)
    BY <1>2, Zenon DEF TakeBuffered
  <2>2. QED
    BY <1>1, <2>1, TakeBufferedRight, Zenon DEF StepRight, LclMoves
<1>3. CASE CloseBuffered
  <2> DEFINE c == [closeLedger(node, node.work.flight) EXCEPT !.work.flight = 0]
  <2>1. /\ node.work.phase = "applyBuffered"
        /\ node.work.flight # 0
        /\ node' = takeBuffered(c)
    BY <1>3, Zenon DEF CloseBuffered
  <2>2. /\ NodeInv(c, coming, closed)
        /\ c.lcl = node.lcl + 1
        /\ c.throws = {}
        /\ c.work.phase = "applyBuffered"
        /\ c.work.flight = 0
    BY <1>1, <2>1, FlightCloses, Zenon
  <2> HIDE DEF c
  <2>3. NodeInv(node', coming, closed) /\ node'.lcl = c.lcl
    BY <2>1, <2>2, TakeBufferedRight, Zenon
  <2>4. QED
    BY <2>2, <2>3, Zenon DEF StepRight, LclMoves
<1>4. QED
  BY <1>1, <1>2, <1>3, GetStateRight, GetBucketStateRight, GetLedgersRight,
     ApplyBucketsRight, SetLastClosedLedgerRight, ReplayRight, FinishOrApplyRight,
     GiveUpRight, Zenon
  DEF CatchupStep

LEMMA ArchiveFailsRight ==
    ASSUME NEW coming, NEW closed, NodeInv(node, coming, closed), ArchiveFails
    PROVE  StepRight(node, node', coming, closed)
<1>1. /\ node \in Node
      /\ node.work.phase \in
             {"getState", "getBucketState", "getLedgers", "applyBuckets", "replay"}
      /\ node' = [node EXCEPT !.work.phase = "FAILURE"]
      /\ node.throws = {}
  BY Zenon DEF NodeInv, ArchiveFails
<1>2. "FAILURE" \in Phases
  BY Zenon DEF Phases
<1>3. node.work.phase \notin {"sequenceDone", "applyBuffered"}
  BY <1>1, Zenon
<1>4. node.work.flight = 0
  BY <1>3, NoFlight, Zenon
<1>5. Moved(node', node, node.lcl, node.buffered, "FAILURE", 0)
  BY <1>1, <1>2, <1>4, PhaseFields, Zenon
<1>6. WorkRight(node')
  BY <1>1, <1>5, Zenon DEF WorkRight, Moved, NodeInv, Early
<1>7. NodeInv(node', coming, closed) /\ node'.lcl = node.lcl
  BY <1>1, <1>3, <1>4, <1>5, <1>6, PhaseMoves, Zenon
<1>8. QED
  BY <1>7, Zenon DEF StepRight, LclMoves

\* A node that starts knows its LCL.
LEMMA StartedRight ==
    ASSUME NEW lcl \in Nat, NEW count \in Nat, 2 <= lcl, NEW coming,
           NEW closed \in Nat, lcl <= closed
    PROVE  NodeInv(Started(lcl, count), coming, closed)
<1> DEFINE r == Started(lcl, count)
<1>1. /\ NoWork \in Work /\ NoWork.phase = "none" /\ NoWork.flight = 0
  BY Zenon DEF NoWork, Work, Phases
<1>2. /\ r \in Node
      /\ r.lcl = lcl /\ r.state = "BOOTING" /\ r.buffered = {} /\ r.work = NoWork
      /\ r.tracking = lcl /\ r.throws = {}
  BY <1>1, Zenon DEF Started, Node, Thrown
<1> HIDE DEF r
<1>3. lcl <= lcl
  OBVIOUS
<1>4. Heard(r, coming, closed)
  BY <1>1, <1>2, <1>3, Zenon DEF Heard
<1>5. WorkRight(r)
  BY <1>1, <1>2, Zenon DEF WorkRight, Early
<1>6. StateRight(r) /\ ThrowsRight(r)
  BY <1>2, Zenon DEF StateRight, ThrowsRight
<1>7. QED
  BY <1>2, <1>4, <1>5, <1>6, Zenon DEF NodeInv, r

\* What is still to come may change where the node has nothing.
LEMMA ComingChanges ==
    ASSUME NEW nd, NEW coming, NEW closed \in Nat, NodeInv(nd, coming, closed),
           NEW coming2, NEW closed2 \in Nat, closed <= closed2,
           coming2 \subseteq coming \cup {closed2},
           closed2 \in coming2 \ coming => closed2 = closed + 1
    PROVE  NodeInv(nd, coming2, closed2)
<1>1. /\ nd.buffered \in SUBSET Nat /\ nd.tracking \in Nat /\ nd.work.flight \in Nat
  BY Zenon DEF NodeInv, Node, Work
<1>2. nd.tracking <= closed
  BY Zenon DEF NodeInv, Heard
<1>3. ASSUME NEW i \in Nat, i <= nd.tracking, i \notin coming
      PROVE  i \notin coming2
  <2>1. SUFFICES ASSUME i \in coming2 PROVE FALSE
    BY Zenon
  <2>2. i = closed2 /\ closed2 = closed + 1
    BY <1>3, <2>1, Zenon
  <2>3. QED
    BY <1>1, <1>2, <1>3, <2>2
<1>4. nd.tracking <= closed2
  BY <1>1, <1>2
<1>5. Heard(nd, coming2, closed2)
  <2>1. \A n \in nd.buffered : nd.lcl < n /\ n <= nd.tracking /\ n \notin coming2
    <3>1. TAKE n \in nd.buffered
    <3>2. nd.lcl < n /\ n <= nd.tracking /\ n \notin coming /\ n \in Nat
      BY <1>1, <3>1, Zenon DEF NodeInv, Heard
    <3>3. QED
      BY <1>3, <3>2, Zenon
  <2>2. nd.work.flight # 0 => nd.work.flight \notin coming2
    <3>1. SUFFICES ASSUME nd.work.flight # 0 PROVE nd.work.flight \notin coming2
      BY Zenon
    <3>2. nd.work.flight <= nd.tracking /\ nd.work.flight \notin coming
      BY <3>1, Zenon DEF NodeInv, Heard
    <3>3. QED
      BY <1>1, <1>3, <3>2, Zenon
  <2>3. QED
    BY <1>4, <2>1, <2>2, Zenon DEF NodeInv, Heard
<1>6. QED
  BY <1>5, Zenon DEF NodeInv

-----------------------------------------------------------------------------
(* The theorems.                                                               *)

\* What any step may do to the LCL.
LclInOrder ==
    \/ node'.lcl \in {node.lcl, node.lcl + 1}
    \/ ~running(node) /\ node.lcl + 1 .. node'.lcl \subseteq
                             node.buffered \cup network.coming
    \/ node.lcl = GENESIS_LEDGER_SEQ + 1 /\ node'.lcl > node.lcl
       /\ node'.lcl \leq node.work.to

LEMMA InitRight == Init => CatchupInv
<1>1. SUFFICES ASSUME Init PROVE CatchupInv
  BY Zenon
<1>2. PICK lcl \in InitialLcl, count \in Counts :
         /\ node = Started(lcl, count)
         /\ network = [closed |-> lcl, coming |-> {}]
  BY <1>1, Zenon DEF Init
<1>3. lcl \in Nat /\ count \in Nat /\ 2 <= lcl /\ lcl <= lcl
  BY CatchupAssumption
<1>4. network.closed = lcl /\ network.coming = {}
  BY <1>2, Zenon
<1>5. NodeInv(node, network.coming, network.closed)
  BY <1>2, <1>3, <1>4, StartedRight, Zenon
<1>6. QED
  BY <1>2, <1>3, <1>4, <1>5, Zenon DEF CatchupInv

LEMMA ExternalizeRight ==
    ASSUME CatchupInv, NEW n \in network.coming, Externalize(n)
    PROVE  CatchupInv' /\ LclInOrder
<1>1. /\ node' = externalized(node, n)
      /\ network' = [network EXCEPT !.coming = network.coming \ {n}]
      /\ node.throws = {}
  BY Zenon DEF Externalize, externalized
<1>2. /\ network.closed \in Nat
      /\ network.coming \subseteq Int
      /\ network = [closed |-> network.closed, coming |-> network.coming]
      /\ \A i \in network.coming : i <= network.closed
      /\ NodeInv(node, network.coming, network.closed)
  BY Zenon DEF CatchupInv
<1>3. /\ network'.closed = network.closed
      /\ network'.coming = network.coming \ {n}
      /\ network' = [closed |-> network'.closed, coming |-> network'.coming]
  BY <1>1, <1>2, Zenon
<1>4. n \in Int /\ n <= network.closed
  BY <1>2, Zenon
<1>5. NodeInv(node', network'.coming, network'.closed) /\ LclInOrder
  <2>1. CASE running(node)
    <3>1. /\ NodeInv(node', network.coming \ {n}, network.closed)
          /\ node'.lcl = node.lcl
      BY <1>1, <1>2, <1>4, <2>1, ExternalizeRunning, Zenon
    <3>2. QED
      BY <1>3, <3>1, Zenon DEF LclInOrder
  <2>2. CASE ~running(node)
    <3>1. /\ NodeInv(node', network.coming \ {n}, network.closed)
          /\ node.lcl + 1 .. node'.lcl \subseteq node.buffered \cup {n}
      BY <1>1, <1>2, <1>4, <2>2, ExternalizeIdle, Zenon
    <3>2. node.lcl + 1 .. node'.lcl \subseteq node.buffered \cup network.coming
      BY <3>1, Zenon
    <3>3. QED
      BY <1>3, <2>2, <3>1, <3>2, Zenon DEF LclInOrder
  <2>3. QED
    BY <2>1, <2>2, Zenon
<1>6. QED
  BY <1>2, <1>3, <1>5, Zenon DEF CatchupInv

\* Every step keeps the invariant and moves the LCL in order.
LEMMA NextRight ==
    ASSUME CatchupInv, [Next]_vars
    PROVE  CatchupInv' /\ (LclInOrder \/ UNCHANGED vars)
<1>1. /\ network.closed \in Nat
      /\ network.coming \subseteq Int
      /\ network = [closed |-> network.closed, coming |-> network.coming]
      /\ \A i \in network.coming : i <= network.closed
      /\ NodeInv(node, network.coming, network.closed)
  BY Zenon DEF CatchupInv
<1>2. CASE NetworkCloses
  <2>1. /\ network' = [closed |-> network.closed + 1,
                       coming |-> network.coming \cup {network.closed + 1}]
        /\ node' = node
    BY <1>2, Zenon DEF NetworkCloses
  <2>2. /\ network'.closed = network.closed + 1
        /\ network'.coming = network.coming \cup {network.closed + 1}
    BY <2>1, Zenon
  <2>3. network'.closed \in Nat /\ network.closed <= network'.closed
    BY <1>1, <2>2
  <2>4. \A i \in network'.coming : i \in Int /\ i <= network'.closed
    BY <1>1, <2>2
  <2>5. NodeInv(node, network'.coming, network'.closed)
    BY <1>1, <2>2, <2>3, ComingChanges, Zenon
  <2>6. QED
    BY <2>1, <2>2, <2>3, <2>4, <2>5, Zenon DEF CatchupInv, LclInOrder
<1>3. ASSUME NEW n \in network.coming, Miss(n)
      PROVE  CatchupInv' /\ LclInOrder
  <2>1. /\ network' = [network EXCEPT !.coming = network.coming \ {n}]
        /\ node' = node
    BY <1>3, Zenon DEF Miss
  <2>2. /\ network'.closed = network.closed
        /\ network'.coming = network.coming \ {n}
        /\ network' = [closed |-> network'.closed, coming |-> network'.coming]
    BY <1>1, <2>1, Zenon
  <2>3. network.closed <= network.closed
    BY <1>1
  <2>4. NodeInv(node, network'.coming, network'.closed)
    BY <1>1, <2>2, <2>3, ComingChanges, Zenon
  <2>5. QED
    BY <1>1, <2>1, <2>2, <2>4, Zenon DEF CatchupInv, LclInOrder
<1>4. CASE CatchupStep \/ ArchiveFails
  <2>1. StepRight(node, node', network.coming, network.closed) /\ network' = network
    BY <1>1, <1>4, CatchupStepRight, ArchiveFailsRight, Zenon
    DEF CatchupStep, ArchiveFails
  <2>2. QED
    BY <1>1, <2>1, Zenon DEF CatchupInv, LclInOrder, StepRight, LclMoves
<1>5. CASE Restart
  <2>1. PICK again \in SUBSET (network.closed - Window + 1 .. network.closed) :
           network' = [network EXCEPT !.coming = network.coming \cup again]
    BY <1>5, Zenon DEF Restart
  <2>2. node' = Started(node.lcl, node.count)
    BY <1>5, Zenon DEF Restart
  <2>3. /\ network'.closed = network.closed
        /\ network'.coming = network.coming \cup again
        /\ network' = [closed |-> network'.closed, coming |-> network'.coming]
    BY <1>1, <2>1, Zenon
  <2>4. \A i \in again : i \in Int /\ i <= network.closed
    BY <1>1, CatchupAssumption
  <2>5. /\ node.lcl \in Nat /\ node.count \in Nat /\ 2 <= node.lcl
        /\ node.lcl <= network.closed
    BY <1>1 DEF NodeInv, Node, Heard
  <2>6. NodeInv(node', network'.coming, network'.closed)
    BY <1>1, <2>2, <2>3, <2>5, StartedRight, Zenon
  <2>7. node'.lcl = node.lcl
    BY <2>2, Zenon DEF Started
  <2>8. \A i \in network'.coming : i \in Int /\ i <= network'.closed
    BY <1>1, <2>3, <2>4, Zenon
  <2>9. QED
    BY <1>1, <2>3, <2>6, <2>7, <2>8, Zenon DEF CatchupInv, LclInOrder
<1>6. CASE UNCHANGED vars
  BY <1>1, <1>6, Zenon DEF CatchupInv, vars
<1>7. QED
  BY <1>2, <1>3, <1>4, <1>5, <1>6, ExternalizeRight, Zenon DEF Next

\* The buffer, the catchup and the state that LedgerManager reports stay as the
\* handlers of valueExternalized and of the catchup work expect them.
THEOREM CatchupInvariance == Spec => []CatchupInv
<1>1. CatchupInv /\ [Next]_vars => CatchupInv'
  BY NextRight, Zenon
<1>2. QED
  BY InitRight, <1>1, PTL DEF Spec

\* The assertions of startCatchup, CatchupRange and closeLedger hold, but for the one
\* exception.
THEOREM ThrowsOnlyIfCaughtUpHolds == Spec => []ThrowsOnlyIfCaughtUp
<1>1. CatchupInv => ThrowsOnlyIfCaughtUp
  BY Zenon DEF CatchupInv, NodeInv, ThrowsRight, ThrowsOnlyIfCaughtUp
<1>2. QED
  BY CatchupInvariance, <1>1, PTL

\* Nothing stale is buffered, and a node that says it is in sync is.
THEOREM SyncStateRightHolds == Spec => []SyncStateRight
<1>1. ASSUME CatchupInv PROVE SyncStateRight
  <2>1. NodeInv(node, network.coming, network.closed)
    BY <1>1, Zenon DEF CatchupInv
  <2>2. /\ node.lcl \in Nat /\ node.work \in Work /\ node.work.phase \in Phases
        /\ node.work.to \in Nat /\ node.work.flight \in Nat
        /\ node.buffered \in SUBSET Nat
    BY <2>1, Zenon DEF NodeInv, Node, Work
  <2>3. BufferedAhead
    <3>1. SUFFICES ASSUME NEW n \in node.buffered
                   PROVE  /\ n > node.lcl
                          /\ running(node) => n > node.work.to /\ n > node.work.flight
      BY Zenon DEF BufferedAhead
    <3>2. node.lcl < n /\ n \in Nat
      BY <2>1, <2>2, Zenon DEF NodeInv, Heard
    <3>3. node.work.flight < n
      <4>1. CASE node.work.flight = 0
        BY <2>2, <3>2, <4>1, SMTT(30)
      <4>2. CASE node.work.flight # 0
        <5>1. node.work.flight = node.lcl + 1 /\ node.work.flight # n
          BY <2>1, <4>2, Zenon DEF NodeInv, Heard
        <5>2. QED
          BY <2>2, <3>2, <5>1
      <4>3. QED
        BY <4>1, <4>2, Zenon
    <3>4. ASSUME running(node) PROVE node.work.to < n
      <4>1. node.work.phase \in Early \cup {"replay"}
               \/ node.work.phase \in {"sequenceDone", "applyBuffered", "gap"}
        BY <2>2, <3>4, Zenon
        DEF running, isCatchupInitialized, catchupWorkIsDone, Phases, Early
      <4>2. CASE node.work.phase \in Early \cup {"replay"}
        BY <2>1, <4>2, Zenon DEF NodeInv, WorkRight
      <4>3. CASE node.work.phase \in {"sequenceDone", "applyBuffered", "gap"}
        <5>1. node.work.to <= node.lcl
          BY <2>1, <4>3, Zenon DEF NodeInv, WorkRight
        <5>2. QED
          BY <2>2, <3>2, <5>1
      <4>4. QED
        BY <4>1, <4>2, <4>3, Zenon
    <3>5. QED
      BY <2>2, <3>2, <3>3, <3>4, Zenon
  <2>4. ASSUME node.state = "SYNCED", ~running(node)
        PROVE  node.lcl = node.tracking
    <3>1. node.work.phase \notin {"sequenceDone", "applyBuffered"}
      BY <2>4, Zenon DEF running, isCatchupInitialized, catchupWorkIsDone
    <3>2. node.buffered = {} /\ node.work.flight = 0
      BY <2>1, <2>4, <3>1, Zenon DEF NodeInv, StateRight, Heard
    <3>3. node.tracking \in {node.lcl, 0} /\ node.lcl <= node.tracking /\ 2 <= node.lcl
      BY <2>1, <3>2, Zenon DEF NodeInv, Heard
    <3>4. QED
      BY <2>2, <3>3
  <2>5. QED
    BY <2>3, <2>4, Zenon DEF SyncStateRight
<1>2. CatchupInv => SyncStateRight
  BY <1>1, Zenon
<1>3. QED
  BY CatchupInvariance, <1>2, PTL

\* The LCL never goes back, and skips ledgers only when buckets are applied to a new
\* node.
THEOREM InOrderHolds == Spec => InOrder
<1>1. CatchupInv /\ [Next]_vars => [LclInOrder]_vars
  BY NextRight, Zenon
<1>2. Spec => [][LclInOrder]_vars
  BY CatchupInvariance, <1>1, PTL DEF Spec
<1>3. QED
  BY <1>2, Zenon DEF InOrder, LclInOrder
=============================================================================
