----------------------------- MODULE BucketList -----------------------------
(***************************************************************************)
(* The levels of the bucket list (bucket/BucketList.cpp) and the futures   *)
(* that hold their next state (bucket/FutureBucket.cpp), from protocol 12  *)
(* on, where a merge has no shadows.  A bucket is the set of the ledgers   *)
(* whose changes it holds, which stands for its content and hence for its  *)
(* hash; the empty bucket is {}.  Which entries a merge keeps or drops is  *)
(* left out: the merge of two buckets holds the ledgers of both.           *)
(*                                                                         *)
(* A future is clear, has the two inputs of a merge that may still run, or *)
(* has the merge's output.  The code distinguishes futures that hold       *)
(* buckets from futures that hold only their names; here the same value is *)
(* the former in memory and the latter in a saved state.                   *)
(***************************************************************************)
EXTENDS Integers

CONSTANT NumLevels \* BucketList::kNumLevels

ASSUME NumLevelsAssumption == NumLevels \in Nat \ {0, 1}

LastLevel == NumLevels - 1

Level == 0 .. LastLevel

\* 1 << (2 * (level + 1)): two more bits on every level.
levelSize[level \in Level] == IF level = 0 THEN 4 ELSE 4 * levelSize[level - 1]

levelHalf(level) == levelSize[level] \div 2

\* v rounded down to a multiple of m, a power of two.
mask(v, m) == v - (v % m)

levelShouldSpill(ledger, level) ==
    /\ level # LastLevel
    /\ \/ ledger = mask(ledger, levelHalf(level))
       \/ ledger = mask(ledger, levelSize[level])

\* Whether level's curr will be snapped before the merge started at ledger is
\* committed, so that the merge must leave it out.
shouldMergeWithEmptyCurr(ledger, level) ==
    /\ level # 0
    /\ LET half == levelHalf(level - 1)
       IN levelShouldSpill(mask(ledger, half) + half, level)

-----------------------------------------------------------------------------

FutureClear == [state |-> "clear", curr |-> {}, snap |-> {}, output |-> {}]

FutureInputs(curr, snap) ==
    [state |-> "inputs", curr |-> curr, snap |-> snap, output |-> {}]

FutureOutput(b) == [state |-> "output", curr |-> {}, snap |-> {}, output |-> b]

isMerging(next) == next.state = "inputs"

merge(curr, snap) == curr \cup snap

MergeKey(next) == <<next.curr, next.snap>>

OutputOf(key) == merge(key[1], key[2])

resolve(next) ==
    IF isMerging(next) THEN OutputOf(MergeKey(next)) ELSE next.output

EmptyLevel == [curr |-> {}, snap |-> {}, next |-> FutureClear]

\* The buckets a list names, in its levels and their futures.
allBuckets(list) ==
    (UNION {{list[i].curr, list[i].snap, list[i].next.curr, list[i].next.snap,
             list[i].next.output} : i \in Level}) \ {{}}

prepare(ledger, level, curr, snap) ==
    FutureInputs(IF shouldMergeWithEmptyCurr(ledger, level) THEN {} ELSE curr,
                 snap)

\* Whether level i takes the spill of level i - 1 at ledger.
commits(ledger, i) == i # 0 /\ levelShouldSpill(ledger, i - 1)

\* The list after ledger's changes: from the last level down, a level that
\* spills moves its curr to snap, the level below it commits its future and
\* starts merging that snap; then level 0 takes the new batch.
addBatch(list, ledger) ==
    LET spills(i) == levelShouldSpill(ledger, i)
        afterSnap(i) == IF spills(i) THEN {} ELSE list[i].curr
        afterCommit(i) ==
            IF commits(ledger, i) /\ list[i].next # FutureClear
            THEN resolve(list[i].next)
            ELSE afterSnap(i)
    IN [i \in Level |->
            [curr |-> IF i = 0 THEN merge(afterSnap(0), {ledger})
                               ELSE afterCommit(i),
             snap |-> IF spills(i) THEN list[i].curr ELSE list[i].snap,
             next |-> IF commits(ledger, i)
                      THEN prepare(ledger, i, afterCommit(i), list[i - 1].curr)
                      ELSE list[i].next]]

\* Mutant: merges with the level's own curr also when that is about to be snapped.
restartMergesFull(list, ledger) ==
    [i \in Level |->
        IF i = 0 \/ list[i].next # FutureClear \/ list[i - 1].snap = {}
        THEN list[i]
        ELSE [list[i] EXCEPT
                !.next = FutureInputs(list[i].curr, list[i - 1].snap)]]

\* Restarts the merges of a saved list: a future that has names becomes live;
\* a clear one is recomputed from the snap of the level above, as addBatch
\* did, and the first level that has never had one ends the loop.
restartMerges(list, ledger) ==
    LET untouched(i) ==
            i > 0 /\ list[i].next = FutureClear /\ list[i - 1].snap = {}
    IN [i \in Level |->
            IF \/ i = 0
               \/ list[i].next # FutureClear
               \/ \E j \in 1 .. i : untouched(j)
            THEN list[i]
            ELSE [list[i] EXCEPT
                    !.next = prepare(mask(ledger, levelHalf(i - 1)), i,
                                     list[i].curr, list[i - 1].snap)]]

-----------------------------------------------------------------------------
(* What each level holds, as a function of the ledger.                     *)

Ledger == Nat \ {0}

\* How many ledgers a level's curr holds after each ledger, where above is the number
\* that the levels above it hold together.  A multiple of levelSize is one of levelHalf,
\* so the code's tests with both, and the largest of its four masks, are those with half.
sizeOfCurr(level, above) ==
    LET half == levelHalf(level)
        delta == levelHalf(level - 1)
        size[ledger \in Ledger] ==
            IF level = 0 THEN (IF ledger = 1 THEN 1 ELSE 1 + (ledger % 2))
            ELSE IF level = LastLevel \/ mask(ledger, half) = 0
            THEN ledger - above[ledger]
            ELSE IF mask(ledger, half) = ledger THEN delta
            ELSE size[mask(ledger - 1, delta)]
                    + (IF mask(ledger, delta) = ledger THEN delta ELSE 0)
    IN size

\* And its snap.
sizeOfSnap(level, above, curr) ==
    [ledger \in Ledger |->
        IF level = LastLevel THEN 0
        ELSE IF mask(ledger, levelSize[level]) # 0 THEN levelHalf(level)
        ELSE ledger - (above[ledger] + curr[ledger])]

\* The sizes of a level, and of the levels above it together (the loops).
SizeOf[level \in Level] ==
    LET prev == SizeOf[level - 1]
        above == [ledger \in Ledger |->
                    IF level = 0 THEN 0
                    ELSE prev.above[ledger] + prev.curr[ledger] + prev.snap[ledger]]
        curr == sizeOfCurr(level, above)
    IN [above |-> above, curr |-> curr, snap |-> sizeOfSnap(level, above, curr)]

\* The ledgers of a bucket: up to newest, and as many as size.
Ledgers(newest, size) == (newest - size + 1) .. newest

\* The list that every node has after ledger, with the futures left out, from
\* oldestLedgerInCurr and oldestLedgerInSnap.
ListAt(ledger) ==
    [i \in Level |->
        LET above == SizeOf[i].above[ledger]
            curr == SizeOf[i].curr[ledger]
        IN [curr |-> Ledgers(ledger - above, curr),
            snap |-> Ledgers(ledger - above - curr, SizeOf[i].snap[ledger]),
            next |-> FutureClear]]

=============================================================================
