-------------------------- MODULE CatchupManager --------------------------
(***************************************************************************)
(* How a node that missed ledgers gets back in sync: what LedgerManagerImpl      *)
(* does with an externalized value (valueExternalized), the buffer of            *)
(* src/catchup/CatchupManagerImpl.cpp, and the catchup it starts (CatchupWork,   *)
(* CatchupRange, ApplyBufferedLedgersWork, the replay of checkpoints).           *)
(*                                                                            *)
(*   node.lcl        mLastClosedLedger, which is also in the database            *)
(*   node.count      getCatchupCount(): the configuration                       *)
(*   node.state      LedgerManagerImpl::mState                                  *)
(*   node.buffered   mSyncingLedgers                                            *)
(*   node.work       mCatchupWork: its phase ("none" if there is none), the LCL   *)
(*                   and the target it started with, and the ledger that         *)
(*                   ApplyBufferedLedgersWork took off the buffer and is          *)
(*                   waiting to close (0 if none)                               *)
(*   node.tracking   the Herder's current ledger: the latest slot it heard of     *)
(*   node.throws     the assertions that failed and exceptions thrown, with       *)
(*                   which the process stops                                    *)
(*   network         the last ledger the network closed, and the ledgers of       *)
(*                   which the node has still to hear                           *)
(*                                                                            *)
(* Slots are externalized in any order, each at most once, some never.           *)
(* Faults, that is slots that are lost or late, archives that do not answer and  *)
(* restarts, occur up to ledger LastFault.                                      *)
(***************************************************************************)
EXTENDS Integers, FiniteSetsExt

CONSTANTS
    Freq,           \* getCheckpointFrequency()
    Counts,         \* getCatchupCount(), for each configuration
    InitialLcl,     \* ledgers the node may start from
    LastFault,
    Window,         \* bounds the ledgers the node has still to hear of
    RacingLimit,    \* bounds the ledgers closed while the node catches up
    MaxLedger,      \* bounds the ledgers closed
    MaxRestarts

ASSUME CatchupAssumption ==
    /\ Freq \in Nat \ {0, 1}
    /\ Counts \subseteq Nat
    /\ InitialLcl \subseteq Nat \ {0, 1}
    /\ Window \in Nat

VARIABLES node, network, restarts

vars == <<node, network, restarts>>

GENESIS_LEDGER_SEQ == 1

-----------------------------------------------------------------------------
(* Checkpoints: HistoryManager.h.                                              *)

checkpointContainingLedger(n) == (n \div Freq + 1) * Freq - 1

sizeOfCheckpointContaining(n) == IF n < Freq THEN Freq - 1 ELSE Freq

firstLedgerInCheckpointContaining(n) ==
    checkpointContainingLedger(n) - (sizeOfCheckpointContaining(n) - 1)

lastLedgerBeforeCheckpointContaining(n) ==
    checkpointContainingLedger(n) - sizeOfCheckpointContaining(n)

isFirstLedgerInCheckpoint(n) == firstLedgerInCheckpointContaining(n) = n

isLastLedgerInCheckpoint(n) == checkpointContainingLedger(n) = n

-----------------------------------------------------------------------------
(* What a catchup from lcl to ledger to applies: the buckets of ledger buckets   *)
(* (0 if none), then the ledgers from first on, count of them.                  *)

\* Mutant: buckets whatever the node has closed.
CatchupRangeMinimal(lcl, to, config) ==
    LET bucketsAt == lastLedgerBeforeCheckpointContaining(to - config + 1)
    IN  [buckets |-> bucketsAt, first |-> bucketsAt + 1, count |-> to - bucketsAt]

CatchupRange(lcl, to, config) ==
    LET start == to - config + 1
        bucketsAt == lastLedgerBeforeCheckpointContaining(start)
        replay(first, count) == [buckets |-> 0, first |-> first, count |-> count]
    IN  IF lcl > GENESIS_LEDGER_SEQ + 1 \/ config >= to - lcl
          THEN replay(lcl + 1, to - lcl)
        ELSE IF config = 0 /\ isLastLedgerInCheckpoint(to)
          THEN [buckets |-> to, first |-> 0, count |-> 0]
        ELSE IF firstLedgerInCheckpointContaining(start) = GENESIS_LEDGER_SEQ
          THEN replay(lcl + 1, to - lcl)
        ELSE [buckets |-> bucketsAt,
              first |-> firstLedgerInCheckpointContaining(start),
              count |-> to - bucketsAt]

\* The preconditions and the invariants of a range.
rangeThrows(lcl, to, config) ==
    LET range == CatchupRange(lcl, to, config)
    IN  \/ to <= lcl
        \/ lcl <= GENESIS_LEDGER_SEQ
        \/ range.buckets = 0 /\ range.count = 0
        \/ range.buckets # 0 /\ range.count # 0 /\ range.buckets + 1 # range.first

-----------------------------------------------------------------------------
(* The node as a record, so that the handlers compose.                         *)

NoWork == [phase |-> "none", from |-> 0, to |-> 0, flight |-> 0]

isCatchupInitialized(nd) == nd.work.phase # "none"

catchupWorkIsDone(nd) == nd.work.phase \in {"SUCCESS", "FAILURE"}

running(nd) == isCatchupInitialized(nd) /\ ~catchupWorkIsDone(nd)

hasBufferedLedger(nd) == nd.buffered # {}

Throw(what, condition) == IF condition THEN {what} ELSE {}

\* A transaction set for another ledger than the next is an exception.
closeLedger(nd, n) ==
    IF n = nd.lcl + 1 THEN [nd EXCEPT !.lcl = n]
    ELSE [nd EXCEPT !.throws = @ \cup {"txset mismatch"}]

\* Mutant: the next ledger closes while a catchup runs.
closeLedgerIfNext(nd, n) ==
    IF n = nd.lcl + 1 THEN closeLedger(nd, n)
    ELSE IF n <= nd.lcl THEN nd
    ELSE [nd EXCEPT !.state = "CATCHING_UP"]

closeLedgerIf(nd, n) ==
    IF n = nd.lcl + 1 THEN IF running(nd) THEN nd ELSE closeLedger(nd, n)
    ELSE IF n <= nd.lcl THEN nd
    ELSE [nd EXCEPT !.state = "CATCHING_UP"]

\* Only the ledgers from the start of the latest checkpoint on are kept.
trimSyncingLedgers(S) ==
    LET starts == {n \in S : isFirstLedgerInCheckpoint(n)}
    IN  IF starts = {} THEN S ELSE {n \in S : n >= Max(starts)}

\* Mutant: the finished work is kept.
trimOnly(nd) == [nd EXCEPT !.buffered = trimSyncingLedgers(@)]

trimAndReset(nd) ==
    [nd EXCEPT !.work = NoWork, !.buffered = trimSyncingLedgers(@)]

\* The ledgers in a row at the start of the buffer that follow the LCL.
sequential(nd) ==
    {n \in nd.buffered :
        /\ Min(nd.buffered) = nd.lcl + 1
        /\ nd.lcl + 1 .. n \subseteq nd.buffered}

tryApplySyncingLedgers(nd) ==
    [nd EXCEPT !.lcl = Max({@} \cup sequential(nd)),
               !.buffered = @ \ sequential(nd)]

\* startOnlineCatchup() and startCatchup(); the work notes the LCL as it starts.
startOnlineCatchup(nd) ==
    LET to == Min(nd.buffered) - 1
    IN  [nd EXCEPT
            !.work = [phase |-> "getState", from |-> nd.lcl, to |-> to,
                      flight |-> 0],
            !.throws = @ \cup Throw("target is not newer than LCL", to <= nd.lcl)
                         \cup Throw("assert", \/ Cardinality(nd.buffered) <= 1
                                             \/ isCatchupInitialized(nd))]

\* Buffers ledger n, which is ahead of the LCL, and starts catchup if the first
\* ledger of a checkpoint and a later ledger are in the buffer.
bufferLedger(nd, n) ==
    LET S == nd.buffered \cup {n}
        starts == {i \in S : isFirstLedgerInCheckpoint(i)}
    IN  IF starts # {} /\ Min(starts) < Max(S)
          THEN startOnlineCatchup(
                   [nd EXCEPT !.buffered = {i \in S : i >= Min(starts)}])
          ELSE [nd EXCEPT !.buffered = S]

\* Mutant: a running catchup is handed every ledger ahead of the LCL.
processLedgerAlways(nd, n) ==
    LET now == IF catchupWorkIsDone(nd) THEN trimAndReset(nd) ELSE nd
    IN  IF ~isCatchupInitialized(now) /\ n = now.lcl
          THEN tryApplySyncingLedgers(now)
        ELSE IF n <= now.lcl THEN now
        ELSE IF ~isCatchupInitialized(now) THEN bufferLedger(now, n)
        ELSE [now EXCEPT !.buffered = @ \cup {n}]

processLedger(nd, n) ==
    LET now == IF catchupWorkIsDone(nd) THEN trimAndReset(nd) ELSE nd
    IN  IF ~isCatchupInitialized(now) /\ n = now.lcl
          THEN tryApplySyncingLedgers(now)
        ELSE IF n <= now.lcl THEN now
        ELSE IF ~isCatchupInitialized(now) THEN bufferLedger(now, n)
        ELSE IF n <= now.work.to THEN now
        ELSE [now EXCEPT !.buffered = @ \cup {n}]

\* LedgerManagerImpl::valueExternalized, called by the Herder.
valueExternalized(nd, n) ==
    LET now == processLedger(closeLedgerIf(nd, n), n)
    IN  IF hasBufferedLedger(now) THEN now ELSE [now EXCEPT !.state = "SYNCED"]

-----------------------------------------------------------------------------
(* The specification.                                                         *)

Started(lcl, count) ==
    [lcl |-> lcl, count |-> count, state |-> "BOOTING", buffered |-> {},
     work |-> NoWork, tracking |-> lcl, throws |-> {}]

Init ==
    /\ \E lcl \in InitialLcl, count \in Counts :
           /\ node = Started(lcl, count)
           /\ network = [closed |-> lcl, coming |-> {}]
    /\ restarts = 0

FaultsMayOccur == network.closed <= LastFault

\* The network closes a ledger.
NetworkCloses ==
    /\ network.closed < MaxLedger
    /\ running(node) => network.closed < RacingLimit
    /\ Cardinality(network.coming) < Window
    /\ network' = [closed |-> network.closed + 1,
                   coming |-> network.coming \cup {network.closed + 1}]
    /\ UNCHANGED <<node, restarts>>

\* The node never hears of a ledger.
Miss(n) ==
    /\ n \in network.coming
    /\ n <= LastFault
    /\ network' = [network EXCEPT !.coming = @ \ {n}]
    /\ UNCHANGED <<node, restarts>>

\* A slot externalizes on the node; those after the faults do so in order.
Externalize(n) ==
    /\ n \in network.coming
    /\ \A i \in network.coming : i < n => i <= LastFault
    /\ node.throws = {}
    /\ node' = [valueExternalized(node, n) EXCEPT !.tracking = Max({@, n})]
    /\ network' = [network EXCEPT !.coming = @ \ {n}]
    /\ UNCHANGED restarts

catchupRange == CatchupRange(node.work.from, node.work.to, node.count)

Phase(now, next) ==
    /\ node.work.phase = now
    /\ node' = [node EXCEPT !.work.phase = next]

\* The archive state of the checkpoint with the target, then the state for the
\* buckets if that is another one.
GetState ==
    /\ node.work.phase = "getState"
    /\ node' = [node EXCEPT
                   !.throws = @ \cup Throw("range",
                       rangeThrows(node.work.from, node.work.to, node.count)),
                   !.work.phase =
                       IF catchupRange.buckets \in
                              {0, checkpointContainingLedger(node.work.to)}
                         THEN "getLedgers" ELSE "getBucketState"]

GetBucketState == Phase("getBucketState", "getLedgers")

\* The headers from the ledger of the buckets, or from the first to replay, to the
\* target are there and verified; the buckets must be those of the last header of
\* the first checkpoint, and not before the LCL.
GetLedgers ==
    /\ node.work.phase = "getLedgers"
    /\ node' = [node EXCEPT
                   !.throws = @ \cup Throw("buckets",
                       /\ catchupRange.buckets # 0
                       /\ \/ ~isLastLedgerInCheckpoint(catchupRange.buckets)
                          \/ catchupRange.buckets < node.lcl),
                   !.work.phase =
                       IF catchupRange.buckets # 0 THEN "applyBuckets" ELSE "replay"]

ApplyBuckets == Phase("applyBuckets", "applied")

\* setLastClosedLedger().
SetLastClosedLedger ==
    /\ node.work.phase = "applied"
    /\ node' = [node EXCEPT
                   !.lcl = catchupRange.buckets,
                   !.work.phase =
                       IF catchupRange.count # 0 THEN "replay" ELSE "sequenceDone"]

\* Closes the next ledger of the range.
Replay ==
    /\ node.work.phase = "replay"
    /\ LET n == Max({node.lcl + 1, catchupRange.first})
       IN  node' = [closeLedger(node, n) EXCEPT
                       !.work.phase =
                           IF n < node.work.to THEN "replay" ELSE "sequenceDone"]

\* CatchupWork succeeds if no ledger is buffered.
FinishOrApply ==
    /\ node.work.phase = "sequenceDone"
    /\ node' = [node EXCEPT !.work.phase =
                    IF hasBufferedLedger(node) THEN "applyBuffered" ELSE "SUCCESS"]

\* ApplyBufferedLedgersWork takes the next ledger off the buffer.
takeBuffered(nd) ==
    IF ~hasBufferedLedger(nd) THEN [nd EXCEPT !.work.phase = "sequenceDone"]
    ELSE IF Min(nd.buffered) # nd.lcl + 1 THEN [nd EXCEPT !.work.phase = "gap"]
    ELSE [nd EXCEPT !.work.flight = Min(nd.buffered),
                    !.buffered = @ \ {Min(nd.buffered)}]

TakeBuffered ==
    /\ node.work.phase = "applyBuffered"
    /\ node.work.flight = 0
    /\ node' = takeBuffered(node)

\* The bucket merges it waits for are done: the ledger closes.
CloseBuffered ==
    /\ node.work.phase = "applyBuffered"
    /\ node.work.flight # 0
    /\ node' = takeBuffered([closeLedger(node, node.work.flight) EXCEPT
                                !.work.flight = 0])

GiveUp == Phase("gap", "FAILURE")

\* A crank of the catchup work.
CatchupStep ==
    /\ node.throws = {}
    /\ \/ GetState
       \/ GetBucketState
       \/ GetLedgers
       \/ ApplyBuckets
       \/ SetLastClosedLedger
       \/ Replay
       \/ FinishOrApply
       \/ TakeBuffered
       \/ CloseBuffered
       \/ GiveUp
    /\ UNCHANGED <<network, restarts>>

\* A file cannot be had from the archives, or is wrong.
ArchiveFails ==
    /\ FaultsMayOccur
    /\ node.throws = {}
    /\ node.work.phase \in
           {"getState", "getBucketState", "getLedgers", "applyBuckets", "replay"}
    /\ node' = [node EXCEPT !.work.phase = "FAILURE"]
    /\ UNCHANGED <<network, restarts>>

\* Only the database survives.  Peers send again some of the latest slots.
Restart ==
    /\ FaultsMayOccur
    /\ restarts < MaxRestarts
    /\ node' = Started(node.lcl, node.count)
    /\ \E again \in SUBSET (network.closed - Window + 1 .. network.closed) :
           network' = [network EXCEPT !.coming = @ \cup again]
    /\ restarts' = restarts + 1

Next ==
    \/ NetworkCloses
    \/ \E n \in network.coming : Miss(n) \/ Externalize(n)
    \/ CatchupStep
    \/ ArchiveFails
    \/ Restart

Spec == Init /\ [][Next]_vars

\* The network goes on closing ledgers, each of which is heard of or missed, and the
\* io_service cranks the catchup work.
Fairness ==
    /\ WF_vars(NetworkCloses)
    /\ WF_vars(\E n \in network.coming : Externalize(n) \/ Miss(n))
    /\ WF_vars(CatchupStep)

FairSpec == Spec /\ Fairness

-----------------------------------------------------------------------------
(* Properties.                                                                *)

\* No assertion fails and no exception is thrown on the way, with one exception: every
\* ledger closes on top of the one before it, whoever closes it, and no catchup starts
\* while another one runs or behind the LCL.  A catchup that fails because a ledger is
\* missing leaves that ledger buffered if it comes just before the failure is noticed;
\* if it is the first of a checkpoint, the next catchup is started from there with
\* nothing to catch up on, which startCatchup refuses by throwing
\* (CatchupManagerImpl.cpp:186).
ThrowsOnlyIfCaughtUp ==
    node.throws # {} =>
        /\ node.throws = {"target is not newer than LCL"}
        /\ node.lcl + 1 \in node.buffered
        /\ isFirstLedgerInCheckpoint(node.lcl + 1)

\* A buffered ledger is ahead of everything the node has closed or is about to close
\* without it: of the LCL, of the target of a catchup, of the ledger in flight.
BufferedAhead ==
    \A n \in node.buffered :
        /\ n > node.lcl
        /\ running(node) => n > node.work.to /\ n > node.work.flight

\* What the node holds and says of itself is right: nothing stale is in the buffer, and
\* when LedgerManager says it is in sync and no catchup runs, it has closed every
\* ledger the Herder has heard of (HerderImpl::valueExternalized then triggers the
\* next ledger).
SyncStateRight ==
    /\ BufferedAhead
    /\ node.state = "SYNCED" /\ ~running(node) => node.lcl = node.tracking

\* The last closed ledger never goes back, and only a catchup that applies buckets to
\* a node that is at the first ledger skips any.
InOrder ==
    [][\/ node'.lcl \in {node.lcl, node.lcl + 1}
       \/ ~running(node) /\ node.lcl + 1 .. node'.lcl \subseteq
                                node.buffered \cup network.coming
       \/ node.lcl = GENESIS_LEDGER_SEQ + 1 /\ node'.lcl > node.lcl
          /\ node'.lcl \leq node.work.to]_vars

\* Once the faults are over the node reaches the ledger of the network, through gaps
\* in the buffer and catchups that fail.
CatchesUp == <>(node.lcl = MaxLedger \/ node.throws # {})
=============================================================================
