--------------------------- MODULE BallotProtocol ---------------------------
(***************************************************************************)
(* The ballot protocol of one SCP slot, as src/scp/BallotProtocol.cpp runs it *)
(* on every intact node.  node[n] is the BallotProtocol object of node n:     *)
(*                                                                            *)
(*   phase b p pp h c   mPhase mCurrentBallot mPrepared mPreparedPrime        *)
(*                      mHighBallot mCommit (the null ballot if not set)      *)
(*   override           mValueOverride                                        *)
(*   latest             mLatestEnvelopes                                      *)
(*   last emit          mLastEnvelope mLastEnvelopeEmit                       *)
(*   heard timer        mHeardFromQuorum, and whether the timer is armed      *)
(*   valid              Slot::mFullyValidated                                 *)
(*   composite          the slot's latest composite candidate                 *)
(*   stack              the activations of advanceSlot: mCurrentMessageLevel   *)
(*                      is its length                                         *)
(*   threw              an exception left the protocol in a bad state         *)
(*   said               history: the statements this node ever recorded as    *)
(*                      its own                                               *)
(*                                                                            *)
(* A member function that changes the object is an operator from the old to    *)
(* the new object.  A handler (a received envelope, the timer, a candidate)    *)
(* is a sequence of steps, one for each transition advanceSlot makes, because  *)
(* every transition feeds the node's new statement back into advanceSlot.      *)
(***************************************************************************)
EXTENDS SCPStatement, FBAS, FiniteSetsExt, Sequences

CONSTANTS
    validateValue,      \* validateValue[n][x]: what n's driver says of value x
    FaultyStatement,    \* what nodes that are not intact may send
    MayRestart,         \* the nodes that may crash and restart
    Candidate           \* Candidate[n]: the composite candidates nomination may give n

\* SCPDriver::ValidationLevel
kInvalidValue == 0
kMaybeValidValue == 1
kFullyValidatedValue == 2

ASSUME DriverAssumption ==
    /\ validateValue \in [Intact -> [Value -> {kInvalidValue, kMaybeValidValue, kFullyValidatedValue}]]
    /\ FaultyStatement \subseteq Statement
    /\ MayRestart \subseteq Intact
    /\ Candidate \in [Intact -> SUBSET Value]

\* A value is a string of bytes of bounded length.
ASSUME FiniteValues == IsFiniteSet(Value)

MAX_ADVANCE_SLOT_RECURSION == 50

VARIABLES
    node,       \* the BallotProtocol object of every intact node
    sent        \* the statements every intact node has emitted

vars == <<node, sent>>

Frame == [hint : Statement, pc : 1 .. 5, work : BOOLEAN, kind : {"receive", "emit", "bump"}]

Object ==
    [phase : {PREPARE, CONFIRM, EXTERNALIZE},
     b : OptionalBallot, p : OptionalBallot, pp : OptionalBallot,
     h : OptionalBallot, c : OptionalBallot,
     override : Value \cup {NoValue},
     latest : [Node -> Statement \cup {NoStatement}],
     last : Statement \cup {NoStatement}, emit : Statement \cup {NoStatement},
     heard : BOOLEAN, timer : BOOLEAN, valid : BOOLEAN,
     composite : Value \cup {NoValue},
     stack : Seq(Frame), threw : BOOLEAN, said : SUBSET Statement]

\* The members of BallotProtocol have their types, and every statement that is sent or
\* recorded is one the protocol has.
TypeOK ==
    /\ node \in [Intact -> Object]
    /\ sent \in [Intact -> SUBSET Statement]

\* A new slot of a validator.
NewObject ==
    [phase |-> PREPARE,
     b |-> NullBallot, p |-> NullBallot, pp |-> NullBallot, h |-> NullBallot, c |-> NullBallot,
     override |-> NoValue,
     latest |-> [m \in Node |-> NoStatement],
     last |-> NoStatement, emit |-> NoStatement,
     heard |-> FALSE, timer |-> FALSE, valid |-> TRUE,
     composite |-> NoValue,
     stack |-> << >>, threw |-> FALSE, said |-> {}]

Init ==
    /\ node = [n \in Intact |-> NewObject]
    /\ sent = [n \in Intact |-> {}]

-----------------------------------------------------------------------------
(***************************************************************************)
(* Federated voting over the latest envelopes.  An EXTERNALIZE statement      *)
(* speaks with the quorum set {sender}.  The fixed point LocalNode::isQuorum   *)
(* computes is not empty when some set of senders contains a slice of each of  *)
(* its members.                                                               *)
(***************************************************************************)
HeardFrom(s) == {m \in Node : s.latest[m] # NoStatement}

isQuorum(n, s, senders) ==
    \E Q \in Slices[n] :
        /\ Q \subseteq senders
        /\ \A m \in Q : s.latest[m].type = EXTERNALIZE \/ Q \in Slices[m]

federatedRatify(n, s, voted) == isQuorum(n, s, voted)

\* Mutant: one node that accepted is enough.
federatedAcceptAny(n, s, voted, accepted) ==
    accepted # {} \/ isQuorum(n, s, voted \cup accepted)

federatedAccept(n, s, voted, accepted) ==
    isVBlocking(n, accepted) \/ isQuorum(n, s, voted \cup accepted)

-----------------------------------------------------------------------------
(***************************************************************************)
(* The current ballot.                                                        *)
(***************************************************************************)

bumpToBallot(s, ballot) ==
    LET keep == s.h = NullBallot \/ areBallotsCompatible(ballot, s.h)
    IN  [s EXCEPT !.b = ballot,
                  !.h = IF keep THEN @ ELSE NullBallot,
                  !.c = IF keep THEN @ ELSE NullBallot,
                  !.heard = @ /\ s.b.counter = ballot.counter]

\* The caller tells from the result whether the ballot was updated.
updateCurrentValue(s, ballot) ==
    IF /\ s.phase # EXTERNALIZE
       /\ s.c = NullBallot \/ areBallotsCompatible(s.c, ballot)
       /\ BallotLess(s.b, ballot)
      THEN bumpToBallot(s, ballot)
      ELSE s

updateCurrentIfNeeded(s, h) ==
    IF BallotLess(s.b, h) THEN bumpToBallot(s, h) ELSE s

\* bumpState(value, n) up to the point where it emits.
bumpStateTo(s, value, counter) ==
    updateCurrentValue(s, [counter |-> counter,
                           value |-> IF s.override # NoValue THEN s.override ELSE value])

\* bumpState(value, force); counters are 32 bits wide.
bumpState(s, value, force) ==
    IF s.b # NullBallot /\ ~ force
      THEN s
      ELSE bumpStateTo(s, value, (s.b.counter + 1) % (UINT32_MAX + 1))

\* abandonBallot(n), where 0 means the next counter.
abandonBallot(s, counter) ==
    LET v == IF s.composite # NoValue THEN s.composite ELSE s.b.value
    IN  CASE v = NoValue -> s
          [] v # NoValue /\ counter = 0 -> bumpState(s, v, TRUE)
          [] OTHER -> bumpStateTo(s, v, counter)

\* Mutant: the counter of CONFIRM and EXTERNALIZE statements matters too.
checkHeardAllTypes(n, s) ==
    IF s.b = NullBallot
      THEN s
      ELSE LET heardNow == isQuorum(n, s, {m \in HeardFrom(s) : s.b.counter <= s.latest[m].ballot.counter})
           IN  [s EXCEPT !.heard = heardNow,
                         !.timer = heardNow /\ s.phase # EXTERNALIZE /\ (@ \/ ~ s.heard)]

\* Mutant: a node that accepted a commit needs no timer.
checkHeardPrepareOnly(n, s) ==
    IF s.b = NullBallot
      THEN s
      ELSE LET heardNow == isQuorum(n, s, {m \in HeardFrom(s) :
                              s.latest[m].type = PREPARE => s.b.counter <= s.latest[m].ballot.counter})
           IN  [s EXCEPT !.heard = heardNow,
                         !.timer = heardNow /\ s.phase = PREPARE /\ (@ \/ ~ s.heard)]

checkHeardFromQuorum(n, s) ==
    IF s.b = NullBallot
      THEN s
      ELSE LET heardNow == isQuorum(n, s, {m \in HeardFrom(s) :
                              s.latest[m].type = PREPARE => s.b.counter <= s.latest[m].ballot.counter})
           IN  [s EXCEPT !.heard = heardNow,
                         !.timer = /\ heardNow
                                   /\ s.phase # EXTERNALIZE
                                   /\ @ \/ ~ s.heard]

-----------------------------------------------------------------------------
(***************************************************************************)
(* The four attempts of advanceSlot and attemptBump.  Each returns the object  *)
(* after the transition, or the same object when there is none.                *)
(***************************************************************************)
MaxBallot(S) == CHOOSE x \in S : \A y \in S : BallotLeq(y, x)

MinBallot(S) == CHOOSE x \in S : \A y \in S : BallotLeq(x, y)

getPrepareCandidates(s, hint) ==
    UNION {candidatesUpTo(topVote, s.latest[m]) :
              topVote \in hintBallots(hint), m \in HeardFrom(s)}

\* Mutant: p' follows p whatever its value.
setPreparedAlwaysPrime(s, ballot) ==
    IF s.p = NullBallot \/ BallotLess(s.p, ballot)
      THEN [s EXCEPT !.p = ballot, !.pp = s.p]
      ELSE [s EXCEPT !.pp = ballot]

setPrepared(s, ballot) ==
    CASE s.p = NullBallot -> [s EXCEPT !.p = ballot]
      [] s.p # NullBallot /\ BallotLess(s.p, ballot) ->
            [s EXCEPT !.p = ballot,
                      !.pp = IF areBallotsCompatible(s.p, ballot) THEN @ ELSE s.p]
      [] /\ s.p # NullBallot
         /\ BallotLess(ballot, s.p)
         /\ \/ s.pp = NullBallot
            \/ BallotLess(s.pp, ballot) /\ ~ areBallotsCompatible(s.p, ballot) ->
            [s EXCEPT !.pp = ballot]
      [] OTHER -> s

\* Accepting a higher incompatible ballot withdraws the votes to commit.
setAcceptPrepared(s, ballot) ==
    LET t == setPrepared(s, ballot)
    IN  IF /\ t.h # NullBallot
           /\ \/ areBallotsLessAndIncompatible(t.h, t.p)
              \/ areBallotsLessAndIncompatible(t.h, t.pp)
          THEN [t EXCEPT !.c = NullBallot]
          ELSE t

attemptAcceptPrepared(n, s, hint) ==
    LET acceptable ==
            {x \in getPrepareCandidates(s, hint) :
                /\ s.phase = CONFIRM => areBallotsLessAndCompatible(s.p, x)
                /\ s.pp # NullBallot => BallotLess(s.pp, x)
                /\ s.p # NullBallot => ~ areBallotsLessAndCompatible(x, s.p)
                /\ federatedAccept(n, s, {m \in HeardFrom(s) : votesPrepare(x, s.latest[m])},
                                         {m \in HeardFrom(s) : hasPreparedBallot(x, s.latest[m])})}
    IN  IF s.phase = EXTERNALIZE \/ acceptable = {}
          THEN s
          ELSE setAcceptPrepared(s, MaxBallot(acceptable))

setConfirmPrepared(s, newC, newH) ==
    LET t == [s EXCEPT !.override = newH.value]
        u == IF s.b = NullBallot \/ areBallotsCompatible(s.b, newH)
               THEN [t EXCEPT !.h = IF BallotLess(@, newH) THEN newH ELSE @,
                              !.c = IF newC = NullBallot THEN @ ELSE newC]
               ELSE t
    IN  updateCurrentIfNeeded(u, newH)

attemptConfirmPrepared(n, s, hint) ==
    LET candidates == getPrepareCandidates(s, hint)
        ratified(x) == federatedRatify(n, s, {m \in HeardFrom(s) : hasPreparedBallot(x, s.latest[m])})
        confirmed == {x \in candidates : BallotLess(s.h, x) /\ ratified(x)}
        newH == MaxBallot(confirmed)
        commits == {x \in candidates :
                      /\ BallotLeq(s.b, x)
                      /\ areBallotsLessAndCompatible(x, newH)
                      /\ \A y \in candidates :
                            /\ BallotLeq(x, y)
                            /\ areBallotsLessAndCompatible(y, newH)
                            => ratified(y)}
        newC == IF \/ s.c # NullBallot
                   \/ areBallotsLessAndIncompatible(newH, s.p)
                   \/ areBallotsLessAndIncompatible(newH, s.pp)
                   \/ commits = {}
                  THEN NullBallot
                  ELSE MinBallot(commits)
    IN  IF s.phase # PREPARE \/ s.p = NullBallot \/ confirmed = {}
          THEN s
          ELSE setConfirmPrepared(s, newC, newH)

getCommitBoundariesFromStatements(s, value) ==
    UNION {boundariesOf(value, s.latest[m]) : m \in HeardFrom(s)}

\* Mutant: the interval reaches down to the lowest boundary.
findExtendedIntervalAll(boundaries, good) ==
    LET tops == {k \in boundaries : k # 0 /\ <<k, k>> \in good}
    IN  IF tops = {} THEN <<0, 0>> ELSE <<Min(boundaries), Max(tops)>>

\* findExtendedInterval: the highest boundary that is good alone, extended
\* downwards while the interval is good; <<0, 0>> when there is none.
findExtendedInterval(boundaries, good) ==
    LET tops == {k \in boundaries : k # 0 /\ <<k, k>> \in good}
        hi == Max(tops)
        los == {k \in boundaries : /\ k <= hi
                                   /\ \A l \in boundaries : k <= l /\ l <= hi => <<l, hi>> \in good}
    IN  IF tops = {} THEN <<0, 0>> ELSE <<Min(los), hi>>

setAcceptCommit(s, c, h) ==
    LET t == [s EXCEPT !.override = h.value, !.c = c, !.h = h]
        u == IF s.phase = PREPARE
               THEN [(IF s.b # NullBallot /\ ~ areBallotsLessAndCompatible(h, s.b)
                        THEN bumpToBallot(t, h) ELSE t) EXCEPT !.phase = CONFIRM,
                                                               !.pp = NullBallot]
               ELSE t
    IN  updateCurrentIfNeeded(u, h)

attemptAcceptCommit(n, s, hint) ==
    LET v == hint.ballot.value
        boundaries == getCommitBoundariesFromStatements(s, v)
        interval ==
            findExtendedInterval(boundaries, {i \in boundaries \X boundaries :
                federatedAccept(n, s, {m \in HeardFrom(s) : votesCommit(v, i[1], i[2], s.latest[m])},
                                      {m \in HeardFrom(s) : commitPredicate(v, i[1], i[2], s.latest[m])})})
        c == [counter |-> interval[1], value |-> v]
        h == [counter |-> interval[2], value |-> v]
    IN  IF \/ s.phase = EXTERNALIZE
           \/ hint.type = PREPARE /\ hint.nC = 0
           \/ s.phase = CONFIRM /\ v # s.h.value
           \/ c.counter = 0
           \/ s.phase = CONFIRM /\ h.counter <= s.h.counter
          THEN s
          ELSE setAcceptCommit(s, c, h)

setConfirmCommit(s, c, h) ==
    [updateCurrentIfNeeded([s EXCEPT !.c = c, !.h = h], h) EXCEPT !.phase = EXTERNALIZE]

attemptConfirmCommit(n, s, hint) ==
    LET v == hint.ballot.value
        boundaries == getCommitBoundariesFromStatements(s, v)
        interval ==
            findExtendedInterval(boundaries, {i \in boundaries \X boundaries :
                federatedRatify(n, s, {m \in HeardFrom(s) : commitPredicate(v, i[1], i[2], s.latest[m])})})
    IN  IF \/ s.phase # CONFIRM
           \/ NullBallot \in {s.h, s.c}
           \/ hint.type = PREPARE
           \/ v # s.c.value
           \/ interval[1] = 0
          THEN s
          ELSE setConfirmCommit(s, [counter |-> interval[1], value |-> v],
                                   [counter |-> interval[2], value |-> v])

hasVBlockingSubsetStrictlyAheadOf(n, s, counter) ==
    isVBlocking(n, {m \in HeardFrom(s) : statementBallotCounter(s.latest[m]) > counter})

\* Mutant: only a node that accepted a commit catches up.
attemptBumpLate(n, s) ==
    LET ahead == {k \in {statementBallotCounter(s.latest[m]) : m \in Node} :
                    k > s.b.counter /\ ~ hasVBlockingSubsetStrictlyAheadOf(n, s, k)}
    IN  IF s.phase # CONFIRM \/ ahead = {} THEN s ELSE abandonBallot(s, Min(ahead))

\* Catch up with a v-blocking set of nodes that is ahead.
attemptBump(n, s) ==
    LET ahead == {k \in {statementBallotCounter(s.latest[m]) : m \in Node} :
                    k > s.b.counter /\ ~ hasVBlockingSubsetStrictlyAheadOf(n, s, k)}
    IN  IF \/ s.phase = EXTERNALIZE
           \/ ~ hasVBlockingSubsetStrictlyAheadOf(n, s, s.b.counter)
           \/ ahead = {}
          THEN s
          ELSE abandonBallot(s, Min(ahead))

-----------------------------------------------------------------------------
(***************************************************************************)
(* Statements: creation, processing, emission.                                *)
(***************************************************************************)
createStatement(s) ==
    [type |-> s.phase,
     ballot |-> IF s.phase = EXTERNALIZE THEN s.c ELSE s.b,
     prepared |-> CASE s.phase = PREPARE -> s.p
                    [] s.phase = CONFIRM -> [counter |-> s.p.counter, value |-> s.b.value]
                    [] OTHER -> NullBallot,
     preparedPrime |-> IF s.phase = PREPARE THEN s.pp ELSE NullBallot,
     nC |-> s.c.counter,
     nH |-> s.h.counter]

validateValues(n, st) ==
    LET values == getStatementValues(st)
    IN  IF values = {} THEN kInvalidValue ELSE Min({validateValue[n][x] : x \in values})

recordEnvelope(s, m, st) == [s EXCEPT !.latest[m] = st]

sendLatestEnvelope(s) ==
    IF s.stack = << >> /\ s.last # NoStatement /\ s.valid
      THEN [s EXCEPT !.emit = s.last]
      ELSE s

\* What emitCurrentStateStatement does once its statement is processed.
afterSelf(s, st) ==
    IF st.ballot # NullBallot /\ isNewerStatement(s.last, st)
      THEN sendLatestEnvelope([s EXCEPT !.last = st])
      ELSE s

\* processEnvelope does not refuse the statement.
isAcceptable(n, s, m, st, self) ==
    /\ isStatementSane(st, self)
    /\ isNewerStatement(s.latest[m], st)
    /\ validateValues(n, st) # kInvalidValue
    /\ s.phase = EXTERNALIZE => st.ballot.value = s.c.value

\* processEnvelope of an acceptable statement; advanceSlot starts with a new
\* activation, unless the slot is externalized.
processEnvelope(n, s, m, st, kind) ==
    LET t == recordEnvelope(s, m, st)
        frame == [hint |-> st, pc |-> 1, work |-> FALSE, kind |-> kind]
    IN  IF s.phase = EXTERNALIZE
          THEN t
          ELSE [t EXCEPT !.valid = @ /\ validateValues(n, st) # kMaybeValidValue,
                         !.stack = <<frame>> \o @,
                         !.threw = @ \/ Len(s.stack) + 1 >= MAX_ADVANCE_SLOT_RECURSION]

\* What follows the activation of advanceSlot a statement of the node started.
finish(n, s, st, kind) ==
    CASE kind = "receive" -> s
      [] kind = "emit" -> afterSelf(s, st)
      [] kind = "bump" -> checkHeardFromQuorum(n, afterSelf(s, st))

\* emitCurrentStateStatement, up to the activation of advanceSlot it starts.
emitCurrentStateStatement(n, s, kind) ==
    LET st == createStatement(s)
        t == [s EXCEPT !.said = @ \cup {st}]
    IN  CASE st = s.latest[n] -> finish(n, s, NoStatement, kind)
          [] st # s.latest[n] /\ ~ isAcceptable(n, s, n, st, TRUE) -> [s EXCEPT !.threw = TRUE]
          [] OTHER -> LET u == processEnvelope(n, t, n, st, kind)
                      IN  IF s.phase = EXTERNALIZE THEN finish(n, u, st, kind) ELSE u

-----------------------------------------------------------------------------
(***************************************************************************)
(* The steps.  A handler runs to its end before the next one starts; as it     *)
(* emits at most one statement, at its end, handlers of different nodes need   *)
(* not be interleaved.                                                         *)
(***************************************************************************)
idle == \A n \in Intact : node[n].stack = << >>

Update(n, s) ==
    /\ node' = [node EXCEPT ![n] = s]
    /\ sent' = IF s.emit \in {node[n].emit, NoStatement}
                 THEN sent ELSE [sent EXCEPT ![n] = @ \cup {s.emit}]

\* An envelope from another node.
ReceiveEnvelope(n, m, st) ==
    /\ idle /\ ~ node[n].threw
    /\ isAcceptable(n, node[n], m, st, FALSE)
    /\ Update(n, processEnvelope(n, node[n], m, st, "receive"))

\* ballotProtocolTimerExpired.  The bound: the timer takes no node beyond
\* MaxCounter.
TimerExpired(n) ==
    LET s == [node[n] EXCEPT !.timer = FALSE]
        t == abandonBallot(s, 0)
    IN  /\ idle /\ ~ s.threw
        /\ node[n].timer
        /\ s.b.counter # MaxCounter
        /\ Update(n, IF t = s THEN s ELSE emitCurrentStateStatement(n, t, "bump"))

\* Nomination has a new composite candidate (NominationProtocol::processEnvelope).
CandidateUpdated(n, x) ==
    LET s == [node[n] EXCEPT !.composite = x]
        t == bumpState(s, x, FALSE)
    IN  /\ idle /\ ~ s.threw
        /\ s.phase # EXTERNALIZE
        /\ x # node[n].composite
        /\ validateValue[n][x] # kInvalidValue
        /\ Update(n, IF t = s THEN s ELSE emitCurrentStateStatement(n, t, "bump"))

\* The k-th thing advanceSlot attempts; only its outermost activation bumps.
attempt(n, s, k) ==
    LET hint == Head(s.stack).hint
    IN  CASE k = 1 -> attemptAcceptPrepared(n, s, hint)
          [] k = 2 -> attemptConfirmPrepared(n, s, hint)
          [] k = 3 -> attemptAcceptCommit(n, s, hint)
          [] k = 4 -> attemptConfirmCommit(n, s, hint)
          [] k = 5 -> IF Len(s.stack) = 1 THEN attemptBump(n, s) ELSE s

\* The attempts the running activation has left that would change something.
attemptsLeft(n, s) == {k \in Head(s.stack).pc .. 5 : attempt(n, s, k) # s}

\* advanceSlot makes its k-th attempt.  A transition that changes no more than
\* mValueOverride is not worth a statement (didWork is false).
Advance(n, k) ==
    LET s == node[n]
        t == attempt(n, s, k)
        didWork == [t EXCEPT !.override = s.override] # s
        u == [t EXCEPT !.stack[1].pc = IF k = 5 THEN 5 ELSE k + 1,
                       !.stack[1].work = @ \/ didWork]
    IN  Update(n, IF didWork
                    THEN emitCurrentStateStatement(n, u, IF k = 5 THEN "bump" ELSE "emit")
                    ELSE u)

\* Mutant: the statements a handler queued up are not sent at its end.
ReturnSilently(n) ==
    LET s == node[n]
        frame == Head(s.stack)
        t == IF Len(s.stack) = 1 THEN checkHeardFromQuorum(n, s) ELSE s
    IN  Update(n, finish(n, [t EXCEPT !.stack = Tail(@)], frame.hint, frame.kind))

\* advanceSlot has nothing left to attempt.
Return(n) ==
    LET s == node[n]
        frame == Head(s.stack)
        t == IF Len(s.stack) = 1 THEN checkHeardFromQuorum(n, s) ELSE s
        u == [t EXCEPT !.stack = Tail(@)]
    IN  Update(n, finish(n, IF frame.work THEN sendLatestEnvelope(u) ELSE u,
                         frame.hint, frame.kind))

\* The running activation goes on to its next transition, or returns.
advanceSlot(n) ==
    /\ node[n].stack # << >>
    /\ ~ node[n].threw
    /\ LET left == attemptsLeft(n, node[n])
       IN  IF left = {} THEN Return(n) ELSE Advance(n, Min(left))

\* Mutant: only the mark of what was emitted last is restored.
setStateOnly(s, n, st) ==
    [s EXCEPT !.emit = st]

\* setStateFromEnvelope, on a new object.
setStateFromEnvelope(s, n, st) ==
    LET v == st.ballot.value
        t == [recordEnvelope(s, n, st) EXCEPT !.last = st, !.emit = st, !.phase = st.type]
        atCounter(k) == IF k = 0 THEN NullBallot ELSE [counter |-> k, value |-> v]
    IN  [t EXCEPT !.b = IF st.type = EXTERNALIZE THEN atCounter(UINT32_MAX) ELSE st.ballot,
                  !.p = IF st.type = EXTERNALIZE THEN atCounter(UINT32_MAX) ELSE st.prepared,
                  !.pp = st.preparedPrime,
                  !.h = atCounter(st.nH),
                  !.c = atCounter(st.nC)]

\* The process stops and starts again: the last statement it emitted is in the
\* database (HerderImpl::emitEnvelope saves it before it is broadcast), all else
\* is lost.  The history of the node is not part of its state.
Restart(n) ==
    LET s == [NewObject EXCEPT !.said = node[n].said]
        st == node[n].emit
    IN  /\ idle
        /\ n \in MayRestart
        /\ node' = [node EXCEPT ![n] = IF st = NoStatement THEN s
                                       ELSE setStateFromEnvelope(s, n, st)]
        /\ UNCHANGED sent

Next ==
    \E n \in Intact :
        \/ \E m \in Intact \ {n} : \E st \in sent[m] : ReceiveEnvelope(n, m, st)
        \/ \E m \in Node \ Intact : \E st \in FaultyStatement : ReceiveEnvelope(n, m, st)
        \/ \E x \in Candidate[n] : CandidateUpdated(n, x)
        \/ TimerExpired(n)
        \/ advanceSlot(n)
        \/ Restart(n)

Spec == Init /\ [][Next]_vars

(***************************************************************************)
(* Fairness.  A handler runs to its end; the latest statement of every node    *)
(* reaches every other node in the end (the overlay floods it and the herder   *)
(* broadcasts it again, HerderImpl::startRebroadcastTimer); an armed timer      *)
(* fires; nomination produces a candidate.                                     *)
(***************************************************************************)
CanAdvance(n) == node[n].stack # << >> /\ ~ node[n].threw

CanTimeOut(n) ==
    /\ idle /\ ~ node[n].threw
    /\ node[n].timer /\ node[n].b.counter # MaxCounter

CanStart(n) ==
    /\ idle /\ ~ node[n].threw
    /\ node[n].composite = NoValue /\ node[n].phase # EXTERNALIZE

CanReceive(n, m) ==
    /\ idle /\ ~ node[n].threw
    /\ isAcceptable(n, node[n], m, node[m].emit, FALSE)

\* Weak fairness, with the enabling conditions spelled out.
Fairness ==
    \A n \in Intact :
        /\ []<>(~ CanAdvance(n)) \/ []<><<advanceSlot(n)>>_vars
        /\ []<>(~ CanTimeOut(n)) \/ []<><<TimerExpired(n)>>_vars
        /\ []<>(~ CanStart(n)) \/ []<><<\E x \in Candidate[n] : CandidateUpdated(n, x)>>_vars
        /\ \A m \in Intact \ {n} :
              []<>(~ CanReceive(n, m)) \/ []<><<ReceiveEnvelope(n, m, node[m].emit)>>_vars

FairSpec == Spec /\ Fairness

-----------------------------------------------------------------------------
(***************************************************************************)
(* What the protocol promises.  Its statements are promises in the sense of    *)
(* FederatedBallot.tla.                                                        *)
(***************************************************************************)
Said(n, types) == {st \in node[n].said : st.type \in types}

\* The ballots a statement votes to commit, or says are committed.
CommitBallots(st) ==
    {[counter |-> k, value |-> st.ballot.value] :
        k \in {l \in OptionalCounter : st.nC # 0 /\ st.nC <= l /\ l <= st.nH}}

Abstract ==
    INSTANCE FederatedBallot WITH
        votedPrepare <- [n \in Intact |->
            {st.ballot : st \in Said(n, {PREPARE})} \ {NullBallot}],
        acceptedPrepared <- [n \in Intact |->
            UNION {PreparedBallots(st) : st \in Said(n, {PREPARE, CONFIRM})}],
        votedCommit <- [n \in Intact |->
            UNION {CommitBallots(st) : st \in Said(n, {PREPARE})}],
        acceptedCommit <- [n \in Intact |->
            UNION {CommitBallots(st) : st \in Said(n, {CONFIRM, EXTERNALIZE})}],
        externalized <- [n \in Intact |->
            IF Said(n, {EXTERNALIZE}) = {} THEN NoValue
            ELSE (CHOOSE st \in Said(n, {EXTERNALIZE}) : TRUE).ballot.value]

\* Refinement: every transition of advanceSlot, and every restart, makes only
\* promises that federated voting allows (FederatedBallot.tla), so the protocol
\* inherits its agreement.
ImplementsFederatedBallot == Abstract!Spec

\* The value is fixed once a node accepts a commit (setAcceptCommit): no two
\* intact nodes in the CONFIRM or EXTERNALIZE phase are on different values.
CommitsAgree ==
    \A m, n \in {k \in Intact : node[k].phase # PREPARE} : node[m].c.value = node[n].c.value

\* BallotProtocol::checkInvariants
checkInvariants(s) ==
    /\ s.b # NullBallot => s.b.counter # 0
    /\ NullBallot \notin {s.p, s.pp} => areBallotsLessAndIncompatible(s.pp, s.p)
    /\ s.h # NullBallot => s.b # NullBallot /\ areBallotsLessAndCompatible(s.h, s.b)
    /\ s.c # NullBallot => s.b # NullBallot /\ areBallotsLessAndCompatible(s.c, s.h)
    /\ s.phase = CONFIRM => s.c # NullBallot
    /\ s.phase = EXTERNALIZE => NullBallot \notin {s.c, s.h}

\* The invariants the code asserts hold after every transition, also in the
\* middle of a handler and after a restart: those of checkInvariants, and p ~ c
\* in the CONFIRM phase (attemptAcceptPrepared), without which the CONFIRM
\* statement would claim a ballot as prepared that is not.  And no exception is thrown:
\* a node never refuses its own statement ("moved to a bad state") nor runs into the
\* recursion limit of advanceSlot.
StateConsistent ==
    /\ TypeOK
    /\ \A n \in Intact :
          /\ checkInvariants(node[n])
          /\ node[n].phase = CONFIRM =>
                node[n].p # NullBallot /\ areBallotsCompatible(node[n].p, node[n].c)
          /\ ~ node[n].threw

\* Every statement a node emits is newer than the one before, also across a
\* restart: its peers will not drop it as stale.
EmitsNewer ==
    [][\A n \in Intact :
          node'[n].emit # node[n].emit => isNewerStatement(node[n].emit, node'[n].emit)]_vars

\* While it stays on the same counter, and does not restart, a node that heard from a
\* quorum does not "flip flop" back to not having heard (the comment in
\* checkHeardFromQuorum).
HeardStable ==
    [][\A n \in Intact :
          /\ node[n].heard
          /\ ~ Restart(n)
          /\ node'[n].b.counter = node[n].b.counter
          => node'[n].heard]_vars

\* A node that heard from a quorum at its counter has its timer armed, so that
\* it will move on if the ballot is stuck.
TimerArmed ==
    \A n \in Intact :
        /\ node[n].stack = << >>
        /\ node[n].heard
        /\ node[n].phase # EXTERNALIZE
        /\ node[n].b.counter < UINT32_MAX
        => node[n].timer

\* Step 9 of the protocol (attemptBump): once a handler is done, no v-blocking set
\* is at a higher counter than a node that has a value to move with.
CaughtUp ==
    \A n \in Intact :
        /\ idle
        /\ node[n].phase # EXTERNALIZE
        /\ node[n].b # NullBallot
        => ~ hasVBlockingSubsetStrictlyAheadOf(n, node[n], node[n].b.counter)

\* Every node externalizes, however the timers race the messages.
Externalizes == <>[](\A n \in Intact : node[n].phase = EXTERNALIZE)
=============================================================================
