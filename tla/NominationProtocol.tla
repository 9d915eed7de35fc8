------------------------- MODULE NominationProtocol -------------------------
(***************************************************************************)
(* The nomination protocol of one SCP slot, as                                *)
(* src/scp/NominationProtocol.cpp runs it on every intact node.  nom[n] is     *)
(* the NominationProtocol object of node n:                                    *)
(*                                                                            *)
(*   started round leaders     mNominationStarted mRoundNumber mRoundLeaders   *)
(*   votes accepted candidates mVotes mAccepted mCandidates                    *)
(*   latest last               mLatestNominations mLastEnvelope                *)
(*   composite                 mLatestCompositeCandidate                       *)
(*   value                     the value the armed timer will nominate again   *)
(*   stack calling             the calls of emitNomination under way, each      *)
(*                             with the statement it emits and whether its      *)
(*                             caller has new candidates; calling: the last     *)
(*                             one has yet to process its statement             *)
(*   threw                     an exception left the protocol in a bad state    *)
(*                                                                            *)
(* The hashes that elect leaders and rank values are the driver's; they are    *)
(* constants here, and repeat after Period rounds, so that the round is kept   *)
(* modulo Period.                                                             *)
(***************************************************************************)
EXTENDS Integers, Sequences, FiniteSets, FBAS

CONSTANTS
    Value,              \* values, numbered
    Period,             \* number of rounds with different hashes
    priority,           \* priority[n][r][m]: getNodePriority of m at n in round r
    hashValue,          \* hashValue[r][x]
    fullyValid,         \* fullyValid[n]: the values n's driver fully validates
    extractValidValue,  \* extractValidValue[n][x]: a valid variation of x, or NoValue
    combineCandidates,  \* combineCandidates[C]: the composite of the set C
    NodeOrder,          \* the nodes, in the order of their identifiers
    Proposal,           \* Proposal[n]: the values n may propose itself
    FaultyNomination,   \* what nodes that are not intact may send
    MayStop,            \* nodes whose ballot protocol may end the nomination
    MayRestart          \* the nodes that may crash and restart

NoValue == 0

Nomination == [votes : SUBSET Value, accepted : SUBSET Value]

\* No statement yet; every sane statement is newer.
NoNomination == [votes |-> {}, accepted |-> {}]

ASSUME NominationAssumption ==
    /\ Value \subseteq Nat \ {0}
    /\ Period \in Nat \ {0}
    /\ priority \in [Intact -> [1 .. Period -> [Node -> Nat]]]
    /\ hashValue \in [1 .. Period -> [Value -> Nat]]
    /\ fullyValid \in [Intact -> SUBSET Value]
    /\ extractValidValue \in [Intact -> [Value -> Value \cup {NoValue}]]
    /\ combineCandidates \in [(SUBSET Value) \ {{}} -> Value]
    /\ NodeOrder \in Seq(Node)
    /\ Proposal \in [Intact -> SUBSET Value]
    /\ FaultyNomination \subseteq Nomination
    /\ MayStop \subseteq Intact
    /\ MayRestart \subseteq Intact

\* Quorum sets name finitely many nodes.
ASSUME FiniteNodes == IsFiniteSet(Node)

VARIABLES
    nom,            \* the NominationProtocol object of every intact node
    sent,           \* the statements every intact node has emitted
    introduced      \* history: values some intact node voted for without having
                    \* accepted them

vars == <<nom, sent, introduced>>

Frame == [st : Nomination, newCandidates : BOOLEAN]

Object ==
    [started : BOOLEAN, round : 0 .. Period, leaders : SUBSET Node,
     votes : SUBSET Value, accepted : SUBSET Value, candidates : SUBSET Value,
     latest : [Node -> Nomination], last : Nomination,
     composite : Value \cup {NoValue}, value : Value \cup {NoValue},
     stack : Seq(Frame), calling : BOOLEAN, threw : BOOLEAN]

\* The members of NominationProtocol have their types.
TypeOK ==
    /\ nom \in [Intact -> Object]
    /\ sent \in [Intact -> SUBSET Nomination]
    /\ introduced \subseteq Value

NewObject ==
    [started |-> FALSE, round |-> 0, leaders |-> {},
     votes |-> {}, accepted |-> {}, candidates |-> {},
     latest |-> [m \in Node |-> NoNomination], last |-> NoNomination,
     composite |-> NoValue, value |-> NoValue,
     stack |-> << >>, calling |-> FALSE, threw |-> FALSE]

Init ==
    /\ nom = [n \in Intact |-> NewObject]
    /\ sent = [n \in Intact |-> {}]
    /\ introduced = {}

-----------------------------------------------------------------------------
(***************************************************************************)
(* Statements.                                                                *)
(***************************************************************************)

\* The statement grew, and nothing is taken back.
isNewerStatement(oldst, st) ==
    /\ oldst # st
    /\ oldst.votes \subseteq st.votes
    /\ oldst.accepted \subseteq st.accepted

\* isSane; that the lists are sorted is the set representation.
isSane(st) == st.votes \cup st.accepted # {}

Statement(s) == [votes |-> s.votes, accepted |-> s.accepted]

-----------------------------------------------------------------------------
(***************************************************************************)
(* Federated voting over the latest nominations (Slot::federatedAccept and     *)
(* federatedRatify).                                                          *)
(***************************************************************************)
Voted(s, x) == {m \in Node : x \in s.latest[m].votes}

AcceptedBy(s, x) == {m \in Node : x \in s.latest[m].accepted}

isQuorum(n, senders) ==
    \E Q \in Slices[n] : Q \subseteq senders /\ \A m \in Q : Q \in Slices[m]

\* Mutant: one node that accepted a value is enough.
federatedAcceptAny(n, s, x) ==
    AcceptedBy(s, x) # {} \/ isQuorum(n, Voted(s, x) \cup AcceptedBy(s, x))

federatedAccept(n, s, x) ==
    isVBlocking(n, AcceptedBy(s, x)) \/ isQuorum(n, Voted(s, x) \cup AcceptedBy(s, x))

federatedRatify(n, s, x) == isQuorum(n, AcceptedBy(s, x))

-----------------------------------------------------------------------------
(***************************************************************************)
(* Leaders.                                                                   *)
(***************************************************************************)

\* The nodes of n's quorum set, without n: those a slice may hinge on.
peers(n) == {m \in Node \ {n} : \E S \in Slices[n] : S \ {m} \notin Slices[n]}

newRoundLeaders(n, r) ==
    LET p == priority[n][r]
        top == CHOOSE w \in {p[m] : m \in peers(n) \cup {n}} :
                  \A m \in peers(n) \cup {n} : p[m] <= w
    IN  {m \in peers(n) : p[m] = top /\ top > 0} \cup (IF p[n] = top THEN {n} ELSE {})

\* Every peer leads some round: without it updateRoundLeaders would not end.
ASSUME LeaderAssumption ==
    \A n \in Intact : peers(n) \cup {n} \subseteq UNION {newRoundLeaders(n, r) : r \in 1 .. Period}

roundAfter(r, k) == ((r + k - 1) % Period) + 1

\* Rounds that bring no new leader are skipped, until every node is one.
updateRoundLeaders(n, s) ==
    LET fresh == {k \in 0 .. Period - 1 :
                     ~ (newRoundLeaders(n, roundAfter(s.round, k)) \subseteq s.leaders)}
        k0 == CHOOSE k \in fresh : \A l \in fresh : k <= l
        r == roundAfter(s.round, k0)
    IN  IF Cardinality(s.leaders) >= 1 + Cardinality(peers(n))
          THEN s
          ELSE [s EXCEPT !.round = r, !.leaders = @ \cup newRoundLeaders(n, r)]

-----------------------------------------------------------------------------
(***************************************************************************)
(* Votes.                                                                     *)
(***************************************************************************)

\* What n would vote for, seeing x.
valueToNominate(n, x) == IF x \in fullyValid[n] THEN x ELSE extractValidValue[n][x]

\* getNewValueFromNomination, as a set of at most one value.
getNewValueFromNomination(n, round, votes, st) ==
    LET values == {valueToNominate(n, x) : x \in st.votes \cup st.accepted} \ (votes \cup {NoValue})
    IN  {x \in values : \A y \in values : hashValue[round][y] <= hashValue[round][x]}

\* Mutant: the leaders are only listened to when they speak.
leaderVotesNone(n, s) == s.votes

\* The votes after one more from each leader, in the order of the leaders.
leaderVotes(n, s) ==
    LET votesAfter[i \in 0 .. Len(NodeOrder)] ==
            IF i = 0 THEN s.votes
            ELSE votesAfter[i - 1] \cup
                 (IF NodeOrder[i] \in s.leaders
                    THEN getNewValueFromNomination(n, s.round, votesAfter[i - 1], s.latest[NodeOrder[i]])
                    ELSE {})
    IN  votesAfter[Len(NodeOrder)]

\* emitNomination: the statement is first processed by the node itself.
emitNomination(s, newCandidates) ==
    [s EXCEPT !.stack = <<[st |-> Statement(s), newCandidates |-> newCandidates]>> \o @,
              !.calling = TRUE]

\* updatedCandidateValue and bumpState of the ballot protocol get the composite.
combine(s) == [s EXCEPT !.composite = combineCandidates[s.candidates]]

recordEnvelope(s, m, st) == [s EXCEPT !.latest[m] = st]

\* Values ready to be accepted are, if they are valid; else their variations are
\* voted for.
accept(n, s, ready) ==
    [s EXCEPT !.accepted = @ \cup (ready \cap fullyValid[n]),
              !.votes = @ \cup ({valueToNominate(n, x) : x \in ready} \ {NoValue})]

\* The body of processEnvelope, up to what it emits.
promote(n, s, m, st) ==
    LET t == accept(n, s, {x \in st.votes \ s.accepted : federatedAccept(n, s, x)})
        u == [t EXCEPT !.candidates = @ \cup {x \in t.accepted : federatedRatify(n, t, x)}]
        newVote == IF u.candidates = {} /\ m \in u.leaders
                     THEN getNewValueFromNomination(n, u.round, u.votes, st) ELSE {}
    IN  [u EXCEPT !.votes = @ \cup newVote]

\* Mutant: an activation that emits forgets its new candidates.
processEnvelopeForget(n, s, m, st) ==
    LET t == recordEnvelope(s, m, st)
        u == promote(n, t, m, st)
    IN  IF ~ s.started THEN t
        ELSE IF Statement(u) # Statement(s) THEN emitNomination(u, FALSE)
        ELSE IF u.candidates # s.candidates THEN combine(u)
        ELSE u

processEnvelope(n, s, m, st) ==
    LET t == recordEnvelope(s, m, st)
        u == promote(n, t, m, st)
        newCandidates == u.candidates # s.candidates
    IN  IF ~ s.started THEN t
        ELSE IF Statement(u) # Statement(s) THEN emitNomination(u, newCandidates)
        ELSE IF newCandidates THEN combine(u)
        ELSE u

-----------------------------------------------------------------------------
(***************************************************************************)
(* The steps.  A handler runs to its end before the next one starts.           *)
(***************************************************************************)
idle == \A n \in Intact : nom[n].stack = << >>

Update(n, s) ==
    /\ nom' = [nom EXCEPT ![n] = s]
    /\ sent' = IF s.last \in {nom[n].last, NoNomination}
                 THEN sent ELSE [sent EXCEPT ![n] = @ \cup {s.last}]
    /\ introduced' = introduced \cup (s.votes \ (nom[n].votes \cup s.accepted))

\* nominate(value, previousValue, timedout), once it is known to go ahead.
nominate(n, s, x) ==
    LET t == updateRoundLeaders(n, [s EXCEPT !.started = TRUE, !.value = x,
                                             !.round = roundAfter(@, 1)])
        u == [t EXCEPT !.votes = @ \cup (IF n \in t.leaders THEN {x} ELSE {})]
        v == [u EXCEPT !.votes = @ \cup leaderVotes(n, u)]
    IN  IF v.votes # s.votes THEN emitNomination(v, FALSE) ELSE v

\* The herder triggers the next ledger.
Nominate(n, x) ==
    /\ idle /\ ~ nom[n].threw
    /\ nom[n].value = NoValue
    /\ Update(n, nominate(n, nom[n], x))

\* The timer expires; it is not armed again once nomination is stopped.
NominationTimerExpired(n) ==
    LET s == nom[n]
    IN  /\ idle /\ ~ s.threw
        /\ s.value # NoValue
        /\ s.started
        /\ Update(n, nominate(n, s, s.value))

ReceiveNomination(n, m, st) ==
    /\ idle /\ ~ nom[n].threw
    /\ isNewerStatement(nom[n].latest[m], st)
    /\ isSane(st)
    /\ Update(n, processEnvelope(n, nom[n], m, st))

\* The node processes the statement it is about to emit.
ProcessOwn(n) ==
    LET s == [nom[n] EXCEPT !.calling = FALSE]
        st == Head(s.stack).st
    IN  /\ nom[n].stack # << >> /\ nom[n].calling /\ ~ s.threw
        /\ Update(n, IF isNewerStatement(s.latest[n], st) /\ isSane(st)
                       THEN processEnvelope(n, s, n, st)
                       ELSE [s EXCEPT !.threw = TRUE])

\* Mutant: a caller overwrites the later statement of a call it made.
emittedAlways(s, st) == [s EXCEPT !.last = st]

\* emitNomination, after the statement was processed; then the rest of its caller.
emitted(s, st) == IF isNewerStatement(s.last, st) THEN [s EXCEPT !.last = st] ELSE s

Return(n) ==
    LET s == nom[n]
        frame == Head(s.stack)
        t == [emitted(s, frame.st) EXCEPT !.stack = Tail(@)]
    IN  /\ s.stack # << >> /\ ~ s.calling /\ ~ s.threw
        /\ Update(n, IF frame.newCandidates THEN combine(t) ELSE t)

\* The slot is externalized (BallotProtocol::setConfirmCommit), or the herder moves
\* on to another slot.
stopNomination(n) ==
    /\ idle
    /\ n \in MayStop
    /\ Update(n, [nom[n] EXCEPT !.started = FALSE])

\* Mutant: what the node had accepted is not restored.
setStateVotesOnly(s, n, st) ==
    IF st = NoNomination THEN s
    ELSE [recordEnvelope(s, n, st) EXCEPT !.votes = st.votes, !.last = st]

setStateFromEnvelope(s, n, st) ==
    IF st = NoNomination THEN s
    ELSE [recordEnvelope(s, n, st) EXCEPT !.accepted = st.accepted, !.votes = st.votes,
                                          !.last = st]

\* The process restarts from the last statement it emitted, which the herder saved
\* before it sent it.
Restart(n) ==
    /\ idle
    /\ n \in MayRestart
    /\ Update(n, setStateFromEnvelope(NewObject, n, nom[n].last))

Next ==
    \E n \in Intact :
        \/ \E x \in Proposal[n] : Nominate(n, x)
        \/ NominationTimerExpired(n)
        \/ \E m \in Intact \ {n} : \E st \in sent[m] : ReceiveNomination(n, m, st)
        \/ \E m \in Node \ Intact : \E st \in FaultyNomination : ReceiveNomination(n, m, st)
        \/ ProcessOwn(n)
        \/ Return(n)
        \/ stopNomination(n)
        \/ Restart(n)

Spec == Init /\ [][Next]_vars

(***************************************************************************)
(* Fairness.  The herder triggers every node; the timer is armed again by      *)
(* every round; the latest statement of every node reaches the others in the   *)
(* end; handlers run to their end.                                             *)
(***************************************************************************)
Ready(n) == idle /\ ~ nom[n].threw

Running(n) == nom[n].stack # << >> /\ ~ nom[n].threw

CanReceive(n, m) ==
    Ready(n) /\ isNewerStatement(nom[n].latest[m], nom[m].last) /\ isSane(nom[m].last)

\* Weak fairness, with the enabling conditions spelled out.
Fairness ==
    \A n \in Intact :
        /\ []<>(~ Running(n)) \/ []<><<ProcessOwn(n) \/ Return(n)>>_vars
        /\ []<>(~ (Ready(n) /\ nom[n].value = NoValue))
              \/ []<><<\E x \in Proposal[n] : Nominate(n, x)>>_vars
        /\ []<>(~ (Ready(n) /\ nom[n].value # NoValue /\ nom[n].started))
              \/ []<><<NominationTimerExpired(n)>>_vars
        /\ \A m \in Intact \ {n} :
              []<>(~ CanReceive(n, m)) \/ []<><<ReceiveNomination(n, m, nom[m].last)>>_vars

FairSpec == Spec /\ Fairness

-----------------------------------------------------------------------------
\* Nodes that are not intact cannot make an intact node accept, and so make a
\* candidate of, a value that no intact node ever voted for of its own accord: as
\* a proposal, from a leader, or as a valid variation (federatedAccept in
\* processEnvelope).
AcceptedWasIntroduced ==
    \A n \in Intact : nom[n].accepted \cup nom[n].candidates \subseteq introduced

\* Whatever a node accepted it also votes for, in every statement it emits, also
\* after a restart ("accepted" should be a subset of "votes", applyAll): peers only
\* try to accept the votes of a statement.  And a node never refuses its own statement
\* ("moved to a bad state (nomination)").
Consistent ==
    \A n \in Intact :
        /\ nom[n].candidates \subseteq nom[n].accepted
        /\ nom[n].accepted \subseteq nom[n].votes
        /\ \A st \in sent[n] : st.accepted \subseteq st.votes
        /\ ~ nom[n].threw

\* The members have their types, too.
StateConsistent == TypeOK /\ Consistent

\* The composite the ballot protocol works with combines all the candidates, when
\* no handler is running, however the calls of emitNomination were nested.
CompositeCurrent ==
    \A n \in Intact :
        nom[n].stack = << >> /\ nom[n].candidates # {}
            => nom[n].composite = combineCandidates[nom[n].candidates]

\* The statements a node emits only grow, also across a restart: no vote and no
\* acceptance is taken back, and peers will not drop one as stale.
EmitsNewer ==
    [][\A n \in Intact :
          nom'[n].last # nom[n].last => isNewerStatement(nom[n].last, nom'[n].last)]_vars

\* All nodes end up with the same candidates, and so with the same composite value
\* to start the ballot protocol with, however late they start and whoever leads.
CandidatesConverge ==
    <>[](\A m, n \in Intact : /\ nom[n].candidates # {}
                              /\ nom[m].composite = nom[n].composite
                              /\ nom[m].candidates = nom[n].candidates)
=============================================================================
