---------------------------- MODULE SCPStatement ----------------------------
(***************************************************************************)
(* The statements of the ballot protocol (src/scp/BallotProtocol.cpp).  One   *)
(* record stands for the three XDR unions:                                    *)
(*                                                                            *)
(*   PREPARE      ballot, prepared, preparedPrime, nC, nH                     *)
(*   CONFIRM      ballot, prepared = (nPrepared, ballot.value), nC = nCommit, *)
(*                nH                                                          *)
(*   EXTERNALIZE  ballot = commit, nC = commit.counter, nH                    *)
(*                                                                            *)
(* with the null ballot where a field is absent.  The sender and its quorum   *)
(* set are those of the envelope the statement travels in.                    *)
(***************************************************************************)
EXTENDS SCPBallot

NONE == -1
PREPARE == 0
CONFIRM == 1
EXTERNALIZE == 2

OptionalBallot == Ballot \cup {NullBallot}

OptionalCounter == Counter \cup {0, UINT32_MAX}

Statement ==
    [type : {PREPARE, CONFIRM, EXTERNALIZE},
     ballot : OptionalBallot,
     prepared : OptionalBallot,
     preparedPrime : OptionalBallot,
     nC : OptionalCounter,
     nH : OptionalCounter]

\* No statement from a node yet; every statement is newer.
NoStatement ==
    [type |-> NONE, ballot |-> NullBallot, prepared |-> NullBallot,
     preparedPrime |-> NullBallot, nC |-> 0, nH |-> 0]

\* The type decides, then (b, p, p', h); an EXTERNALIZE statement is final.
isNewerStatement(oldst, st) ==
    \/ oldst.type < st.type
    \/ /\ oldst.type = st.type
       /\ st.type # EXTERNALIZE
       /\ \/ BallotLess(oldst.ballot, st.ballot)
          \/ /\ oldst.ballot = st.ballot
             /\ \/ BallotLess(oldst.prepared, st.prepared)
                \/ /\ oldst.prepared = st.prepared
                   /\ \/ BallotLess(oldst.preparedPrime, st.preparedPrime)
                      \/ /\ oldst.preparedPrime = st.preparedPrime
                         /\ oldst.nH < st.nH

isStatementSane(st, self) ==
    \/ /\ st.type = PREPARE
       /\ self \/ st.ballot.counter > 0
       /\ \/ NullBallot \in {st.prepared, st.preparedPrime}
          \/ areBallotsLessAndIncompatible(st.preparedPrime, st.prepared)
       /\ st.nH = 0 \/ (st.prepared # NullBallot /\ st.nH <= st.prepared.counter)
       /\ st.nC = 0 \/ (st.nH # 0 /\ st.ballot.counter >= st.nH /\ st.nH >= st.nC)
    \/ /\ st.type = CONFIRM
       /\ st.ballot.counter > 0
       /\ st.nH <= st.ballot.counter
       /\ st.nC <= st.nH
    \/ /\ st.type = EXTERNALIZE
       /\ st.ballot.counter > 0
       /\ st.nH >= st.ballot.counter

-----------------------------------------------------------------------------
(***************************************************************************)
(* What a statement promises.                                                 *)
(***************************************************************************)

\* p and p' of a PREPARE statement, p of a CONFIRM statement.
PreparedBallots(st) == {st.prepared, st.preparedPrime} \ {NullBallot}

\* The first predicate of attemptAcceptPrepared: the statement votes to prepare
\* the ballot.
votesPrepare(ballot, st) ==
    IF st.type = PREPARE THEN areBallotsLessAndCompatible(ballot, st.ballot)
                         ELSE areBallotsCompatible(ballot, st.ballot)

\* The statement says that its sender accepted the ballot as prepared.
hasPreparedBallot(ballot, st) ==
    IF st.type = EXTERNALIZE
      THEN areBallotsCompatible(ballot, st.ballot)
      ELSE \E p \in PreparedBallots(st) : areBallotsLessAndCompatible(ballot, p)

\* The first predicate of attemptAcceptCommit: the statement votes to commit the
\* value at the counters lo..hi.
votesCommit(value, lo, hi, st) ==
    /\ st.ballot.value = value
    /\ st.nC <= lo
    /\ st.type = PREPARE => st.nC # 0 /\ hi <= st.nH

\* The statement says that its sender accepted to commit the value at lo..hi.
commitPredicate(value, lo, hi, st) ==
    /\ st.type # PREPARE
    /\ st.ballot.value = value
    /\ st.nC <= lo
    /\ st.type = CONFIRM => hi <= st.nH

statementBallotCounter(st) ==
    IF st.type = EXTERNALIZE THEN UINT32_MAX ELSE st.ballot.counter

getStatementValues(st) ==
    IF st.type = PREPARE
      THEN {x.value : x \in ({st.ballot} \cup PreparedBallots(st)) \ {NullBallot}}
      ELSE {st.ballot.value}

\* The ballots getPrepareCandidates takes from the statement that triggers it.
hintBallots(hint) ==
    IF hint.type = PREPARE
      THEN {hint.ballot} \cup PreparedBallots(hint)
      ELSE PreparedBallots(hint) \cup {[counter |-> UINT32_MAX, value |-> hint.ballot.value]}

\* The candidates getPrepareCandidates takes from another statement, up to one
\* of the ballots of the hint.
candidatesUpTo(topVote, st) ==
    IF st.type = PREPARE
      THEN {x \in {st.ballot} \cup PreparedBallots(st) : areBallotsLessAndCompatible(x, topVote)}
      ELSE {x \in {topVote} \cup PreparedBallots(st) :
                /\ areBallotsCompatible(topVote, st.ballot)
                /\ x = topVote \/ x.counter < topVote.counter}

\* The counters getCommitBoundariesFromStatements takes from a statement.
boundariesOf(value, st) ==
    IF st.ballot.value # value \/ (st.type = PREPARE /\ st.nC = 0)
      THEN {}
      ELSE {st.nC, st.nH} \cup (IF st.type = EXTERNALIZE THEN {UINT32_MAX} ELSE {})
=============================================================================
