----------------------- MODULE FederatedBallotProofs -----------------------
(***************************************************************************)
(* Agreement of the ballot protocol's promises, for every set of nodes, every *)
(* quorum system that meets the assumptions of FBAS and every set of ballots. *)
(***************************************************************************)
EXTENDS FederatedBallot, TLAPS

-----------------------------------------------------------------------------
(***************************************************************************)
(* The order on ballots.                                                      *)
(***************************************************************************)

\* The counter and the value of a ballot are integers.
LEMMA BallotInt ==
    ASSUME NEW b \in Ballot
    PROVE  b.counter \in Int /\ b.value \in Int
<1>1. b.counter \in Counter \cup {UINT32_MAX} /\ b.value \in Value
  BY DEF Ballot
<1>2. b.value \in Int
  <2>1. b.value \in Nat \ {0}
    BY <1>1, ValueAssumption, Zenon
  <2>2. QED
    BY <2>1
<1>3. Counter \cup {UINT32_MAX} \subseteq Int
  BY CounterAssumption DEF Counter
<1>4. QED
  BY <1>1, <1>2, <1>3

\* Two ballots with different values are ordered one way or the other
\* (BallotProtocol::compareBallots is total).
LEMMA IncompatibleOrdered ==
    ASSUME NEW b \in Ballot, NEW c \in Ballot, ~ areBallotsCompatible(b, c)
    PROVE  areBallotsLessAndIncompatible(b, c) \/ areBallotsLessAndIncompatible(c, b)
BY BallotInt DEF areBallotsCompatible, areBallotsLessAndIncompatible, BallotLeq

\* Two ballots with the same value are ordered one way or the other.
LEMMA CompatibleOrdered ==
    ASSUME NEW b \in Ballot, NEW c \in Ballot, areBallotsCompatible(b, c)
    PROVE  areBallotsLessAndCompatible(b, c) \/ areBallotsLessAndCompatible(c, b)
BY BallotInt DEF areBallotsCompatible, areBallotsLessAndCompatible, BallotLeq

\* What is below and incompatible with a ballot is so for the higher compatible
\* ones.
LEMMA IncompatibleUpward ==
    ASSUME NEW b \in Ballot, NEW c \in Ballot, NEW d \in Ballot,
           areBallotsLessAndIncompatible(b, c), areBallotsLessAndCompatible(c, d)
    PROVE  areBallotsLessAndIncompatible(b, d)
BY BallotInt DEF areBallotsCompatible, areBallotsLessAndCompatible,
                 areBallotsLessAndIncompatible, BallotLeq

\* "Lower and compatible" is transitive.
LEMMA CompatibleTransitive ==
    ASSUME NEW b \in Ballot, NEW c \in Ballot, NEW d \in Ballot,
           areBallotsLessAndCompatible(b, c), areBallotsLessAndCompatible(c, d)
    PROVE  areBallotsLessAndCompatible(b, d)
BY BallotInt DEF areBallotsCompatible, areBallotsLessAndCompatible, BallotLeq

-----------------------------------------------------------------------------
(***************************************************************************)
(* The quorum system.                                                         *)
(***************************************************************************)

\* A set that satisfies the quorum set of an intact node has an intact member:
\* otherwise it would be a quorum that meets no other in an intact node.
LEMMA SliceIntact ==
    ASSUME NEW n \in Intact, NEW U \in Slices[n]
    PROVE  U \cap Intact # {}
<1>1. U \in SUBSET Node
  BY SlicesAssumption
<1>2. SUFFICES ASSUME U \cap Intact = {} PROVE FALSE
  OBVIOUS
<1>3. U \in QuorumFor(n)
  BY <1>1, <1>2 DEF QuorumFor, Quorum
<1>4. QED
  BY <1>3, <1>2, QuorumIntersection

\* A set that blocks an intact node has an intact member.
LEMMA BlockingIntact ==
    ASSUME NEW n \in Intact, NEW B \in SUBSET Node, isVBlocking(n, B)
    PROVE  B \cap Intact # {}
<1>1. SUFFICES ASSUME B \cap Intact = {} PROVE FALSE
  OBVIOUS
<1>2. isVBlocking(n, Node \ Intact)
  BY <1>1 DEF isVBlocking
<1>3. QED
  BY <1>2, IntactNotBlocked

\* A quorum whose members all have slices in it.
LEMMA SliceQuorum ==
    ASSUME NEW n \in Intact, NEW U \in Slices[n], \A u \in U \cap Intact : U \in Slices[u]
    PROVE  U \in QuorumFor(n)
BY SlicesAssumption DEF QuorumFor, Quorum

-----------------------------------------------------------------------------
(***************************************************************************)
(* Consequences of the invariant.                                             *)
(***************************************************************************)

\* A locked ballot has been voted for by an intact node.
LEMMA LockedVoted ==
    ASSUME NEW l, Locked(l)
    PROVE  \E u \in Intact : l \in votedCommit[u]
<1>1. PICK n \in Intact : \E Q \in QuorumFor(n) : \A u \in Q \cap Intact : l \in votedCommit[u]
  BY DEF Locked
<1>2. PICK Q \in QuorumFor(n) : \A u \in Q \cap Intact : l \in votedCommit[u]
  BY <1>1
<1>3. Q \cap Intact # {}
  BY <1>2, QuorumIntersection
<1>4. QED
  BY <1>2, <1>3

\* A locked ballot is not refused: the two quorums would share an intact node.
LEMMA LockedNotRefused ==
    ASSUME NEW l, Locked(l), Refused(l)
    PROVE  FALSE
<1>1. PICK n \in Intact : \E Q \in QuorumFor(n) : \A u \in Q \cap Intact : l \in votedCommit[u]
  BY DEF Locked
<1>2. PICK Q \in QuorumFor(n) : \A u \in Q \cap Intact : l \in votedCommit[u]
  BY <1>1
<1>3. PICK m \in Intact : \E R \in QuorumFor(m) : \A u \in R \cap Intact : Refuses(u, l)
  BY DEF Refused
<1>4. PICK R \in QuorumFor(m) : \A u \in R \cap Intact : Refuses(u, l)
  BY <1>3
<1>5. PICK u \in Intact : u \in Q /\ u \in R
  BY <1>2, <1>4, QuorumIntersection
<1>6. QED
  BY <1>2, <1>4, <1>5 DEF Refuses

\* A locked ballot is not hopeless.
LEMMA LockedNotHopeless ==
    ASSUME LocksCompatible, NEW l \in Ballot, Locked(l), Hopeless(l)
    PROVE  FALSE
<1>1. ~ Refused(l)
  BY LockedNotRefused
<1>2. PICK k \in Ballot : Locked(k) /\ areBallotsLessAndIncompatible(k, l)
  BY <1>1 DEF Hopeless
<1>3. QED
  BY <1>2 DEF LocksCompatible, areBallotsLessAndIncompatible

\* A lock on another value makes a ballot hopeless.
LEMMA LockMakesHopeless ==
    ASSUME IInv, NEW b \in Ballot, NEW l \in Ballot, Locked(l), ~ areBallotsCompatible(l, b)
    PROVE  Hopeless(b)
<1>1. CASE areBallotsLessAndIncompatible(l, b)
  BY <1>1 DEF Hopeless
<1>2. CASE areBallotsLessAndIncompatible(b, l)
  <2>1. Supported(l)
    BY LockedVoted DEF IInv, CommitSupported
  <2>2. PICK m, h : m \in Intact /\ h \in acceptedPrepared[m] /\ Supports(h, l)
    BY <2>1 DEF Supported
  <2>3. h \in Ballot
    BY <2>2 DEF IInv, TypeOK
  <2>4. SUFFICES ASSUME ~ Hopeless(b) PROVE areBallotsLessAndIncompatible(b, h)
    BY <2>2 DEF IInv, PreparedAborts
  <2>5. CASE areBallotsLessAndCompatible(l, h)
    BY <1>2, <2>3, <2>5, IncompatibleUpward
  <2>6. ASSUME NEW k \in Ballot, Locked(k),
               areBallotsLessAndCompatible(k, h), areBallotsLessAndCompatible(k, l)
        PROVE  areBallotsLessAndIncompatible(b, h)
    <3>1. ~ areBallotsCompatible(k, b)
      BY <2>6 DEF areBallotsLessAndCompatible, areBallotsCompatible
    <3>2. ~ areBallotsLessAndIncompatible(k, b)
      BY <2>4, <2>6 DEF Hopeless
    <3>3. areBallotsLessAndIncompatible(b, k)
      BY <2>6, <3>1, <3>2, IncompatibleOrdered
    <3>4. QED
      BY <2>3, <2>6, <3>3, IncompatibleUpward
  <2>7. QED
    BY <2>2, <2>5, <2>6 DEF Supports
<1>3. QED
  BY <1>1, <1>2, IncompatibleOrdered

\* A node that externalized its value rests on a lock on it.
LEMMA ExternalizedLocked ==
    ASSUME IInv, NEW u \in Intact, NEW b \in Ballot, ExternalizedPrepared(u, b)
    PROVE  \E l \in Ballot : Locked(l) /\ areBallotsCompatible(l, b)
<1>1. externalized[u] = b.value /\ externalized[u] # NoValue
  BY ValueAssumption DEF ExternalizedPrepared, Ballot, NoValue
<1>2. PICK a \in acceptedCommit[u] : a.value = b.value
  BY <1>1 DEF IInv, ExternalizedAccepted
<1>3. PICK l \in Ballot : Locked(l) /\ areBallotsLessAndCompatible(l, a)
  BY <1>2 DEF IInv, CommitLocked
<1>4. QED
  BY <1>2, <1>3 DEF areBallotsLessAndCompatible, areBallotsCompatible

\* What an intact node has prepared makes the lower incompatible ballots hopeless.
LEMMA PreparedMakesHopeless ==
    ASSUME IInv, NEW u \in Intact, NEW d \in Ballot, HasPrepared(u, d),
           NEW b \in Ballot, areBallotsLessAndIncompatible(b, d)
    PROVE  Hopeless(b)
<1>1. ASSUME NEW a \in acceptedPrepared[u], areBallotsLessAndCompatible(d, a)
      PROVE  Hopeless(b)
  <2>1. a \in Ballot
    BY DEF IInv, TypeOK
  <2>2. areBallotsLessAndIncompatible(b, a)
    BY <1>1, <2>1, IncompatibleUpward
  <2>3. QED
    BY <2>2 DEF IInv, PreparedAborts
<1>2. CASE ExternalizedPrepared(u, d)
  <2>1. PICK l \in Ballot : Locked(l) /\ areBallotsCompatible(l, d)
    BY <1>2, ExternalizedLocked
  <2>2. ~ areBallotsCompatible(l, b)
    BY <2>1 DEF areBallotsCompatible, areBallotsLessAndIncompatible
  <2>3. QED
    BY <2>1, <2>2, LockMakesHopeless
<1>3. QED
  BY <1>1, <1>2 DEF HasPrepared

\* An intact node has prepared what a quorum convinces n is prepared.
LEMMA RatifiedPrepared ==
    ASSUME NEW n \in Intact, NEW d \in PreparedRatified(n)
    PROVE  d \in Ballot /\ \E u \in Intact : HasPrepared(u, d)
<1>1. PICK U \in Slices[n] : \A u \in U \cap Intact :
          ExternalizedPrepared(u, d) \/ (HasPrepared(u, d) /\ U \in Slices[u])
  BY DEF PreparedRatified, Ratified
<1>2. QED
  BY <1>1, SliceIntact DEF HasPrepared, PreparedRatified

\* An intact node that accepted a commit backs each commit n accepts, unless a
\* whole quorum voted for it: in both cases the commit rests on a lock.
LEMMA AcceptedLocked ==
    ASSUME IInv, NEW n \in Intact, NEW c \in CommitAccepted(n) \cup CommitRatified(n)
    PROVE  \E l \in Ballot : Locked(l) /\ areBallotsLessAndCompatible(l, c)
<1>1. c \in Ballot
  BY DEF CommitAccepted, CommitRatified
<1>2. ASSUME NEW u \in Intact, NEW a \in acceptedCommit[u], areBallotsLessAndCompatible(a, c)
      PROVE  \E l \in Ballot : Locked(l) /\ areBallotsLessAndCompatible(l, c)
  <2>1. a \in Ballot
    BY DEF IInv, TypeOK
  <2>2. PICK l \in Ballot : Locked(l) /\ areBallotsLessAndCompatible(l, a)
    BY DEF IInv, CommitLocked
  <2>3. QED
    BY <1>1, <1>2, <2>1, <2>2, CompatibleTransitive
<1>3. areBallotsLessAndCompatible(c, c)
  BY <1>1, CompatibleOrdered DEF areBallotsCompatible
<1>4. ASSUME NEW u \in Intact, HasAcceptedCommit(u, c)
      PROVE  \E l \in Ballot : Locked(l) /\ areBallotsLessAndCompatible(l, c)
  BY <1>2, <1>3, <1>4 DEF HasAcceptedCommit, ExternalizedCommit
<1>5. ASSUME NEW B \in SUBSET Node, isVBlocking(n, B),
             \A u \in B \cap Intact : HasAcceptedCommit(u, c)
      PROVE  \E l \in Ballot : Locked(l) /\ areBallotsLessAndCompatible(l, c)
  BY <1>4, <1>5, BlockingIntact
<1>6. ASSUME NEW U \in Slices[n],
             \A u \in U \cap Intact :
                \/ ExternalizedCommit(u, c)
                \/ /\ VotesCommit(u, c) \/ HasAcceptedCommit(u, c)
                   /\ U \in Slices[u]
      PROVE  \E l \in Ballot : Locked(l) /\ areBallotsLessAndCompatible(l, c)
  <2>1. CASE \E u \in U \cap Intact :
                HasAcceptedCommit(u, c) \/ (VotesCommit(u, c) /\ c \notin votedCommit[u])
    BY <1>2, <1>4, <2>1 DEF VotesCommit
  <2>2. CASE ~ \E u \in U \cap Intact :
                HasAcceptedCommit(u, c) \/ (VotesCommit(u, c) /\ c \notin votedCommit[u])
    <3>1. \A u \in U \cap Intact : c \in votedCommit[u] /\ U \in Slices[u]
      BY <1>6, <2>2 DEF HasAcceptedCommit
    <3>2. Locked(c)
      BY <3>1, SliceQuorum DEF Locked
    <3>3. QED
      BY <1>1, <1>3, <3>2
  <2>3. QED
    BY <2>1, <2>2
<1>7. CASE c \in CommitAccepted(n)
  BY <1>5, <1>6, <1>7 DEF CommitAccepted, Accepted, Ratified
<1>8. CASE c \in CommitRatified(n)
  <2>1. PICK U \in Slices[n] : \A u \in U \cap Intact :
            ExternalizedCommit(u, c) \/ (HasAcceptedCommit(u, c) /\ U \in Slices[u])
    BY <1>8 DEF CommitRatified, Ratified
  <2>2. QED
    BY <1>4, <2>1, SliceIntact DEF HasAcceptedCommit
<1>9. QED
  BY <1>7, <1>8

\* Accepting d as prepared makes the lower incompatible ballots hopeless.
LEMMA AcceptedMakesHopeless ==
    ASSUME IInv, NEW n \in Intact, NEW d \in PreparedAccepted(n),
           NEW b \in Ballot, areBallotsLessAndIncompatible(b, d)
    PROVE  Hopeless(b)
<1>1. d \in Ballot
  BY DEF PreparedAccepted
<1>2. ASSUME NEW u \in Intact, HasPrepared(u, d)
      PROVE  Hopeless(b)
  BY <1>1, <1>2, PreparedMakesHopeless
<1>3. ASSUME NEW u \in Intact, NEW a \in acceptedCommit[u], areBallotsCompatible(d, a)
      PROVE  Hopeless(b)
  <2>1. PICK l \in Ballot : Locked(l) /\ areBallotsLessAndCompatible(l, a)
    BY DEF IInv, CommitLocked
  <2>2. ~ areBallotsCompatible(l, b)
    BY <1>3, <2>1 DEF areBallotsCompatible, areBallotsLessAndIncompatible,
                      areBallotsLessAndCompatible
  <2>3. QED
    BY <2>1, <2>2, LockMakesHopeless
<1>4. ASSUME NEW B \in SUBSET Node, isVBlocking(n, B),
             \A u \in B \cap Intact : HasPrepared(u, d)
      PROVE  Hopeless(b)
  BY <1>2, <1>4, BlockingIntact
<1>5. ASSUME NEW U \in Slices[n],
             \A u \in U \cap Intact :
                \/ ExternalizedPrepared(u, d)
                \/ /\ VotesPrepare(u, d) \/ HasPrepared(u, d)
                   /\ U \in Slices[u]
      PROVE  Hopeless(b)
  <2>1. SUFFICES ASSUME \A u \in U \cap Intact : /\ ~ HasPrepared(u, d)
                                                 /\ b \notin votedCommit[u]
                 PROVE  Hopeless(b)
    <3>1. ASSUME NEW u \in U \cap Intact, b \in votedCommit[u], ~ HasPrepared(u, d)
          PROVE  Hopeless(b)
      <4>1. CASE \E a \in acceptedCommit[u] : areBallotsCompatible(d, a)
        BY <1>3, <4>1
      <4>2. CASE \E v \in votedPrepare[u] : areBallotsLessAndCompatible(d, v)
        <5>1. PICK v \in votedPrepare[u] : areBallotsLessAndCompatible(d, v)
          BY <4>2
        <5>2. v \in Ballot
          BY DEF IInv, TypeOK
        <5>3. areBallotsLessAndIncompatible(b, v)
          BY <1>1, <5>1, <5>2, IncompatibleUpward
        <5>4. QED
          BY <3>1, <5>3 DEF IInv, VotesConsistent
      <4>3. QED
        BY <1>5, <3>1, <4>1, <4>2 DEF HasPrepared, VotesPrepare
    <3>2. QED
      BY <1>2, <3>1
  <2>2. \A u \in U \cap Intact : VotesPrepare(u, d) /\ U \in Slices[u]
    BY <1>5, <2>1 DEF HasPrepared
  <2>3. SUFFICES ASSUME \A u \in U \cap Intact :
                            \E v \in votedPrepare[u] : areBallotsLessAndCompatible(d, v)
                 PROVE  Hopeless(b)
    BY <1>3, <2>2 DEF VotesPrepare
  <2>4. ASSUME NEW u \in U \cap Intact
        PROVE  Refuses(u, b)
    <3>1. PICK v \in votedPrepare[u] : areBallotsLessAndCompatible(d, v)
      BY <2>3
    <3>2. v \in Ballot
      BY DEF IInv, TypeOK
    <3>3. QED
      BY <1>1, <2>1, <3>1, <3>2, IncompatibleUpward DEF Refuses
  <2>5. QED
    BY <2>2, <2>4, SliceQuorum DEF Hopeless, Refused
<1>6. QED
  BY <1>4, <1>5 DEF PreparedAccepted, Accepted, Ratified

-----------------------------------------------------------------------------
(***************************************************************************)
(* Stability: no step takes a promise back.                                   *)
(***************************************************************************)

\* The promises of every intact node only grow (an action property of every
\* handler of BallotProtocol.cpp).
LEMMA PromisesKept ==
    ASSUME TypeOK, [Next]_vars, NEW n \in Intact
    PROVE  /\ votedPrepare[n] \subseteq votedPrepare'[n]
           /\ acceptedPrepared[n] \subseteq acceptedPrepared'[n]
           /\ votedCommit[n] \subseteq votedCommit'[n]
           /\ acceptedCommit[n] \subseteq acceptedCommit'[n]
<1> DEFINE Kept == /\ votedPrepare[n] \subseteq votedPrepare'[n]
                   /\ acceptedPrepared[n] \subseteq acceptedPrepared'[n]
                   /\ votedCommit[n] \subseteq votedCommit'[n]
                   /\ acceptedCommit[n] \subseteq acceptedCommit'[n]
<1>1. CASE UNCHANGED vars
  BY <1>1 DEF vars
<1>2. ASSUME NEW m \in Intact, NEW b \in Ballot, VotePrepare(m, b)
      PROVE  Kept
  BY <1>2 DEF VotePrepare, Grow, TypeOK
<1>3. ASSUME NEW m \in Intact, NEW b \in Ballot, AcceptPrepared(m, b)
      PROVE  Kept
  BY <1>3 DEF AcceptPrepared, Grow, TypeOK
<1>4. ASSUME NEW m \in Intact, NEW h \in Ballot, NEW B \in SUBSET {h},
             NEW C \in CommitRanges, ConfirmPrepared(m, h, B, C)
      PROVE  Kept
  BY <1>4 DEF ConfirmPrepared, Grow, TypeOK
<1>5. ASSUME NEW m \in Intact, NEW C \in CommitRanges, AcceptCommit(m, C)
      PROVE  Kept
  BY <1>5 DEF AcceptCommit, Grow, TypeOK
<1>6. ASSUME NEW m \in Intact, NEW x \in Value, NEW C \in CommitRanges, Externalize(m, x, C)
      PROVE  Kept
  BY <1>6 DEF Externalize, Grow, TypeOK
<1>7. QED
  BY <1>1, <1>2, <1>3, <1>4, <1>5, <1>6 DEF Next

\* A lock is for good.
LEMMA LockedStable ==
    ASSUME TypeOK, [Next]_vars, NEW l, Locked(l)
    PROVE  Locked(l)'
<1>1. PICK n \in Intact : \E Q \in QuorumFor(n) : \A u \in Q \cap Intact : l \in votedCommit[u]
  BY DEF Locked
<1>2. PICK Q \in QuorumFor(n) : \A u \in Q \cap Intact : l \in votedCommit[u]
  BY <1>1
<1>3. \A u \in Q \cap Intact : l \in votedCommit'[u]
  BY <1>2, PromisesKept
<1>4. QED
  BY <1>2, <1>3 DEF Locked

\* A node never votes to commit what it refuses
\* (BallotProtocol::attemptConfirmPrepared looks for c at or above b only).
LEMMA RefusesStable ==
    ASSUME TypeOK, [Next]_vars, NEW n \in Intact, NEW b, Refuses(n, b)
    PROVE  Refuses(n, b)'
<1>1. \E v \in votedPrepare'[n] : areBallotsLessAndIncompatible(b, v)
  BY PromisesKept DEF Refuses
<1>2. SUFFICES b \notin votedCommit'[n]
  BY <1>1 DEF Refuses
<1>3. ASSUME NEW m \in Intact, NEW h \in Ballot, NEW B \in SUBSET {h},
             NEW C \in CommitRanges, ConfirmPrepared(m, h, B, C)
      PROVE  b \notin votedCommit'[n]
  <2>1. CASE m # n
    BY <1>3, <2>1 DEF ConfirmPrepared, Grow, TypeOK, Refuses
  <2>2. CASE m = n
    <3>1. b \notin C
      BY <1>3, <2>2 DEF ConfirmPrepared, MayVoteCommit, Refuses
    <3>2. QED
      BY <1>3, <2>2, <3>1 DEF ConfirmPrepared, Grow, TypeOK, Refuses
  <2>3. QED
    BY <2>1, <2>2
<1>4. CASE votedCommit' = votedCommit
  BY <1>4 DEF Refuses
<1>5. QED
  BY <1>3, <1>4 DEF Next, vars, VotePrepare, AcceptPrepared, AcceptCommit, Externalize

\* What is hopeless stays so.
LEMMA HopelessStable ==
    ASSUME TypeOK, [Next]_vars, NEW b, Hopeless(b)
    PROVE  Hopeless(b)'
<1>1. CASE Refused(b)
  <2>1. PICK n \in Intact : \E Q \in QuorumFor(n) : \A u \in Q \cap Intact : Refuses(u, b)
    BY <1>1 DEF Refused
  <2>2. PICK Q \in QuorumFor(n) : \A u \in Q \cap Intact : Refuses(u, b)
    BY <2>1
  <2>3. \A u \in Q \cap Intact : Refuses(u, b)'
    BY <2>2, RefusesStable
  <2>4. QED
    BY <2>2, <2>3 DEF Hopeless, Refused
<1>2. CASE \E l \in Ballot : Locked(l) /\ areBallotsLessAndIncompatible(l, b)
  BY <1>2, LockedStable DEF Hopeless
<1>3. QED
  BY <1>1, <1>2 DEF Hopeless

-----------------------------------------------------------------------------
(***************************************************************************)
(* Each step preserves each conjunct of the invariant.                        *)
(***************************************************************************)

\* A step preserves the types.
LEMMA TypeStep ==
    ASSUME TypeOK, [Next]_vars
    PROVE  TypeOK'
<1>1. \A C \in CommitRanges : C \subseteq Ballot
  BY DEF CommitRanges, CommitRange
<1>2. CASE UNCHANGED vars
  BY <1>2 DEF vars, TypeOK
<1>3. ASSUME NEW n \in Intact, NEW b \in Ballot, VotePrepare(n, b)
      PROVE  TypeOK'
  BY <1>3 DEF VotePrepare, Grow, TypeOK
<1>4. ASSUME NEW n \in Intact, NEW b \in Ballot, AcceptPrepared(n, b)
      PROVE  TypeOK'
  BY <1>4 DEF AcceptPrepared, Grow, TypeOK
<1>5. ASSUME NEW n \in Intact, NEW h \in Ballot, NEW B \in SUBSET {h},
             NEW C \in CommitRanges, ConfirmPrepared(n, h, B, C)
      PROVE  TypeOK'
  <2>1. B \subseteq Ballot /\ C \subseteq Ballot
    BY <1>1, <1>5
  <2>2. QED
    BY <1>5, <2>1 DEF ConfirmPrepared, Grow, TypeOK
<1>6. ASSUME NEW n \in Intact, NEW C \in CommitRanges, AcceptCommit(n, C)
      PROVE  TypeOK'
  BY <1>1, <1>6 DEF AcceptCommit, Grow, TypeOK
<1>7. ASSUME NEW n \in Intact, NEW x \in Value, NEW C \in CommitRanges, Externalize(n, x, C)
      PROVE  TypeOK'
  BY <1>1, <1>7 DEF Externalize, Grow, TypeOK
<1>8. QED
  BY <1>2, <1>3, <1>4, <1>5, <1>6, <1>7 DEF Next

\* A step preserves that what is prepared aborts the lower incompatible ballots:
\* only AcceptPrepared (setAcceptPrepared) adds to the prepared ballots.
LEMMA PreparedAbortsStep ==
    ASSUME IInv, [Next]_vars
    PROVE  PreparedAborts'
<1> SUFFICES ASSUME NEW n \in Intact, NEW d \in acceptedPrepared'[n], NEW b \in Ballot,
                    areBallotsLessAndIncompatible(b, d)
             PROVE  Hopeless(b)'
  BY DEF PreparedAborts
<1> SUFFICES Hopeless(b)
  BY HopelessStable DEF IInv
<1>1. CASE d \in acceptedPrepared[n]
  BY <1>1 DEF IInv, PreparedAborts
<1>2. CASE d \in PreparedAccepted(n)
  BY <1>2, AcceptedMakesHopeless
<1>3. d \in acceptedPrepared[n] \/ d \in PreparedAccepted(n)
  <2>1. ASSUME NEW m \in Intact, NEW c \in Ballot, AcceptPrepared(m, c)
        PROVE  d \in acceptedPrepared[n] \/ d \in PreparedAccepted(n)
    BY <2>1 DEF AcceptPrepared, Grow, IInv, TypeOK
  <2>2. CASE acceptedPrepared' = acceptedPrepared
    BY <2>2
  <2>3. QED
    BY <2>1, <2>2 DEF Next, vars, VotePrepare, ConfirmPrepared, AcceptCommit, Externalize
<1>4. QED
  BY <1>1, <1>2, <1>3

\* A step preserves that accepted commits rest on locks (setAcceptCommit and
\* setConfirmCommit).
LEMMA CommitLockedStep ==
    ASSUME IInv, [Next]_vars
    PROVE  CommitLocked'
<1> SUFFICES ASSUME NEW n \in Intact, NEW a \in acceptedCommit'[n]
             PROVE  \E l \in Ballot : Locked(l)' /\ areBallotsLessAndCompatible(l, a)
  BY DEF CommitLocked
<1> SUFFICES \E l \in Ballot : Locked(l) /\ areBallotsLessAndCompatible(l, a)
  BY LockedStable DEF IInv
<1>1. CASE a \in acceptedCommit[n]
  BY <1>1 DEF IInv, CommitLocked
<1>2. CASE a \in CommitAccepted(n) \cup CommitRatified(n)
  BY <1>2, AcceptedLocked
<1>3. a \in acceptedCommit[n] \/ a \in CommitAccepted(n) \cup CommitRatified(n)
  <2>1. ASSUME NEW m \in Intact, NEW C \in CommitRanges, AcceptCommit(m, C)
        PROVE  a \in acceptedCommit[n] \/ a \in CommitAccepted(n)
    BY <2>1 DEF AcceptCommit, Grow, IInv, TypeOK
  <2>2. ASSUME NEW m \in Intact, NEW x \in Value, NEW C \in CommitRanges, Externalize(m, x, C)
        PROVE  a \in acceptedCommit[n] \/ a \in CommitRatified(n)
    BY <2>2 DEF Externalize, Grow, IInv, TypeOK
  <2>3. CASE acceptedCommit' = acceptedCommit
    BY <2>3
  <2>4. QED
    BY <2>1, <2>2, <2>3 DEF Next, vars, VotePrepare, AcceptPrepared, ConfirmPrepared
<1>4. QED
  BY <1>1, <1>2, <1>3

\* A step preserves that an externalized value was accepted (setConfirmCommit
\* keeps c and h).
LEMMA ExternalizedAcceptedStep ==
    ASSUME IInv, [Next]_vars
    PROVE  ExternalizedAccepted'
<1> SUFFICES ASSUME NEW n \in Intact, externalized'[n] # NoValue
             PROVE  \E a \in acceptedCommit'[n] : a.value = externalized'[n]
  BY DEF ExternalizedAccepted
<1>1. CASE externalized'[n] = externalized[n]
  BY <1>1, PromisesKept DEF IInv, ExternalizedAccepted
<1>2. ASSUME NEW m \in Intact, NEW x \in Value, NEW C \in CommitRanges, Externalize(m, x, C),
             externalized'[n] # externalized[n]
      PROVE  \E a \in acceptedCommit'[n] : a.value = externalized'[n]
  <2>1. m = n /\ externalized'[n] = x
    BY <1>2 DEF Externalize, IInv, TypeOK
  <2>2. PICK a \in C : a.value = x
    BY <1>2 DEF Externalize
  <2>3. a \in acceptedCommit'[n]
    BY <1>2, <2>1, <2>2 DEF Externalize, Grow, IInv, TypeOK
  <2>4. QED
    BY <2>1, <2>2, <2>3
<1>3. QED
  BY <1>1, <1>2 DEF Next, vars, VotePrepare, AcceptPrepared, ConfirmPrepared, AcceptCommit

\* What makes a ballot known as aborted makes it hopeless.
LEMMA AbortedHopeless ==
    ASSUME IInv, NEW n \in Intact, NEW b \in Aborted(n)
    PROVE  Hopeless(b)
<1>1. PICK d \in acceptedPrepared[n] \cup PreparedRatified(n) :
          areBallotsLessAndIncompatible(b, d)
  BY DEF Aborted
<1>2. b \in Ballot
  BY DEF Aborted
<1>3. CASE d \in acceptedPrepared[n]
  BY <1>1, <1>2, <1>3 DEF IInv, PreparedAborts
<1>4. CASE d \in PreparedRatified(n)
  BY <1>1, <1>2, <1>4, RatifiedPrepared, PreparedMakesHopeless
<1>5. QED
  BY <1>1, <1>3, <1>4

\* A step preserves that a node leaves a ballot it voted to commit only for a
\* reason: VotePrepare moves b, ConfirmPrepared adds the votes.
LEMMA VotesConsistentStep ==
    ASSUME IInv, [Next]_vars
    PROVE  VotesConsistent'
<1> SUFFICES ASSUME NEW n \in Intact, NEW b \in votedCommit'[n], NEW v \in votedPrepare'[n],
                    areBallotsLessAndIncompatible(b, v)
             PROVE  Hopeless(b)'
  BY DEF VotesConsistent
<1> SUFFICES Hopeless(b)
  BY HopelessStable DEF IInv
<1>1. CASE b \in votedCommit[n] /\ v \in votedPrepare[n]
  BY <1>1 DEF IInv, VotesConsistent
<1>2. CASE votedCommit' = votedCommit /\ votedPrepare' = votedPrepare
  BY <1>1, <1>2
<1>3. ASSUME NEW m \in Intact, NEW c \in Ballot, VotePrepare(m, c),
             ~ (b \in votedCommit[n] /\ v \in votedPrepare[n])
      PROVE  Hopeless(b)
  <2>1. m = n /\ v = c /\ b \in votedCommit[n]
    BY <1>3 DEF VotePrepare, Grow, IInv, TypeOK
  <2>2. b \in Aborted(n)
    BY <1>3, <2>1 DEF VotePrepare, MayVotePrepare
  <2>3. QED
    BY <2>2, AbortedHopeless
<1>4. ASSUME NEW m \in Intact, NEW h \in Ballot, NEW B \in SUBSET {h},
             NEW C \in CommitRanges, ConfirmPrepared(m, h, B, C),
             ~ (b \in votedCommit[n] /\ v \in votedPrepare[n])
      PROVE  Hopeless(b)
  <2>1. /\ m = n
        /\ b \in votedCommit[n] \/ b \in C
        /\ v \in votedPrepare[n] \cup B
    BY <1>4 DEF ConfirmPrepared, Grow, IInv, TypeOK
  <2>2. b \notin C
    BY <1>4, <2>1 DEF ConfirmPrepared, MayVoteCommit
  <2>3. b \in Ballot /\ v = h /\ h \in PreparedRatified(n)
    BY <1>4, <2>1, <2>2 DEF ConfirmPrepared, IInv, TypeOK
  <2>4. QED
    BY <2>3, RatifiedPrepared, PreparedMakesHopeless
<1>5. QED
  BY <1>1, <1>2, <1>3, <1>4 DEF Next, vars, AcceptPrepared, AcceptCommit, Externalize

\* A lock with the value of c supports c whatever their counters.
LEMMA LockSupports ==
    ASSUME IInv, NEW c \in Ballot, NEW l \in Ballot, Locked(l), areBallotsCompatible(l, c)
    PROVE  Supported(c)
<1>1. Supported(l)
  BY LockedVoted DEF IInv, CommitSupported
<1>2. PICK m, h : m \in Intact /\ h \in acceptedPrepared[m] /\ Supports(h, l)
  BY <1>1 DEF Supported
<1>3. h \in Ballot
  BY <1>2 DEF IInv, TypeOK
<1>4. areBallotsCompatible(c, h)
  BY <1>2 DEF Supports, areBallotsCompatible
<1>5. ASSUME NEW k \in Ballot, Locked(k), areBallotsLessAndCompatible(k, h)
      PROVE  Supports(h, c)
  <2>1. areBallotsCompatible(k, c)
    BY <1>4, <1>5 DEF areBallotsLessAndCompatible, areBallotsCompatible
  <2>2. CASE areBallotsLessAndCompatible(k, c)
    BY <1>4, <1>5, <2>2 DEF Supports
  <2>3. CASE areBallotsLessAndCompatible(c, k)
    BY <1>3, <1>4, <1>5, <2>3, CompatibleTransitive DEF Supports
  <2>4. QED
    BY <2>1, <2>2, <2>3, CompatibleOrdered
<1>6. Supports(h, c)
  BY <1>2, <1>5 DEF Supports
<1>7. QED
  BY <1>2, <1>6 DEF Supported

\* What is supported stays so: prepared ballots and locks are never taken back.
LEMMA SupportedStable ==
    ASSUME TypeOK, [Next]_vars, NEW b, Supported(b)
    PROVE  Supported(b)'
<1>1. PICK m, h : m \in Intact /\ h \in acceptedPrepared[m] /\ Supports(h, b)
  BY DEF Supported
<1>2. h \in acceptedPrepared'[m]
  BY <1>1, PromisesKept
<1>3. Supports(h, b)'
  BY <1>1, LockedStable DEF Supports
<1>4. QED
  BY <1>1, <1>2, <1>3 DEF Supported

\* A step preserves that votes to commit are supported: setConfirmPrepared votes
\* for ballots up to one that is confirmed prepared.
LEMMA CommitSupportedStep ==
    ASSUME IInv, [Next]_vars
    PROVE  CommitSupported'
<1> SUFFICES ASSUME NEW n \in Intact, NEW b \in votedCommit'[n]
             PROVE  Supported(b)'
  BY DEF CommitSupported
<1> SUFFICES Supported(b)
  BY SupportedStable DEF IInv
<1>1. CASE b \in votedCommit[n]
  BY <1>1 DEF IInv, CommitSupported
<1>2. ASSUME NEW m \in Intact, NEW h \in Ballot, NEW B \in SUBSET {h},
             NEW C \in CommitRanges, ConfirmPrepared(m, h, B, C), b \notin votedCommit[n]
      PROVE  Supported(b)
  <2>1. m = n /\ b \in C
    BY <1>2 DEF ConfirmPrepared, Grow, IInv, TypeOK
  <2>2. b \in Ballot
    BY <2>1 DEF CommitRanges, CommitRange
  <2>3. areBallotsLessAndCompatible(b, h) /\ h \in PreparedRatified(n)
    BY <1>2, <2>1 DEF ConfirmPrepared
  <2>4. PICK u \in Intact : HasPrepared(u, h)
    BY <2>3, RatifiedPrepared
  <2>5. ASSUME NEW a \in acceptedPrepared[u], areBallotsLessAndCompatible(h, a)
        PROVE  Supported(b)
    <3>1. a \in Ballot
      BY DEF IInv, TypeOK
    <3>2. areBallotsLessAndCompatible(b, a)
      BY <2>2, <2>3, <2>5, <3>1, CompatibleTransitive
    <3>3. QED
      BY <3>2 DEF Supported, Supports, areBallotsLessAndCompatible
  <2>6. CASE ExternalizedPrepared(u, h)
    <3>1. PICK l \in Ballot : Locked(l) /\ areBallotsCompatible(l, h)
      BY <2>6, ExternalizedLocked
    <3>2. areBallotsCompatible(l, b)
      BY <2>3, <3>1 DEF areBallotsLessAndCompatible, areBallotsCompatible
    <3>3. QED
      BY <2>2, <3>1, <3>2, LockSupports
  <2>7. QED
    BY <2>4, <2>5, <2>6 DEF HasPrepared
<1>3. QED
  BY <1>1, <1>2 DEF Next, vars, VotePrepare, AcceptPrepared, AcceptCommit, Externalize

\* A step preserves that only compatible ballots are locked, the heart of the
\* argument: ConfirmPrepared completes a lock only on a ballot that is neither refused nor
\* above a lock on another value.
LEMMA LocksCompatibleStep ==
    ASSUME IInv, [Next]_vars
    PROVE  LocksCompatible'
<1>1. CASE votedCommit' = votedCommit
  BY <1>1 DEF IInv, LocksCompatible, Locked
<1>2. ASSUME NEW n \in Intact, NEW h \in Ballot, NEW B \in SUBSET {h},
             NEW C \in CommitRanges, ConfirmPrepared(n, h, B, C)
      PROVE  LocksCompatible'
  <2>1. ASSUME NEW l \in Ballot, Locked(l)', l \notin C
        PROVE  Locked(l)
    <3>1. \A u \in Intact : l \in votedCommit'[u] => l \in votedCommit[u]
      BY <1>2, <2>1 DEF ConfirmPrepared, Grow, IInv, TypeOK
    <3>2. QED
      BY <2>1, <3>1 DEF Locked
  <2>2. h \in PreparedRatified(n) /\ \A c \in C : areBallotsLessAndCompatible(c, h)
    BY <1>2 DEF ConfirmPrepared
  <2>3. PICK u \in Intact : HasPrepared(u, h)
    BY <2>2, RatifiedPrepared
  <2>4. ASSUME NEW c \in C, NEW l \in Ballot, Locked(c)', Locked(l),
               ~ areBallotsCompatible(c, l)
        PROVE  FALSE
    <3>1. c \in Ballot
      BY DEF CommitRanges, CommitRange
    <3>2. Hopeless(c)
      BY <2>4, <3>1, LockMakesHopeless DEF areBallotsCompatible
    <3>3. ~ Refused(c)
      <4>1. SUFFICES ASSUME Refused(c) PROVE FALSE
        OBVIOUS
      <4>2. PICK m, R : /\ m \in Intact /\ R \in QuorumFor(m)
                        /\ \A w \in R \cap Intact : Refuses(w, c)
        BY <4>1 DEF Refused
      <4>3. \A w \in R \cap Intact : Refuses(w, c)'
        BY <4>2, RefusesStable DEF IInv
      <4>4. Refused(c)'
        BY <4>2, <4>3 DEF Refused
      <4>5. PICK k, Q : /\ k \in Intact /\ Q \in QuorumFor(k)
                        /\ \A w \in Q \cap Intact : c \in votedCommit'[w]
        BY <2>4 DEF Locked
      <4>6. PICK w \in Intact : w \in Q /\ w \in R
        BY <4>2, <4>5, QuorumIntersection
      <4>7. QED
        BY <4>3, <4>5, <4>6 DEF Refuses
    <3>4. PICK k \in Ballot : Locked(k) /\ areBallotsLessAndIncompatible(k, c)
      BY <3>2, <3>3 DEF Hopeless
    <3>5. areBallotsLessAndIncompatible(k, h)
      BY <2>2, <3>1, <3>4, IncompatibleUpward
    <3>6. Hopeless(k)
      BY <2>3, <3>5, PreparedMakesHopeless
    <3>7. QED
      BY <3>4, <3>6, LockedNotHopeless DEF IInv
  <2>5. \A c, d \in C : areBallotsCompatible(c, d)
    BY <2>2 DEF areBallotsLessAndCompatible, areBallotsCompatible
  <2>6. SUFFICES ASSUME NEW k \in Ballot, NEW l \in Ballot, Locked(k)', Locked(l)'
                 PROVE  areBallotsCompatible(k, l)
    BY DEF LocksCompatible
  <2>7. CASE k \notin C /\ l \notin C
    BY <2>1, <2>6, <2>7 DEF IInv, LocksCompatible
  <2>8. CASE k \in C /\ l \notin C
    BY <2>1, <2>4, <2>6, <2>8
  <2>9. CASE k \notin C /\ l \in C
    BY <2>1, <2>4, <2>6, <2>9 DEF areBallotsCompatible
  <2>10. QED
    BY <2>5, <2>7, <2>8, <2>9
<1>3. QED
  BY <1>1, <1>2 DEF Next, vars, VotePrepare, AcceptPrepared, AcceptCommit, Externalize

-----------------------------------------------------------------------------
(***************************************************************************)
(* The theorems.                                                              *)
(***************************************************************************)

\* The inductive invariant holds in every state.
THEOREM Invariance == Spec => []IInv
<1>1. Init => IInv
  <2>1. SUFFICES ASSUME Init PROVE IInv
    OBVIOUS
  <2>2. TypeOK
    BY <2>1 DEF Init, TypeOK
  <2>3. \A l : ~ Locked(l)
    BY <2>1, LockedVoted DEF Init
  <2>4. QED
    BY <2>1, <2>2, <2>3 DEF Init, IInv, LocksCompatible, CommitLocked, ExternalizedAccepted,
                      PreparedAborts, VotesConsistent, CommitSupported
<1>2. IInv /\ [Next]_vars => IInv'
  <2>1. SUFFICES ASSUME IInv, [Next]_vars PROVE IInv'
    OBVIOUS
  <2>2. QED
    BY <2>1, TypeStep, LocksCompatibleStep, CommitLockedStep, ExternalizedAcceptedStep,
       PreparedAbortsStep, VotesConsistentStep, CommitSupportedStep DEF IInv
<1>3. QED
  BY <1>1, <1>2, PTL DEF Spec

\* The state always has the declared type.
THEOREM TypeCorrect == Spec => []TypeOK
<1>1. IInv => TypeOK
  BY DEF IInv
<1>2. QED
  BY <1>1, Invariance, PTL

\* No two intact nodes externalize different values, for any quorum system whose
\* quorums intersect in intact nodes and any behaviour of the other nodes.
THEOREM AgreementHolds == Spec => []Agreement
<1>1. IInv => Agreement
  <2>1. SUFFICES ASSUME IInv, NEW m \in Intact, NEW n \in Intact,
                        externalized[m] # NoValue, externalized[n] # NoValue
                 PROVE  externalized[m] = externalized[n]
    BY DEF Agreement
  <2>2. PICK a \in acceptedCommit[m] : a.value = externalized[m]
    BY <2>1 DEF IInv, ExternalizedAccepted
  <2>3. PICK b \in acceptedCommit[n] : b.value = externalized[n]
    BY <2>1 DEF IInv, ExternalizedAccepted
  <2>4. PICK k \in Ballot : Locked(k) /\ areBallotsLessAndCompatible(k, a)
    BY <2>1, <2>2 DEF IInv, CommitLocked
  <2>5. PICK l \in Ballot : Locked(l) /\ areBallotsLessAndCompatible(l, b)
    BY <2>1, <2>3 DEF IInv, CommitLocked
  <2>6. areBallotsCompatible(k, l)
    BY <2>1, <2>4, <2>5 DEF IInv, LocksCompatible
  <2>7. QED
    BY <2>2, <2>3, <2>4, <2>5, <2>6 DEF areBallotsLessAndCompatible, areBallotsCompatible
<1>2. QED
  BY <1>1, Invariance, PTL

\* Once an intact node accepted to commit a ballot, no intact node accepts a
\* commit, or a higher ballot as prepared, with another value.
THEOREM CommitExclusiveHolds == Spec => []CommitExclusive
<1>1. IInv => CommitExclusive
  <2>1. SUFFICES ASSUME IInv, NEW m \in Intact, NEW n \in Intact, NEW b \in acceptedCommit[m]
                 PROVE  /\ \A c \in acceptedCommit[n] : areBallotsCompatible(b, c)
                        /\ \A a \in acceptedPrepared[n] : ~ areBallotsLessAndIncompatible(b, a)
    BY DEF CommitExclusive
  <2>2. PICK k \in Ballot : Locked(k) /\ areBallotsLessAndCompatible(k, b)
    BY <2>1 DEF IInv, CommitLocked
  <2>3. ASSUME NEW c \in acceptedCommit[n]
        PROVE  areBallotsCompatible(b, c)
    <3>1. PICK l \in Ballot : Locked(l) /\ areBallotsLessAndCompatible(l, c)
      BY <2>1 DEF IInv, CommitLocked
    <3>2. areBallotsCompatible(k, l)
      BY <2>1, <2>2, <3>1 DEF IInv, LocksCompatible
    <3>3. QED
      BY <2>2, <3>1, <3>2 DEF areBallotsLessAndCompatible, areBallotsCompatible
  <2>4. ASSUME NEW a \in acceptedPrepared[n], areBallotsLessAndIncompatible(b, a)
        PROVE  FALSE
    <3>1. a \in Ballot /\ b \in Ballot
      BY <2>1 DEF IInv, TypeOK
    <3>2. areBallotsLessAndIncompatible(k, a)
      BY <2>2, <2>4, <3>1, BallotInt
         DEF areBallotsLessAndIncompatible, areBallotsLessAndCompatible,
             areBallotsCompatible, BallotLeq
    <3>3. Hopeless(k)
      BY <2>1, <3>2 DEF IInv, PreparedAborts
    <3>4. QED
      BY <2>1, <2>2, <3>3, LockedNotHopeless DEF IInv
  <2>5. QED
    BY <2>3, <2>4
<1>2. QED
  BY <1>1, Invariance, PTL
=============================================================================
