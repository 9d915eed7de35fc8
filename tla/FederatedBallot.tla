-------------------------- MODULE FederatedBallot --------------------------
(***************************************************************************)
(* What the ballot protocol of one slot promises, without its messages: the  *)
(* nodes vote to prepare ballots, accept them as prepared, vote to commit    *)
(* them, accept the commit and externalize.  Every vote and acceptance is a   *)
(* promise that is never taken back, so each node's promises are growing      *)
(* sets.  A node sees any subset of the promises of the others; nodes that    *)
(* are not intact promise whatever helps, to each node something else.        *)
(* BallotProtocol.tla, the protocol as src/scp implements it, refines this.   *)
(***************************************************************************)
EXTENDS SCPBallot, FBAS

VARIABLES
    votedPrepare,       \* ballots of the PREPARE statements
    acceptedPrepared,   \* p and p' of the statements
    votedCommit,        \* c..h of the PREPARE statements
    acceptedCommit,     \* c..h of the CONFIRM and EXTERNALIZE statements
    externalized        \* the value externalized, or NoValue

vars == <<votedPrepare, acceptedPrepared, votedCommit, acceptedCommit, externalized>>

\* The promises are sets of ballots, and a node externalizes at most one value.
TypeOK ==
    /\ votedPrepare \in [Intact -> SUBSET Ballot]
    /\ acceptedPrepared \in [Intact -> SUBSET Ballot]
    /\ votedCommit \in [Intact -> SUBSET Ballot]
    /\ acceptedCommit \in [Intact -> SUBSET Ballot]
    /\ externalized \in [Intact -> Value \cup {NoValue}]

Init ==
    /\ votedPrepare = [n \in Intact |-> {}]
    /\ acceptedPrepared = [n \in Intact |-> {}]
    /\ votedCommit = [n \in Intact |-> {}]
    /\ acceptedCommit = [n \in Intact |-> {}]
    /\ externalized = [n \in Intact |-> NoValue]

-----------------------------------------------------------------------------
(***************************************************************************)
(* What a promise stands for.  To prepare or have prepared a ballot covers    *)
(* the lower compatible ones; a node that accepted a commit votes to prepare  *)
(* every compatible ballot and to commit every higher compatible one; an      *)
(* EXTERNALIZE statement speaks for every ballot with its value, and every    *)
(* commit from its own on.                                                    *)
(***************************************************************************)
ExternalizedPrepared(n, b) == externalized[n] = b.value

ExternalizedCommit(n, b) ==
    /\ externalized[n] = b.value
    /\ \E a \in acceptedCommit[n] : areBallotsLessAndCompatible(a, b)

VotesPrepare(n, b) ==
    \/ \E v \in votedPrepare[n] : areBallotsLessAndCompatible(b, v)
    \/ \E a \in acceptedCommit[n] : areBallotsCompatible(b, a)

HasPrepared(n, b) ==
    \/ \E a \in acceptedPrepared[n] : areBallotsLessAndCompatible(b, a)
    \/ ExternalizedPrepared(n, b)

VotesCommit(n, b) ==
    \/ b \in votedCommit[n]
    \/ \E a \in acceptedCommit[n] : areBallotsLessAndCompatible(a, b)

HasAcceptedCommit(n, b) == b \in acceptedCommit[n] \/ ExternalizedCommit(n, b)

(***************************************************************************)
(* Slot::federatedRatify: the nodes U that make the promise convince n.  Each *)
(* of them needs a slice within U, except those whose EXTERNALIZE statement   *)
(* makes the promise: they speak with the quorum set {themselves}             *)
(* (Slot::getQuorumSetFromStatement).                                         *)
(***************************************************************************)
Ratified(n, promised, ext) ==
    \E U \in Slices[n] :
        \A u \in U \cap Intact : u \in ext \/ (u \in promised /\ U \in Slices[u])

\* Slot::federatedAccept
Accepted(n, voted, accept, ext) ==
    \/ \E B \in SUBSET Node : isVBlocking(n, B) /\ B \cap Intact \subseteq accept
    \/ Ratified(n, voted \cup accept, ext)

\* The ballots n confirms, or accepts, as prepared; and as committed.
PreparedRatified(n) ==
    {b \in Ballot : Ratified(n, {u \in Intact : HasPrepared(u, b)},
                                {u \in Intact : ExternalizedPrepared(u, b)})}

PreparedAccepted(n) ==
    {b \in Ballot : Accepted(n, {u \in Intact : VotesPrepare(u, b)},
                                {u \in Intact : HasPrepared(u, b)},
                                {u \in Intact : ExternalizedPrepared(u, b)})}

CommitRatified(n) ==
    {b \in Ballot : Ratified(n, {u \in Intact : HasAcceptedCommit(u, b)},
                                {u \in Intact : ExternalizedCommit(u, b)})}

CommitAccepted(n) ==
    {b \in Ballot : Accepted(n, {u \in Intact : VotesCommit(u, b)},
                                {u \in Intact : HasAcceptedCommit(u, b)},
                                {u \in Intact : ExternalizedCommit(u, b)})}

-----------------------------------------------------------------------------
\* The ballots n knows can no longer be committed: it accepted, or a quorum did,
\* that a higher incompatible ballot is prepared.
Aborted(n) ==
    {b \in Ballot : \E d \in acceptedPrepared[n] \cup PreparedRatified(n) :
                        areBallotsLessAndIncompatible(b, d)}

\* A node may move to a ballot that contradicts its votes to commit only when
\* those are aborted.
MayVotePrepare(n, b) ==
    {v \in votedCommit[n] : areBallotsLessAndIncompatible(v, b)} \subseteq Aborted(n)

\* Mutant: a node votes to commit ballots it has left behind.
MayVoteCommitAny(n, b, votes) == TRUE

\* Votes to commit are for ballots no lower than the ones voted for before.
MayVoteCommit(n, b, votes) ==
    \A v \in votes : ~ areBallotsLessAndIncompatible(b, v)

Grow(f, n, S) == [f EXCEPT ![n] = @ \cup S]

VotePrepare(n, b) ==
    /\ MayVotePrepare(n, b)
    /\ votedPrepare' = Grow(votedPrepare, n, {b})
    /\ UNCHANGED <<acceptedPrepared, votedCommit, acceptedCommit, externalized>>

AcceptPrepared(n, b) ==
    /\ b \in PreparedAccepted(n)
    /\ acceptedPrepared' = Grow(acceptedPrepared, n, {b})
    /\ UNCHANGED <<votedPrepare, votedCommit, acceptedCommit, externalized>>

\* Confirming h as prepared: vote to commit C, ballots up to h, and move to h if
\* that is ahead (B is {h} or empty).
ConfirmPrepared(n, h, B, C) ==
    /\ h \in PreparedRatified(n)
    /\ \A c \in C : /\ areBallotsLessAndCompatible(c, h)
                    /\ MayVoteCommit(n, c, votedPrepare[n] \cup B)
    /\ votedPrepare' = Grow(votedPrepare, n, B)
    /\ votedCommit' = Grow(votedCommit, n, C)
    /\ UNCHANGED <<acceptedPrepared, acceptedCommit, externalized>>

AcceptCommit(n, C) ==
    /\ C \subseteq CommitAccepted(n)
    /\ acceptedCommit' = Grow(acceptedCommit, n, C)
    /\ UNCHANGED <<votedPrepare, acceptedPrepared, votedCommit, externalized>>

\* Mutant: the commit need not be confirmed.
ExternalizeUnconfirmed(n, x, C) ==
    /\ externalized[n] = NoValue
    /\ C # {}
    /\ C \subseteq {c \in Ballot : c.value = x}
    /\ acceptedCommit' = Grow(acceptedCommit, n, C)
    /\ externalized' = [externalized EXCEPT ![n] = x]
    /\ UNCHANGED <<votedPrepare, acceptedPrepared, votedCommit>>

Externalize(n, x, C) ==
    /\ externalized[n] = NoValue
    /\ C # {}
    /\ C \subseteq {c \in CommitRatified(n) : c.value = x}
    /\ acceptedCommit' = Grow(acceptedCommit, n, C)
    /\ externalized' = [externalized EXCEPT ![n] = x]
    /\ UNCHANGED <<votedPrepare, acceptedPrepared, votedCommit>>

\* The ballots from c to h: commits are voted for and accepted by intervals.
CommitRange(c, h) ==
    {b \in Ballot : areBallotsLessAndCompatible(c, b) /\ areBallotsLessAndCompatible(b, h)}

CommitRanges == {CommitRange(c, h) : c, h \in Ballot} \cup {{}}

Next ==
    \E n \in Intact :
        \/ \E b \in Ballot : VotePrepare(n, b) \/ AcceptPrepared(n, b)
        \/ \E h \in Ballot : \E B \in SUBSET {h}, C \in CommitRanges : ConfirmPrepared(n, h, B, C)
        \/ \E C \in CommitRanges : AcceptCommit(n, C)
        \/ \E x \in Value, C \in CommitRanges : Externalize(n, x, C)

Spec == Init /\ [][Next]_vars

-----------------------------------------------------------------------------
\* Agreement: no two intact nodes externalize different values for the slot,
\* whatever the nodes that are not intact say (BallotProtocol::setConfirmCommit
\* is the only place a value is externalized).
Agreement ==
    \A m, n \in Intact :
        externalized[m] # NoValue /\ externalized[n] # NoValue
            => externalized[m] = externalized[n]

\* No contradictory acceptances: once an intact node accepted to commit a ballot,
\* no intact node accepts a commit, or accepts as prepared a higher ballot, with
\* another value (the promise BallotProtocol::setAcceptCommit relies on when it
\* drops p' and fixes the value for good).
CommitExclusive ==
    \A m, n \in Intact : \A b \in acceptedCommit[m] :
        /\ \A c \in acceptedCommit[n] : areBallotsCompatible(b, c)
        /\ \A a \in acceptedPrepared[n] : ~ areBallotsLessAndIncompatible(b, a)

-----------------------------------------------------------------------------
(***************************************************************************)
(* The inductive invariant behind Agreement.  A ballot is locked when the     *)
(* intact members of a quorum all voted to commit it, and refused when those   *)
(* of a quorum never will, having voted for a higher incompatible ballot.      *)
(***************************************************************************)
Locked(b) ==
    \E n \in Intact : \E Q \in QuorumFor(n) : \A u \in Q \cap Intact : b \in votedCommit[u]

Refuses(n, b) ==
    /\ b \notin votedCommit[n]
    /\ \E v \in votedPrepare[n] : areBallotsLessAndIncompatible(b, v)

Refused(b) ==
    \E n \in Intact : \E Q \in QuorumFor(n) : \A u \in Q \cap Intact : Refuses(u, b)

\* b will never be committed: it is refused, or a lower ballot with another
\* value is locked.
Hopeless(b) ==
    \/ Refused(b)
    \/ \E l \in Ballot : Locked(l) /\ areBallotsLessAndIncompatible(l, b)

\* h has the value of b and is as high as b, or as a locked ballot no higher
\* than b.
Supports(h, b) ==
    /\ areBallotsCompatible(b, h)
    /\ \/ areBallotsLessAndCompatible(b, h)
       \/ \E l \in Ballot : /\ Locked(l)
                           /\ areBallotsLessAndCompatible(l, h)
                           /\ areBallotsLessAndCompatible(l, b)

Supported(b) == \E m \in Intact : \E h \in acceptedPrepared[m] : Supports(h, b)

\* Only compatible ballots are locked: the two-quorum argument of the protocol.
LocksCompatible ==
    \A k, l \in Ballot : Locked(k) /\ Locked(l) => areBallotsCompatible(k, l)

\* An accepted commit rests on a locked ballot no higher than it.
CommitLocked ==
    \A n \in Intact : \A a \in acceptedCommit[n] :
        \E l \in Ballot : Locked(l) /\ areBallotsLessAndCompatible(l, a)

\* A node that externalized a value accepted a commit of it.
ExternalizedAccepted ==
    \A n \in Intact : externalized[n] # NoValue =>
        \E a \in acceptedCommit[n] : a.value = externalized[n]

\* A ballot accepted as prepared aborts every lower incompatible one.
PreparedAborts ==
    \A n \in Intact : \A d \in acceptedPrepared[n] : \A b \in Ballot :
        areBallotsLessAndIncompatible(b, d) => Hopeless(b)

\* A node that voted to commit b moved to a higher incompatible ballot only
\* because b is hopeless.
VotesConsistent ==
    \A n \in Intact : \A b \in votedCommit[n], v \in votedPrepare[n] :
        areBallotsLessAndIncompatible(b, v) => Hopeless(b)

\* Every vote to commit is supported.
CommitSupported ==
    \A n \in Intact : \A b \in votedCommit[n] : Supported(b)

\* All of it together; every handler of BallotProtocol.cpp preserves it, whatever the
\* statements of the nodes that are not intact.
IInv ==
    /\ TypeOK
    /\ LocksCompatible
    /\ CommitLocked
    /\ ExternalizedAccepted
    /\ PreparedAborts
    /\ VotesConsistent
    /\ CommitSupported
=============================================================================
