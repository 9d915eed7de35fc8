---------------------------- MODULE ItemFetcher ----------------------------
(***************************************************************************)
(* Fetching the quorum sets and transaction sets that SCP envelopes refer to  *)
(* from the peers: src/overlay/ItemFetcher.cpp and Tracker.cpp.  mTrackers is  *)
(* a function from the hashes that are tracked to Tracker objects:             *)
(*                                                                            *)
(*   waiting    mWaitingEnvelopes, as a set                                    *)
(*   last       mLastAskedPeer                                                 *)
(*   asked      mPeersAsked: not asked, asked, or asked as one that knew an     *)
(*              envelope which needs the item                                  *)
(*   timer      mTimer is armed                                                *)
(*   lastSeen   mLastSeenSlotIndex                                             *)
(*                                                                            *)
(* An operation that changes a tracker is an operator from the old trackers to *)
(* the new ones.  net is what tryNextPeer reads of the overlay: the             *)
(* authenticated peers, the peers told about each envelope, and the outcome of  *)
(* the random choice among the nearest candidates.                              *)
(***************************************************************************)
EXTENDS Integers, FiniteSetsExt, Functions

CONSTANTS
    Envelope,   \* SCP envelopes
    Item,       \* hashes of quorum sets and transaction sets
    Peer,       \* connections to peers
    NoPeer,     \* nobody was asked last
    slotIndex   \* slotIndex[e]: the slot of envelope e

ASSUME FetcherAssumption ==
    /\ NoPeer \notin Peer
    /\ slotIndex \in [Envelope -> Nat \ {0}]

Tracker ==
    [waiting : SUBSET Envelope, last : Peer \cup {NoPeer},
     asked : [Peer -> {"no", "asked", "knew"}], timer : BOOLEAN, lastSeen : Nat]

NewTracker ==
    [waiting |-> {}, last |-> NoPeer, asked |-> [p \in Peer |-> "no"],
     timer |-> FALSE, lastSeen |-> 0]

-----------------------------------------------------------------------------
(***************************************************************************)
(* Tracker.                                                                   *)
(***************************************************************************)
listen(t, e) ==
    [t EXCEPT !.waiting = @ \cup {e}, !.lastSeen = Max({@, slotIndex[e]})]

discard(t, E) == [t EXCEPT !.waiting = @ \ E]

cancel(t) == [t EXCEPT !.timer = FALSE, !.lastSeen = 0]

clearEnvelopesBelow(t, slot) ==
    [t EXCEPT !.waiting = {e \in @ : slotIndex[e] >= slot}]

canAskPeer(t, p, net, peerHas) ==
    /\ p \in net.authenticated
    /\ t.asked[p] = "no" \/ (peerHas /\ t.asked[p] = "asked")

newPeersWithEnvelope(t, net) ==
    {p \in UNION {net.told[e] : e \in t.waiting} : canAskPeer(t, p, net, TRUE)}

otherPeers(t, net) == {p \in Peer : canAskPeer(t, p, net, FALSE)}

\* Mutant: a list that is used up is not started again.
tryNextPeerOnce(t, net, choice) ==
    LET knowing == newPeersWithEnvelope(t, net)
        candidates == IF knowing # {} THEN knowing ELSE otherPeers(t, net)
        p == IF choice \in candidates THEN choice ELSE CHOOSE c \in candidates : TRUE
    IN  IF candidates = {}
          THEN [t EXCEPT !.last = NoPeer, !.timer = TRUE]
          ELSE [t EXCEPT !.last = p, !.timer = TRUE,
                         !.asked[p] = IF knowing # {} THEN "knew" ELSE "asked"]

\* Ask the next peer, or start over with all of them after a pause.
tryNextPeer(t, net, choice) ==
    LET knowing == newPeersWithEnvelope(t, net)
        candidates == IF knowing # {} THEN knowing ELSE otherPeers(t, net)
        p == IF choice \in candidates THEN choice ELSE CHOOSE c \in candidates : TRUE
    IN  IF candidates = {}
          THEN [t EXCEPT !.last = NoPeer, !.timer = TRUE, !.asked = NewTracker.asked]
          ELSE [t EXCEPT !.last = p, !.timer = TRUE,
                         !.asked[p] = IF knowing # {} THEN "knew" ELSE "asked"]

-----------------------------------------------------------------------------
(***************************************************************************)
(* ItemFetcher.                                                               *)
(***************************************************************************)

\* fetch, for each of the items the envelope needs
fetch(trackers, items, e, net) ==
    [i \in DOMAIN trackers \cup items |->
        IF i \notin items THEN trackers[i]
        ELSE IF i \in DOMAIN trackers THEN listen(trackers[i], e)
        ELSE tryNextPeer(listen(NewTracker, e), net, net.choice[i])]

\* stopFetch, for each of the items and the envelopes E
stopFetch(trackers, items, E) ==
    [i \in DOMAIN trackers |->
        LET t == discard(trackers[i], E)
        IN  IF i \notin items THEN trackers[i]
            ELSE IF t.waiting = {} THEN cancel(t)
            ELSE t]

getLastSeenSlotIndex(trackers, i) == IF i \in DOMAIN trackers THEN trackers[i].lastSeen ELSE 0

fetchingFor(trackers, i) == IF i \in DOMAIN trackers THEN trackers[i].waiting ELSE {}

\* Mutant: only the trackers that have nothing left to wait for are cleaned.
stopFetchingBelowKeep(trackers, items, slot) ==
    LET rest == {i \in DOMAIN trackers :
                    i \in items => clearEnvelopesBelow(trackers[i], slot).waiting # {}}
    IN  Restrict(trackers, rest)

\* stopFetchingBelowInternal of the fetcher of these items; a tracker that goes
\* takes its timer with it.
stopFetchingBelow(trackers, items, slot) ==
    LET cleared == [i \in DOMAIN trackers |->
                       IF i \in items THEN clearEnvelopesBelow(trackers[i], slot)
                                      ELSE trackers[i]]
    IN  Restrict(cleared, {i \in DOMAIN cleared : i \in items => cleared[i].waiting # {}})

doesntHave(trackers, i, p, net) ==
    IF i \in DOMAIN trackers /\ trackers[i].last = p
      THEN [trackers EXCEPT ![i] = tryNextPeer(@, net, net.choice[i])]
      ELSE trackers
=============================================================================
