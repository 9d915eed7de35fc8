-------------------------- MODULE PendingEnvelopes --------------------------
(***************************************************************************)
(* The herder's envelopes on their way to SCP: src/herder/PendingEnvelopes.cpp *)
(* with its two item fetchers, and the parts of HerderImpl.cpp, Peer.cpp and    *)
(* Floodgate.cpp that drive it.  pending is the PendingEnvelopes object:        *)
(*                                                                            *)
(*   fetching processed discarded ready   the sets of mEnvelopes, all slots     *)
(*                                        together                             *)
(*   trackers   mQuorumSetFetcher and mTxSetFetcher                             *)
(*   cache      mQsetCache and mTxSetCache: hash to slot (0 for quorum sets)    *)
(*   held       envelopes SCP holds on to, and with them their items            *)
(*                                                                            *)
(* The main thread runs one handler at a time, but handlers nest: an item that  *)
(* arrives feeds its envelopes back to the herder one by one, an envelope that   *)
(* is ready makes the herder run the queue, and SCP may close the ledger in the  *)
(* middle of that, which erases envelopes and posts clean-up work for later.     *)
(* calls is the stack of these calls.  The node tracks the network throughout;   *)
(* the caches never fill up (they hold 10000 sets each).                         *)
(***************************************************************************)
EXTENDS ItemFetcher, Sequences

CONSTANTS
    QuorumSets,             \* the items that are quorum sets
    InsaneQuorumSets,       \* those that are not sane
    needs,                  \* needs[e]: the items envelope e refers to
    acceptable,             \* acceptable[l]: the envelopes that pass the herder's checks of
                            \* signature, close time and quorum while l is the last ledger
    MAX_SLOTS_TO_REMEMBER,
    LEDGER_VALIDITY_BRACKET,
    FirstLedger,            \* the ledger of the node as it starts
    MaxLedger,              \* bound: the last ledger that closes
    Stays,                  \* peers that stay connected
    has,                    \* has[p]: the items peer p can provide
    proposes                \* proposes[l]: the transaction sets the node may build on
                            \* ledger l (a set names the ledger it follows)

GENESIS_LEDGER_SEQ == 1

TxSets == Item \ QuorumSets

ASSUME PendingAssumption ==
    /\ QuorumSets \subseteq Item
    /\ InsaneQuorumSets \subseteq QuorumSets
    /\ needs \in [Envelope -> SUBSET Item]
    /\ MAX_SLOTS_TO_REMEMBER \in Nat \ {0}
    /\ LEDGER_VALIDITY_BRACKET \in Nat
    /\ MaxLedger \in Nat
    /\ FirstLedger \in 1 .. MaxLedger
    /\ acceptable \in [1 .. MaxLedger -> SUBSET Envelope]
    /\ Stays \subseteq Peer
    /\ has \in [Peer -> SUBSET Item]
    /\ proposes \in [1 .. MaxLedger -> SUBSET TxSets]

\* What peers that follow the protocol send.  No envelope of a slot after l + 1 refers to
\* the set that the node builds on ledger l; and an envelope that the herder let in and
\* later turns away, because its close time is too old, it turns away for good.
ProposedForNext ==
    \A l \in 1 .. MaxLedger : \A i \in proposes[l] : \A e \in Envelope :
        i \in needs[e] => slotIndex[e] <= l + 1

AcceptedOnce ==
    \A e \in Envelope : \A l, m, n \in 1 .. MaxLedger :
        l <= m /\ m <= n /\ e \in acceptable[l] /\ e \in acceptable[n] => e \in acceptable[m]

VARIABLES
    pending,    \* the PendingEnvelopes object
    flood,      \* the flood records of envelopes: peers told, ledger of the record (0: none)
    peers,      \* peers[p]: the connection is not yet, is, or is no longer authenticated
    ledger,     \* HerderImpl::getCurrentLedgerSeq
    posted,     \* work posted on the main thread
    calls,      \* the calls under way, the innermost first
    delivered   \* history: the envelopes SCP received

vars == <<pending, flood, peers, ledger, posted, calls, delivered>>

Call == [kind : {"recv"}, item : Item] \cup [kind : {"queue"}, index : 1 .. MaxLedger + 1]

Task == [kind : {"stop"}, items : {QuorumSets, TxSets}, below : 1 .. MaxLedger]
        \cup [kind : {"queue"}, index : 1 .. MaxLedger + 1]

\* Every part of the state has its type; in particular no quorum set that is not sane
\* is ever in the cache (recvSCPQuorumSet checks it before addSCPQuorumSet).
TypeOK ==
    /\ DOMAIN pending =
          {"fetching", "processed", "discarded", "ready", "trackers", "cache", "held"}
    /\ {pending.fetching, pending.processed, pending.discarded, pending.ready, pending.held}
          \subseteq SUBSET Envelope
    /\ DOMAIN pending.trackers \subseteq Item
    /\ \A i \in DOMAIN pending.trackers : pending.trackers[i] \in Tracker
    /\ DOMAIN pending.cache \subseteq Item \ InsaneQuorumSets
    /\ \A i \in DOMAIN pending.cache : pending.cache[i] \in Nat
    /\ flood \in [Envelope -> [ledger : 0 .. MaxLedger, told : SUBSET Peer]]
    /\ peers \in [Peer -> {"new", "authenticated", "dropped"}]
    /\ ledger \in 1 .. MaxLedger
    /\ posted \subseteq Task
    /\ calls \in Seq(Call)
    /\ delivered \subseteq Envelope

NoRecord == [ledger |-> 0, told |-> {}]

Init ==
    /\ pending = [fetching |-> {}, processed |-> {}, discarded |-> {}, ready |-> {},
                  trackers |-> << >>, cache |-> << >>, held |-> {}]
    /\ flood = [e \in Envelope |-> NoRecord]
    /\ peers = [p \in Peer |-> IF p \in Stays THEN "authenticated" ELSE "new"]
    /\ ledger = FirstLedger
    /\ posted = {}
    /\ calls = << >>
    /\ delivered = {}

Authenticated == {p \in Peer : peers[p] = "authenticated"}

\* What a fetcher sees of the overlay, with the outcomes of its random choices.
net(fl, choice) ==
    [authenticated |-> Authenticated,
     told |-> [e \in Envelope |-> fl[e].told],
     choice |-> choice]

-----------------------------------------------------------------------------
(***************************************************************************)
(* PendingEnvelopes.                                                          *)
(***************************************************************************)

\* getKnownQSet, getKnownTxSet: the weak reference is alive.
known(s, i) == i \in DOMAIN s.cache \/ \E e \in s.ready \cup s.held : i \in needs[e]

isFullyFetched(s, e) == \A i \in needs[e] : known(s, i)

\* The cache with the items put into it; a transaction set keeps its highest slot.
putItems(cache, items, slot) ==
    [i \in DOMAIN cache \cup items |->
        IF i \notin items THEN cache[i]
        ELSE IF i \in QuorumSets THEN 0
        ELSE IF i \in DOMAIN cache THEN Max({cache[i], slot})
        ELSE slot]

touchFetchCache(s, e) ==
    [s EXCEPT !.cache = putItems(@, {i \in needs[e] : known(s, i)}, slotIndex[e])]

startFetch(s, e, n) ==
    [s EXCEPT !.trackers = fetch(@, {i \in needs[e] : ~ known(s, i)}, e, n)]

\* Mutant: an envelope that was processed is fetched again.
recvSCPEnvelopeAgain(s, e, n) ==
    LET t == touchFetchCache(s, e)
        u == IF e \in t.fetching THEN t
             ELSE startFetch([t EXCEPT !.fetching = @ \cup {e}], e, n)
    IN  IF e \in s.discarded \/ e \notin u.fetching THEN u
        ELSE IF isFullyFetched(u, e)
          THEN [u EXCEPT !.processed = @ \cup {e}, !.fetching = @ \ {e}, !.ready = @ \cup {e}]
        ELSE startFetch(u, e, n)

\* recvSCPEnvelope
recvSCPEnvelope(s, e, n) ==
    LET t == touchFetchCache(s, e)
        u == IF e \in t.fetching \cup t.processed THEN t
             ELSE startFetch([t EXCEPT !.fetching = @ \cup {e}], e, n)
    IN  IF e \in s.discarded THEN s
        ELSE IF e \notin u.fetching THEN u
        ELSE IF isFullyFetched(u, e)
          THEN [u EXCEPT !.processed = @ \cup {e}, !.fetching = @ \ {e}, !.ready = @ \cup {e}]
        ELSE startFetch(u, e, n)

\* discardSCPEnvelopesWithQSet, with discardSCPEnvelope and stopFetch for each.
discardSCPEnvelopesWithQSet(s, i) ==
    LET envelopes == fetchingFor(s.trackers, i) \ s.discarded
    IN  [s EXCEPT !.discarded = @ \cup envelopes,
                  !.fetching = @ \ envelopes,
                  !.trackers = stopFetch(@, UNION {needs[e] : e \in envelopes}, envelopes)]

\* eraseBelow; SCP has purged its slots too, and the clean-up of the fetchers is
\* posted.  Sets of unknown slot (0) stay.
eraseBelow(s, slot) ==
    LET rest == {e \in Envelope : slotIndex[e] >= slot}
    IN  [s EXCEPT !.fetching = @ \cap rest, !.processed = @ \cap rest,
                  !.discarded = @ \cap rest, !.ready = @ \cap rest, !.held = @ \cap rest,
                  !.cache = Restrict(@, {i \in DOMAIN @ : @[i] = 0 \/ @[i] >= slot})]

-----------------------------------------------------------------------------
(***************************************************************************)
(* The herder.                                                                *)
(***************************************************************************)
getMinLedgerSeqToRemember(l) ==
    IF l > MAX_SLOTS_TO_REMEMBER THEN l - MAX_SLOTS_TO_REMEMBER + 1 ELSE GENESIS_LEDGER_SEQ

\* The checks of HerderImpl::recvSCPEnvelope.
admissible(e) ==
    /\ e \in acceptable[ledger]
    /\ slotIndex[e] >= getMinLedgerSeqToRemember(ledger)
    /\ slotIndex[e] <= ledger + 1 + LEDGER_VALIDITY_BRACKET

\* HerderImpl::recvSCPEnvelope, called by a peer or by a fetcher: c are the calls
\* under way without it, fl the flood records.  An envelope that is ready is
\* broadcast, and the queue is run.
herderRecv(s, c, e, fl, choice) ==
    LET t == recvSCPEnvelope(s, e, net(fl, choice))
        ready == e \in t.ready /\ e \notin s.ready
    IN  IF admissible(e)
          THEN /\ pending' = t
               /\ flood' = IF ready
                             THEN [fl EXCEPT ![e] =
                                      [ledger |-> IF @.ledger = 0 THEN ledger ELSE @.ledger,
                                       told |-> @.told \cup Authenticated]]
                             ELSE fl
               /\ calls' = IF ready THEN <<[kind |-> "queue", index |-> ledger + 1]>> \o c ELSE c
          ELSE pending' = s /\ flood' = fl /\ calls' = c

idle == calls = << >>

running(kind) == calls # << >> /\ Head(calls).kind = kind

\* Peer::recvSCPMessage.  A discarded envelope loses its flood record.
RecvEnvelope(p, e) ==
    LET credited == [flood EXCEPT ![e] = [ledger |-> IF @.ledger = 0 THEN ledger ELSE @.ledger,
                                          told |-> @.told \cup {p}]]
    IN  /\ idle
        /\ p \in Authenticated
        /\ IF admissible(e) /\ e \notin pending.discarded
             THEN \E choice \in [needs[e] -> Peer] : herderRecv(pending, calls, e, credited, choice)
             ELSE /\ flood' = [flood EXCEPT ![e] = NoRecord]
                  /\ UNCHANGED <<pending, calls>>
        /\ UNCHANGED <<peers, ledger, posted, delivered>>

\* ItemFetcher::recv begins, after the item was put into the cache.
addItem(i, slot) ==
    /\ pending' = [pending EXCEPT !.cache = putItems(@, {i}, slot)]
    /\ calls' = IF i \in DOMAIN pending.trackers
                  THEN <<[kind |-> "recv", item |-> i]>> \o calls
                  ELSE calls

\* recvTxSet and recvSCPQuorumSet: a peer sends an item.  What is not being fetched
\* is dropped; envelopes with a quorum set that is not sane are discarded.
RecvItem(p, i) ==
    LET slot == getLastSeenSlotIndex(pending.trackers, i)
    IN  /\ idle
        /\ p \in Authenticated /\ i \in has[p]
        /\ slot # 0
        /\ IF i \in InsaneQuorumSets
             THEN pending' = discardSCPEnvelopesWithQSet(pending, i) /\ UNCHANGED calls
             ELSE addItem(i, slot)
        /\ UNCHANGED <<flood, peers, ledger, posted, delivered>>

\* HerderImpl::triggerNextLedger: the node proposes a transaction set itself.
AddTxSet(i) ==
    /\ idle
    /\ i \in proposes[ledger]
    /\ addItem(i, ledger + 1)
    /\ UNCHANGED <<flood, peers, ledger, posted, delivered>>

\* ItemFetcher::recv hands the next waiting envelope back to the herder.
RecvWaiting ==
    /\ running("recv")
    /\ LET i == Head(calls).item
       IN  \E e \in fetchingFor(pending.trackers, i) :
             \E choice \in [needs[e] -> Peer] :
               herderRecv([pending EXCEPT !.trackers[i].waiting = @ \ {e}],
                          calls, e, flood, choice)
    /\ UNCHANGED <<peers, ledger, posted, delivered>>

\* ItemFetcher::recv is done: it stops requesting the item.
RecvDone ==
    /\ running("recv")
    /\ LET i == Head(calls).item
       IN  /\ fetchingFor(pending.trackers, i) = {}
           /\ pending' = [pending EXCEPT !.trackers[i] = cancel(@)]
    /\ calls' = Tail(calls)
    /\ UNCHANGED <<flood, peers, ledger, posted, delivered>>

\* The envelopes processSCPQueueUpToIndex takes next: the lowest slot first.
popped(s, index) ==
    LET upTo == {e \in s.ready : slotIndex[e] <= index}
    IN  {e \in upTo : \A d \in upTo : slotIndex[e] <= slotIndex[d]}

\* One round of processSCPQueueUpToIndex.  SCP keeps the envelope, or not, and may
\* let go of others.
ProcessSCPQueue ==
    /\ running("queue")
    /\ LET next == popped(pending, Head(calls).index)
       IN  IF next = {}
             THEN calls' = Tail(calls) /\ UNCHANGED <<pending, delivered>>
             ELSE /\ \E e \in next : \E kept \in SUBSET (pending.held \cup {e}) :
                        /\ pending' = [pending EXCEPT !.ready = @ \ {e}, !.held = kept]
                        /\ delivered' = delivered \cup {e}
                  /\ UNCHANGED calls
    /\ UNCHANGED <<flood, peers, ledger, posted>>

\* SCP, called by the queue or by a timer, externalizes the next slot and the
\* ledger closes: HerderImpl::valueExternalized and ledgerClosed.
LedgerClosed ==
    LET l == ledger + 1
        min == getMinLedgerSeqToRemember(l)
        queue == [kind |-> "queue", index |-> l + 1]
    IN  /\ ~ running("recv")
        /\ l <= MaxLedger
        /\ ledger' = l
        /\ IF min > GENESIS_LEDGER_SEQ
             THEN /\ pending' = eraseBelow(pending, min)
                  /\ flood' = [e \in Envelope |->
                                  IF flood[e].ledger < min THEN NoRecord ELSE flood[e]]
                  /\ posted' = posted \cup {queue} \cup
                        [kind : {"stop"}, items : {QuorumSets, TxSets}, below : {min}]
             ELSE posted' = posted \cup {queue} /\ UNCHANGED <<pending, flood>>
        /\ UNCHANGED <<peers, calls, delivered>>

\* The main thread gets to the work that was posted.
RunPosted(task) ==
    /\ idle
    /\ posted' = posted \ {task}
    /\ IF task.kind = "stop"
         THEN /\ pending' = [pending EXCEPT
                                !.trackers = stopFetchingBelow(@, task.items, task.below)]
              /\ UNCHANGED calls
         ELSE calls' = <<task>> /\ UNCHANGED pending
    /\ UNCHANGED <<flood, peers, ledger, delivered>>

\* The peer says it does not have the item (Peer::recvDontHave), also long after it
\* was asked.
DoesntHave(p, i) ==
    /\ idle
    /\ p \in Authenticated /\ i \notin has[p]
    /\ \E q \in Peer :
          pending' = [pending EXCEPT !.trackers = doesntHave(@, i, p, net(flood, [j \in {i} |-> q]))]
    /\ UNCHANGED <<flood, peers, ledger, posted, calls, delivered>>

\* The timer of a tracker expires: its peer did not answer.
FetchTimeout(i) ==
    /\ idle
    /\ i \in DOMAIN pending.trackers
    /\ pending.trackers[i].timer
    /\ \E q \in Peer :
          pending' = [pending EXCEPT !.trackers[i] = tryNextPeer(@, net(flood, << >>), q)]
    /\ UNCHANGED <<flood, peers, ledger, posted, calls, delivered>>

\* A connection is authenticated, or dropped.
PeerConnects(p) ==
    /\ idle
    /\ peers[p] = "new"
    /\ peers' = [peers EXCEPT ![p] = "authenticated"]
    /\ UNCHANGED <<pending, flood, ledger, posted, calls, delivered>>

PeerDrops(p) ==
    /\ idle
    /\ peers[p] = "authenticated" /\ p \notin Stays
    /\ peers' = [peers EXCEPT ![p] = "dropped"]
    /\ UNCHANGED <<pending, flood, ledger, posted, calls, delivered>>

Next ==
    \/ \E p \in Peer : \/ \E e \in Envelope : RecvEnvelope(p, e)
                       \/ \E i \in Item : RecvItem(p, i) \/ DoesntHave(p, i)
                       \/ PeerConnects(p) \/ PeerDrops(p)
    \/ \E i \in Item : AddTxSet(i) \/ FetchTimeout(i)
    \/ RecvWaiting \/ RecvDone \/ ProcessSCPQueue \/ LedgerClosed
    \/ \E task \in posted : RunPosted(task)

Spec == Init /\ [][Next]_vars

-----------------------------------------------------------------------------
(***************************************************************************)
(* Fairness.  Calls return, a timer that stays armed expires however busy the   *)
(* main thread is, and a peer that is asked again and again for an item it has  *)
(* sends it.                                                                  *)
(***************************************************************************)
Asked(i) ==
    /\ i \in DOMAIN pending.trackers
    /\ pending.trackers[i].waiting # {}
    /\ pending.trackers[i].last \in {p \in Stays : i \in has[p]}

\* A timer is armed, and its expiry changes something (ENABLED <<FetchTimeout(i)>>_vars,
\* but for the calls under way).
Armed(i) ==
    /\ i \in DOMAIN pending.trackers
    /\ pending.trackers[i].timer
    /\ \E q \in Peer :
          tryNextPeer(pending.trackers[i], net(flood, << >>), q) # pending.trackers[i]

Step == RecvWaiting \/ RecvDone \/ ProcessSCPQueue

Fairness ==
    /\ []<>idle \/ []<><<Step>>_vars
    /\ \A i \in Item :
          /\ <>[](~ Asked(i)) \/ []<><<\E p \in Stays : RecvItem(p, i)>>_vars
          /\ []<>(~ Armed(i)) \/ []<><<FetchTimeout(i)>>_vars

FairSpec == Spec /\ Fairness

-----------------------------------------------------------------------------
\* The fetchers work for the envelopes the herder wants, and for no others.  Whatever
\* an envelope being fetched still lacks it waits for, however ledgers close and
\* connections drop meanwhile; it does not stay behind once everything is there
\* (PendingEnvelopes::recvSCPEnvelope); and nothing waits for an item but what is being
\* fetched, up to the clean-up that is already posted (stopFetchingBelow).
FetchersMatch ==
    /\ TypeOK
    /\ \A e \in pending.fetching :
          /\ \A i \in needs[e] :
                \/ known(pending, i)
                \/ i \in DOMAIN pending.trackers /\ e \in pending.trackers[i].waiting
          /\ idle /\ admissible(e) => ~ isFullyFetched(pending, e)
    /\ \A i \in DOMAIN pending.trackers : \A e \in pending.trackers[i].waiting :
          \/ e \in pending.fetching
          \/ \E task \in posted : /\ task.kind = "stop"
                                  /\ i \in task.items
                                  /\ slotIndex[e] < task.below

\* SCP receives every envelope at most once, and none that was discarded because its
\* quorum set is not sane: the processed and the discarded ones are remembered as long
\* as the herder lets envelopes of their slot in (eraseBelow and the range check of
\* HerderImpl::recvSCPEnvelope have to agree).
DeliveredOnce ==
    /\ pending.ready \cap delivered = {}
    /\ pending.discarded \cap (pending.fetching \cup pending.ready \cup delivered) = {}

\* An envelope whose items are asked for does not wait forever for what a peer has,
\* whichever peers are asked first and however slow they are.  (A tracker that was
\* cancelled asks nobody, and stays in mTrackers until its slot is cleaned up.)
Fetched ==
    \A e \in Envelope :
        /\ e \in pending.fetching
        /\ \A i \in needs[e] \cap DOMAIN pending.trackers : pending.trackers[i].timer
        ~> e \notin pending.fetching
=============================================================================
