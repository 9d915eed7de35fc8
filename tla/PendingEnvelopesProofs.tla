----------------------- MODULE PendingEnvelopesProofs -----------------------
(***************************************************************************)
(* The safety of the herder's envelopes and of the item fetchers, for any     *)
(* number of envelopes, items, peers and ledgers.                              *)
(***************************************************************************)
EXTENDS PendingEnvelopes, TLAPS

-----------------------------------------------------------------------------
(***************************************************************************)
(* What the operations of the fetchers do.                                    *)
(***************************************************************************)

\* The greater of two numbers.
LEMMA MaxOfTwo ==
    ASSUME NEW x \in Nat, NEW y \in Nat
    PROVE  LET m == Max({x, y}) IN m \in Nat /\ m >= x /\ m >= y /\ m \in {x, y}
<1>1. \E m \in {x, y} : \A z \in {x, y} : m >= z
  BY SMT
<1>2. Max({x, y}) \in {x, y} /\ \A z \in {x, y} : Max({x, y}) >= z
  BY <1>1, Zenon DEF Max
<1>3. QED
  BY <1>2, Zenon

\* What a fetcher sees of the overlay is about peers.
IsNet(n) == n.authenticated \subseteq Peer /\ n.told \in [Envelope -> SUBSET Peer]

\* Asking another peer changes nothing of what a tracker waits for.
LEMMA TryNextPeer ==
    ASSUME NEW t \in Tracker, NEW n, IsNet(n), NEW q
    PROVE  LET r == tryNextPeer(t, n, q)
           IN  r \in Tracker /\ r.waiting = t.waiting /\ r.lastSeen = t.lastSeen
<1> DEFINE knowing == newPeersWithEnvelope(t, n)
           candidates == IF knowing # {} THEN knowing ELSE otherPeers(t, n)
           p == IF q \in candidates THEN q ELSE CHOOSE c \in candidates : TRUE
<1>1. knowing \subseteq Peer /\ otherPeers(t, n) \subseteq Peer
  BY Zenon DEF newPeersWithEnvelope, otherPeers, canAskPeer, IsNet
<1>2. candidates \subseteq Peer
  BY <1>1, Zenon
<1>3. candidates # {} => p \in candidates
  BY Zenon
<1>4. NewTracker.asked \in [Peer -> {"no", "asked", "knew"}]
  BY Zenon DEF NewTracker
<1> HIDE DEF candidates, p, knowing
<1>5. CASE candidates = {}
  <2>1. tryNextPeer(t, n, q) =
            [t EXCEPT !.last = NoPeer, !.timer = TRUE, !.asked = NewTracker.asked]
    BY <1>5, Zenon DEF tryNextPeer, candidates, knowing
  <2>2. QED
    BY <1>4, <2>1, Zenon DEF Tracker
<1>6. CASE candidates # {}
  <2> DEFINE w == IF knowing # {} THEN "knew" ELSE "asked"
             a == [t.asked EXCEPT ![p] = w]
  <2>1. w \in {"asked", "knew"}
    BY Zenon
  <2>2. p \in Peer
    BY <1>2, <1>3, <1>6, Zenon
  <2>3. a \in [Peer -> {"no", "asked", "knew"}]
    <3>1. t.asked \in [Peer -> {"no", "asked", "knew"}]
      BY Zenon DEF Tracker
    <3> HIDE DEF w
    <3>2. QED
      BY <2>1, <2>2, <3>1, Zenon
  <2>4. tryNextPeer(t, n, q) = [t EXCEPT !.last = p, !.timer = TRUE, !.asked = a]
    BY <1>6, Zenon DEF tryNextPeer, candidates, knowing, p
  <2>5. QED
    <3> HIDE DEF a
    <3>1. QED
      BY <2>2, <2>3, <2>4, Zenon DEF Tracker
<1>7. QED
  BY <1>5, <1>6, Zenon

\* A tracker waits for one more envelope.
LEMMA Listen ==
    ASSUME NEW t \in Tracker, NEW e \in Envelope
    PROVE  LET r == listen(t, e)
           IN  /\ r \in Tracker /\ r.waiting = t.waiting \cup {e}
               /\ r.lastSeen >= t.lastSeen /\ r.lastSeen >= slotIndex[e]
<1>1. t.lastSeen \in Nat /\ slotIndex[e] \in Nat
  BY FetcherAssumption, Zenon DEF Tracker
<1>2. LET m == Max({t.lastSeen, slotIndex[e]})
      IN  m \in Nat /\ m >= t.lastSeen /\ m >= slotIndex[e]
  BY <1>1, MaxOfTwo, Zenon
<1>3. QED
  BY <1>2, Zenon DEF listen, Tracker

IsTrackers(tr) == DOMAIN tr \subseteq Item /\ \A i \in DOMAIN tr : tr[i] \in Tracker

\* new are the trackers tr after e was fetched for the items.
Fetches(tr, new, items, e) ==
    /\ IsTrackers(new)
    /\ DOMAIN new = DOMAIN tr \cup items
    /\ \A i \in Item : fetchingFor(new, i) =
                          fetchingFor(tr, i) \cup (IF i \in items THEN {e} ELSE {})
    /\ \A i \in items : new[i].lastSeen >= slotIndex[e]
    /\ \A i \in DOMAIN tr : new[i].lastSeen >= tr[i].lastSeen

\* Fetching makes the envelope wait for the items.
LEMMA Fetch ==
    ASSUME NEW tr, IsTrackers(tr), NEW items \in SUBSET Item, NEW e \in Envelope,
           NEW n, IsNet(n)
    PROVE  Fetches(tr, fetch(tr, items, e, n), items, e)
<1> DEFINE new == fetch(tr, items, e, n)
           fresh(i) == tryNextPeer(listen(NewTracker, e), n, n.choice[i])
<1>1. NewTracker \in Tracker /\ NewTracker.waiting = {} /\ NewTracker.lastSeen = 0
  BY Zenon DEF NewTracker, Tracker
<1>2. \A i : /\ fresh(i) \in Tracker /\ fresh(i).waiting = {e}
             /\ fresh(i).lastSeen >= slotIndex[e]
  <2>1. LET r == listen(NewTracker, e)
        IN  r \in Tracker /\ r.waiting = {e} /\ r.lastSeen >= slotIndex[e]
    BY <1>1, Listen, Zenon
  <2>2. QED
    BY <2>1, TryNextPeer
<1>3. /\ DOMAIN new = DOMAIN tr \cup items
      /\ \A i \in DOMAIN tr \cup items :
            new[i] = IF i \notin items THEN tr[i]
                     ELSE IF i \in DOMAIN tr THEN listen(tr[i], e)
                     ELSE fresh(i)
  BY Zenon DEF fetch
<1> HIDE DEF new, fresh
<1>4. \A i \in DOMAIN tr :
         LET r == listen(tr[i], e)
         IN  /\ r \in Tracker /\ r.waiting = tr[i].waiting \cup {e}
             /\ r.lastSeen >= tr[i].lastSeen /\ r.lastSeen >= slotIndex[e]
  BY Listen, Zenon DEF IsTrackers
<1>5. \A i \in DOMAIN tr : tr[i].lastSeen \in Nat
  BY Zenon DEF IsTrackers, Tracker
<1>6. IsTrackers(new)
  BY <1>2, <1>3, <1>4, Zenon DEF IsTrackers
<1>7. \A i \in Item : fetchingFor(new, i) =
                         fetchingFor(tr, i) \cup (IF i \in items THEN {e} ELSE {})
  BY <1>2, <1>3, <1>4, Zenon DEF fetchingFor
<1>8. /\ \A i \in items : new[i].lastSeen >= slotIndex[e]
      /\ \A i \in DOMAIN tr : new[i].lastSeen >= tr[i].lastSeen
  BY <1>2, <1>3, <1>4, <1>5
<1>9. QED
  BY <1>3, <1>6, <1>7, <1>8, Zenon DEF Fetches, new

-----------------------------------------------------------------------------
(***************************************************************************)
(* What PendingEnvelopes::recvSCPEnvelope does.                               *)
(***************************************************************************)

\* The part of the type invariant that is about the PendingEnvelopes object.
IsPending(s) ==
    /\ DOMAIN s =
          {"fetching", "processed", "discarded", "ready", "trackers", "cache", "held"}
    /\ {s.fetching, s.processed, s.discarded, s.ready, s.held} \subseteq SUBSET Envelope
    /\ IsTrackers(s.trackers)
    /\ DOMAIN s.cache \subseteq Item \ InsaneQuorumSets
    /\ \A i \in DOMAIN s.cache : s.cache[i] \in Nat

\* The cache keeps item i as long as the herder may want envelope e.
Cached(cache, i, e) ==
    /\ i \in DOMAIN cache
    /\ IF i \in QuorumSets THEN cache[i] = 0 ELSE cache[i] >= slotIndex[e]

\* The caches c and d have the same items, d with higher slots.
Touched(c, d) ==
    /\ DOMAIN d \subseteq Item \ InsaneQuorumSets
    /\ DOMAIN c \subseteq DOMAIN d
    /\ \A i \in DOMAIN d : d[i] \in Nat
    /\ \A i \in DOMAIN c : \A e \in Envelope : Cached(c, i, e) => Cached(d, i, e)

\* Putting items into the cache keeps it a cache, and what was in it.
LEMMA PutItems ==
    ASSUME NEW c, NEW items \in SUBSET (Item \ InsaneQuorumSets), NEW slot \in Nat,
           DOMAIN c \subseteq Item \ InsaneQuorumSets,
           \A i \in DOMAIN c : c[i] \in Nat
    PROVE  LET d == putItems(c, items, slot)
           IN  /\ Touched(c, d)
               /\ DOMAIN d = DOMAIN c \cup items
               /\ \A i \in items : \A e \in Envelope :
                     slotIndex[e] <= slot => Cached(d, i, e)
<1> DEFINE d == putItems(c, items, slot)
           m(i) == Max({c[i], slot})
<1>1. /\ DOMAIN d = DOMAIN c \cup items
      /\ \A i \in DOMAIN c \cup items :
            d[i] = IF i \notin items THEN c[i]
                   ELSE IF i \in QuorumSets THEN 0
                   ELSE IF i \in DOMAIN c THEN m(i)
                   ELSE slot
  BY Zenon DEF putItems
<1>2. \A i \in DOMAIN c : m(i) \in Nat /\ m(i) >= c[i] /\ m(i) >= slot
  BY MaxOfTwo, Zenon
<1>3. \A e \in Envelope : slotIndex[e] \in Nat
  BY FetcherAssumption, Zenon
<1> HIDE DEF d, m
<1>4. \A i \in DOMAIN d : d[i] \in Nat
  BY <1>1, <1>2
<1>5. \A i \in DOMAIN c : \A e \in Envelope : Cached(c, i, e) => Cached(d, i, e)
  BY <1>1, <1>2, <1>3 DEF Cached
<1>6. \A i \in items : \A e \in Envelope : slotIndex[e] <= slot => Cached(d, i, e)
  BY <1>1, <1>2, <1>3 DEF Cached
<1>7. QED
  BY <1>1, <1>4, <1>5, <1>6, Zenon DEF Touched, d

\* No item of these envelopes is a quorum set that is not sane.
Sane(E) == \A e \in E : needs[e] \cap InsaneQuorumSets = {}

\* A known item is not a quorum set that is not sane.
LEMMA KnownIsSane ==
    ASSUME NEW s, IsPending(s), Sane(s.ready \cup s.held),
           NEW i \in Item, known(s, i)
    PROVE  i \in Item \ InsaneQuorumSets
BY Zenon DEF known, IsPending, Sane

\* The envelope is known already.
Repeated(s, r, e) ==
    /\ e \notin s.fetching
    /\ r.fetching = s.fetching /\ r.processed = s.processed /\ r.ready = s.ready
    /\ r.trackers = s.trackers

\* The envelope is ready for SCP.
Readied(s, r, e) ==
    /\ e \notin s.processed /\ e \notin s.discarded
    /\ isFullyFetched(s, e)
    /\ r.fetching = s.fetching \ {e} /\ r.processed = s.processed \cup {e}
    /\ r.ready = s.ready \cup {e}
    /\ IsTrackers(r.trackers)
    /\ DOMAIN r.trackers = DOMAIN s.trackers
    /\ \A i \in Item : fetchingFor(r.trackers, i) = fetchingFor(s.trackers, i)
    /\ \A i \in DOMAIN s.trackers : r.trackers[i].lastSeen >= s.trackers[i].lastSeen

\* The items the envelope lacks are fetched.
Requested(s, r, e) ==
    /\ e \notin s.processed /\ e \notin s.discarded
    /\ ~ isFullyFetched(s, e)
    /\ r.fetching = s.fetching \cup {e} /\ r.processed = s.processed /\ r.ready = s.ready
    /\ Fetches(s.trackers, r.trackers, {i \in needs[e] : ~ known(s, i)}, e)

\* r is s after envelope e was received.
Received(s, r, e) ==
    /\ DOMAIN r = DOMAIN s
    /\ r.discarded = s.discarded /\ r.held = s.held
    /\ Touched(s.cache, r.cache)
    /\ \A i \in DOMAIN r.cache : known(s, i)
    /\ e \notin s.discarded =>
          \A i \in needs[e] : known(s, i) => Cached(r.cache, i, e)
    /\ Repeated(s, r, e) \/ Readied(s, r, e) \/ Requested(s, r, e)

\* What is known depends on the cache, the ready and the held envelopes only.
LEMMA KnownSame ==
    ASSUME NEW s, NEW r, s.ready = r.ready, s.held = r.held,
           DOMAIN s.cache \subseteq DOMAIN r.cache,
           \A i \in DOMAIN r.cache : known(s, i),
           NEW e \in Envelope
    PROVE  /\ \A i \in needs[e] : known(r, i) <=> known(s, i)
           /\ {i \in needs[e] : known(r, i)} = {i \in needs[e] : known(s, i)}
           /\ {i \in needs[e] : ~ known(r, i)} = {i \in needs[e] : ~ known(s, i)}
           /\ isFullyFetched(r, e) <=> isFullyFetched(s, e)
<1>1. \A i : known(r, i) <=> known(s, i)
  BY Zenon DEF known
<1>2. QED
  BY <1>1, Zenon DEF isFullyFetched

\* Fetching twice is fetching once.
LEMMA FetchTwice ==
    ASSUME NEW tr, IsTrackers(tr), NEW items \in SUBSET Item, NEW e \in Envelope, NEW new,
           NEW newer, Fetches(tr, new, items, e), Fetches(new, newer, items, e)
    PROVE  Fetches(tr, newer, items, e)
<1>1. /\ \A i \in DOMAIN tr : tr[i].lastSeen \in Nat
      /\ \A i \in DOMAIN new : new[i].lastSeen \in Nat
      /\ \A i \in DOMAIN newer : newer[i].lastSeen \in Nat
  BY Zenon DEF Fetches, IsTrackers, Tracker
<1>2. \A i \in DOMAIN tr : newer[i].lastSeen >= tr[i].lastSeen
  BY <1>1 DEF Fetches
<1>3. QED
  BY <1>2, Zenon DEF Fetches

\* An envelope that lacks nothing is not fetched.
LEMMA FetchNothing ==
    ASSUME NEW tr, NEW new, NEW e \in Envelope, Fetches(tr, new, {}, e)
    PROVE  /\ IsTrackers(new)
           /\ DOMAIN new = DOMAIN tr
           /\ \A i \in Item : fetchingFor(new, i) = fetchingFor(tr, i)
           /\ \A i \in DOMAIN tr : new[i].lastSeen >= tr[i].lastSeen
BY Zenon DEF Fetches

\* PendingEnvelopes::recvSCPEnvelope takes one of three ways.
LEMMA ReceivedRight ==
    ASSUME NEW s, IsPending(s), Sane(s.ready \cup s.held),
           s.fetching \cap s.processed = {}, s.fetching \cap s.discarded = {},
           NEW n, IsNet(n), NEW e \in Envelope
    PROVE  Received(s, recvSCPEnvelope(s, e, n), e)
<1> DEFINE r == recvSCPEnvelope(s, e, n)
           K == {i \in needs[e] : known(s, i)}
           U == {i \in needs[e] : ~ known(s, i)}
           d == putItems(s.cache, K, slotIndex[e])
           t == touchFetchCache(s, e)
           v == [t EXCEPT !.fetching = @ \cup {e}]
<1> SUFFICES Received(s, r, e)
  BY Zenon
<1>1. K \in SUBSET (Item \ InsaneQuorumSets) /\ U \in SUBSET Item
  BY KnownIsSane, PendingAssumption, Zenon
<1>2. slotIndex[e] \in Nat
  BY FetcherAssumption, Zenon
<1>3. /\ Touched(s.cache, d)
      /\ DOMAIN d = DOMAIN s.cache \cup K
      /\ \A i \in K : Cached(d, i, e)
  <2>1. /\ DOMAIN s.cache \subseteq Item \ InsaneQuorumSets
        /\ \A i \in DOMAIN s.cache : s.cache[i] \in Nat
    BY Zenon DEF IsPending
  <2> HIDE DEF K
  <2>2. LET dd == putItems(s.cache, K, slotIndex[e])
        IN  /\ Touched(s.cache, dd)
            /\ DOMAIN dd = DOMAIN s.cache \cup K
            /\ \A i \in K : \A x \in Envelope :
                  slotIndex[x] <= slotIndex[e] => Cached(dd, i, x)
    BY <1>1, <1>2, <2>1, PutItems, Zenon
  <2>3. QED
    BY <1>2, <2>2
<1>4. \A i \in DOMAIN d : known(s, i)
  BY <1>3, Zenon DEF known
<1>5. DOMAIN s.cache \subseteq DOMAIN d
  BY <1>3, Zenon
<1>6. /\ DOMAIN t = DOMAIN s /\ t.cache = d
      /\ t.fetching = s.fetching /\ t.processed = s.processed /\ t.discarded = s.discarded
      /\ t.ready = s.ready /\ t.held = s.held /\ t.trackers = s.trackers
  BY Zenon DEF touchFetchCache, IsPending
<1> HIDE DEF d
<1>7. CASE e \in s.discarded
  <2>1. r = s
    BY <1>7, Zenon DEF recvSCPEnvelope
  <2>2. Touched(s.cache, s.cache)
    BY Zenon DEF Touched, IsPending
  <2>3. Repeated(s, r, e)
    BY <1>7, <2>1, Zenon DEF Repeated
  <2>4. \A i \in DOMAIN s.cache : known(s, i)
    BY Zenon DEF known
  <2> HIDE DEF r
  <2>5. QED
    BY <1>7, <2>1, <2>2, <2>3, <2>4, Zenon DEF Received, r
<1>8. CASE e \notin s.discarded /\ e \in s.processed
  <2>1. e \notin s.fetching
    BY <1>8, Zenon
  <2>2. r = t
    BY <1>6, <1>8, <2>1, Zenon DEF recvSCPEnvelope
  <2>3. Repeated(s, r, e)
    BY <1>6, <2>1, <2>2, Zenon DEF Repeated
  <2> HIDE DEF r, t
  <2>4. QED
    BY <1>3, <1>4, <1>6, <2>2, <2>3, Zenon DEF Received, r
\* The envelope is new, or waits.
<1> DEFINE new(u) == /\ DOMAIN u = DOMAIN s /\ u.cache = d
                     /\ u.fetching = s.fetching \cup {e}
                     /\ u.processed = s.processed /\ u.discarded = s.discarded
                     /\ u.ready = s.ready /\ u.held = s.held
<1>9. ASSUME NEW u, new(u)
      PROVE  /\ {i \in needs[e] : ~ known(u, i)} = U
             /\ isFullyFetched(u, e) <=> isFullyFetched(s, e)
  BY <1>4, <1>5, <1>9, KnownSame, Zenon
<1>10. ASSUME NEW u, new(u), e \notin s.discarded, e \notin s.processed,
              IsTrackers(u.trackers),
              u.trackers = s.trackers \/ Fetches(s.trackers, u.trackers, U, e),
              r = IF isFullyFetched(u, e)
                    THEN [u EXCEPT !.processed = @ \cup {e}, !.fetching = @ \ {e},
                                   !.ready = @ \cup {e}]
                    ELSE startFetch(u, e, n)
       PROVE  Received(s, r, e)
  <2> HIDE DEF r, t, K, U
  <2>1. CASE isFullyFetched(s, e)
    <3>1. isFullyFetched(u, e)
      BY <1>9, <1>10, <2>1, Zenon
    <3>2. r = [u EXCEPT !.processed = @ \cup {e}, !.fetching = @ \ {e}, !.ready = @ \cup {e}]
      BY <1>10, <3>1, Zenon
    <3>3. /\ DOMAIN r = DOMAIN s /\ r.cache = d
          /\ r.fetching = (s.fetching \cup {e}) \ {e} /\ r.processed = s.processed \cup {e}
          /\ r.ready = s.ready \cup {e} /\ r.discarded = s.discarded /\ r.held = s.held
          /\ r.trackers = u.trackers
      BY <1>10, <3>2 DEF IsPending
    <3>4. U = {}
      BY <2>1, Zenon DEF isFullyFetched, U
    <3>5. /\ IsTrackers(u.trackers) /\ DOMAIN u.trackers = DOMAIN s.trackers
          /\ \A i \in Item : fetchingFor(u.trackers, i) = fetchingFor(s.trackers, i)
          /\ \A i \in DOMAIN s.trackers : u.trackers[i].lastSeen >= s.trackers[i].lastSeen
      <4>1. CASE u.trackers = s.trackers
        <5>1. \A i \in DOMAIN s.trackers : s.trackers[i].lastSeen \in Nat
          BY Zenon DEF IsPending, IsTrackers, Tracker
        <5>2. QED
          BY <4>1, <5>1, <1>10
      <4>2. CASE Fetches(s.trackers, u.trackers, U, e)
        BY <3>4, <4>2, FetchNothing, Zenon
      <4>3. QED
        BY <1>10, <4>1, <4>2, Zenon
    <3>6. Readied(s, r, e)
      BY <1>10, <2>1, <3>3, <3>5, Zenon DEF Readied
    <3>7. QED
      BY <1>3, <1>4, <3>3, <3>6, Zenon DEF Received, K
  <2>2. CASE ~ isFullyFetched(s, e)
    <3>1. ~ isFullyFetched(u, e)
      BY <1>9, <1>10, <2>2, Zenon
    <3>2. r = startFetch(u, e, n)
      BY <1>10, <3>1, Zenon
    <3>3. startFetch(u, e, n) = [u EXCEPT !.trackers = fetch(@, U, e, n)]
      BY <1>9, <1>10, Zenon DEF startFetch
    <3>4. /\ DOMAIN r = DOMAIN s /\ r.cache = d
          /\ r.fetching = s.fetching \cup {e} /\ r.processed = s.processed
          /\ r.ready = s.ready /\ r.discarded = s.discarded /\ r.held = s.held
          /\ r.trackers = fetch(u.trackers, U, e, n)
      BY <1>10, <3>2, <3>3, Zenon DEF IsPending
    <3>5. Fetches(u.trackers, r.trackers, U, e)
      BY <1>1, <1>10, <3>4, Fetch
    <3>6. Fetches(s.trackers, r.trackers, U, e)
      <4>1. IsTrackers(s.trackers)
        BY Zenon DEF IsPending
      <4>2. CASE u.trackers = s.trackers
        BY <3>5, <4>2, Zenon
      <4>3. CASE Fetches(s.trackers, u.trackers, U, e)
        BY <1>1, <3>5, <4>1, <4>3, FetchTwice, Zenon
      <4>4. QED
        BY <1>10, <4>2, <4>3, Zenon
    <3>7. Requested(s, r, e)
      BY <1>10, <2>2, <3>4, <3>6, Zenon DEF Requested, U
    <3>8. QED
      BY <1>3, <1>4, <3>4, <3>7, Zenon DEF Received, K
  <2>3. QED
    BY <2>1, <2>2, Zenon
<1>11. CASE e \notin s.discarded /\ e \notin s.processed /\ e \in s.fetching
  <2>1. new(t)
    BY <1>6, <1>11, Zenon
  <2>2. r = IF isFullyFetched(t, e)
              THEN [t EXCEPT !.processed = @ \cup {e}, !.fetching = @ \ {e},
                             !.ready = @ \cup {e}]
              ELSE startFetch(t, e, n)
    BY <1>6, <1>11, Zenon DEF recvSCPEnvelope
  <2>3. IsTrackers(t.trackers)
    BY <1>6, Zenon DEF IsPending
  <2> HIDE DEF r, t, new, U
  <2>4. QED
    BY <1>6, <1>10, <1>11, <2>1, <2>2, <2>3, Zenon
<1>12. CASE e \notin s.discarded /\ e \notin s.processed /\ e \notin s.fetching
  <2> DEFINE u == startFetch(v, e, n)
  <2>1. new(v) /\ v.trackers = s.trackers
    <3> HIDE DEF t
    <3>1. QED
      BY <1>6, Zenon DEF IsPending
  <2>2. {i \in needs[e] : ~ known(v, i)} = U
    <3> HIDE DEF v, new, U
    <3>1. QED
      BY <1>9, <2>1, Zenon
  <2>3. u = [v EXCEPT !.trackers = fetch(@, U, e, n)]
    <3> HIDE DEF v, U
    <3>1. QED
      BY <2>2, Zenon DEF startFetch
  <2>4. new(u) /\ u.trackers = fetch(s.trackers, U, e, n)
    <3> HIDE DEF v, U, u
    <3>1. QED
      BY <2>1, <2>3, Zenon DEF IsPending
  <2>5. Fetches(s.trackers, u.trackers, U, e)
    <3>1. IsTrackers(s.trackers)
      BY DEF IsPending
    <3> HIDE DEF u, U
    <3>2. QED
      BY <1>1, <2>4, <3>1, Fetch
  <2>6. e \in u.fetching
    BY <2>4, Zenon
  <2>7. r = IF isFullyFetched(u, e)
              THEN [u EXCEPT !.processed = @ \cup {e}, !.fetching = @ \ {e},
                             !.ready = @ \cup {e}]
              ELSE startFetch(u, e, n)
    <3>1. r = IF e \in s.discarded THEN s
              ELSE IF e \notin u.fetching THEN u
              ELSE IF isFullyFetched(u, e)
                THEN [u EXCEPT !.processed = @ \cup {e}, !.fetching = @ \ {e},
                               !.ready = @ \cup {e}]
              ELSE startFetch(u, e, n)
      <4>1. e \notin t.fetching \cup t.processed
        BY <1>6, <1>12, Zenon
      <4>2. QED
        BY <4>1, Zenon DEF recvSCPEnvelope
    <3> HIDE DEF u, r
    <3>2. QED
      BY <1>12, <2>6, <3>1, Zenon
  <2>8. IsTrackers(u.trackers)
    <3> HIDE DEF u
    <3>1. QED
      BY <2>5, Zenon DEF Fetches
  <2> HIDE DEF u, r, new, U
  <2>9. QED
    BY <1>10, <1>12, <2>4, <2>5, <2>7, <2>8, Zenon
<1>13. QED
  BY <1>7, <1>8, <1>11, <1>12, Zenon

-----------------------------------------------------------------------------
(***************************************************************************)
(* The inductive invariant, over a PendingEnvelopes object s, the calls c, the *)
(* ledger l, the posted work q and the delivered envelopes d.                  *)
(***************************************************************************)

\* The sets of envelopes keep apart.  What is fetched or processed is of a slot the
\* herder remembers, what was delivered stays processed that long; what SCP got or
\* will get has sane quorum sets, what was discarded does not.
Apart(s, l, d) ==
    /\ s.fetching \cap s.processed = {} /\ s.fetching \cap s.discarded = {}
    /\ s.ready \subseteq s.processed
    /\ \A e \in s.fetching \cup s.processed : slotIndex[e] >= getMinLedgerSeqToRemember(l)
    /\ \A e \in d : /\ e \notin s.ready
                    /\ e \in s.processed \/ slotIndex[e] < getMinLedgerSeqToRemember(l)
    /\ Sane(s.processed \cup s.held \cup d)
    /\ \A e \in s.discarded : needs[e] \cap InsaneQuorumSets # {}

\* An envelope waits for items it needs, on trackers that have seen its slot.
Waits(s) ==
    \A i \in DOMAIN s.trackers : \A e \in s.trackers[i].waiting :
        i \in needs[e] /\ slotIndex[e] <= s.trackers[i].lastSeen

\* A clean-up that is posted will take envelope e from the tracker of item i.
Doomed(i, e, q) ==
    \E task \in q : task.kind = "stop" /\ i \in task.items /\ slotIndex[e] < task.below

Leftover(s, q) ==
    \A i \in DOMAIN s.trackers : \A e \in s.trackers[i].waiting :
        e \in s.fetching \/ Doomed(i, e, q)

\* No clean-up goes further than the herder forgets.
Due(q, l) ==
    \A task \in q : task.kind = "stop" => task.below <= getMinLedgerSeqToRemember(l)

\* Item i is being received; only the outermost call can be of that kind.
Receiving(c, i) == \E k \in 1 .. Len(c) : c[k] = [kind |-> "recv", item |-> i]

Outermost(c) == \A k \in 1 .. Len(c) : c[k].kind = "recv" => k = Len(c)

\* No envelope waits for what is known, but while it is being received.
Asking(s, c) ==
    \A i \in DOMAIN s.trackers : \A e \in s.trackers[i].waiting :
        e \in s.fetching /\ known(s, i) => Receiving(c, i)

\* What holds whatever the envelopes refer to.
Always(s, c, l, q, d) ==
    /\ IsPending(s) /\ Apart(s, l, d) /\ Waits(s) /\ Leftover(s, q) /\ Due(q, l)
    /\ Outermost(c) /\ Asking(s, c)

\* Whatever an envelope lacks it waits for, and what it does not wait for is kept.
Complete(s) ==
    \A e \in s.fetching : \A i \in needs[e] :
        Cached(s.cache, i, e) \/ e \in fetchingFor(s.trackers, i)

\* An item that is received is kept for those that wait for it.
Kept(s, c) ==
    \A i \in Item : Receiving(c, i) =>
        \A e \in fetchingFor(s.trackers, i) \cap s.fetching : Cached(s.cache, i, e)

\* admissible, while l is the last ledger.
AdmissibleAt(l, e) ==
    /\ e \in acceptable[l]
    /\ slotIndex[e] >= getMinLedgerSeqToRemember(l)
    /\ slotIndex[e] <= l + 1 + LEDGER_VALIDITY_BRACKET

\* An envelope being fetched was let in once.
LetIn(s, l) ==
    \A e \in s.fetching :
        \E m \in 1 .. l : e \in acceptable[m] /\ slotIndex[e] <= m + 1 + LEDGER_VALIDITY_BRACKET

\* An envelope other than those of X that lacks nothing is about to be handed back.
HandedBack(s, c, l, X) ==
    \A e \in s.fetching \ X :
        AdmissibleAt(l, e) /\ isFullyFetched(s, e) =>
            \E i \in Item : Receiving(c, i) /\ e \in fetchingFor(s.trackers, i)

\* The rest of the type invariant.
OthersTyped ==
    /\ flood \in [Envelope -> [ledger : 0 .. MaxLedger, told : SUBSET Peer]]
    /\ peers \in [Peer -> {"new", "authenticated", "dropped"}]
    /\ ledger \in 1 .. MaxLedger
    /\ posted \subseteq Task
    /\ calls \in Seq(Call)
    /\ delivered \subseteq Envelope

\* The inductive invariant, and its part that needs the hypotheses below.
PendingInv == OthersTyped /\ Always(pending, calls, ledger, posted, delivered)

FetchInv ==
    /\ Complete(pending) /\ Kept(pending, calls) /\ LetIn(pending, ledger)
    /\ HandedBack(pending, calls, ledger, {})

-----------------------------------------------------------------------------
(***************************************************************************)
(* The invariant and the operations.                                          *)
(***************************************************************************)

\* The herder never remembers more as ledgers close.
LEMMA MinLedger ==
    ASSUME NEW l \in Nat \ {0}
    PROVE  /\ getMinLedgerSeqToRemember(l) \in 1 .. l
           /\ getMinLedgerSeqToRemember(l) <= getMinLedgerSeqToRemember(l + 1)
           /\ getMinLedgerSeqToRemember(l) >= GENESIS_LEDGER_SEQ
BY PendingAssumption DEF getMinLedgerSeqToRemember, GENESIS_LEDGER_SEQ

\* The same items are being received.
SameItems(c, new) ==
    Outermost(new) /\ \A i \in Item : Receiving(new, i) <=> Receiving(c, i)

\* Running the queue is no receiving of an item.
LEMMA PushQueue ==
    ASSUME NEW c \in Seq(Call), Outermost(c), NEW index \in 1 .. MaxLedger + 1
    PROVE  LET new == <<[kind |-> "queue", index |-> index]>> \o c
           IN  new \in Seq(Call) /\ SameItems(c, new)
<1> DEFINE x == [kind |-> "queue", index |-> index]
           new == <<x>> \o c
<1>1. x \in Call /\ x.kind = "queue"
  BY Zenon DEF Call
<1>2. \A i \in Item : x # [kind |-> "recv", item |-> i]
  <2>1. \A i \in Item : [kind |-> "recv", item |-> i].kind = "recv"
    BY Zenon
  <2> HIDE DEF x
  <2>2. QED
    BY <1>1, <2>1, Zenon
<1> HIDE DEF x
<1>3. /\ new \in Seq(Call) /\ Len(new) = Len(c) + 1 /\ new[1] = x
      /\ \A k \in 1 .. Len(c) : new[k + 1] = c[k]
      /\ \A k \in 2 .. Len(new) : new[k] = c[k - 1]
  BY <1>1
<1>4. Len(c) \in Nat
  OBVIOUS
<1> HIDE DEF new
<1>5. Outermost(new)
  <2> SUFFICES ASSUME NEW k \in 1 .. Len(new), new[k].kind = "recv"
               PROVE  k = Len(new)
    BY Zenon DEF Outermost
  <2>1. k # 1
    BY <1>1, <1>3, Zenon
  <2>2. k - 1 \in 1 .. Len(c) /\ c[k - 1].kind = "recv"
    BY <1>3, <1>4, <2>1
  <2>3. k - 1 = Len(c)
    BY <2>2, Zenon DEF Outermost
  <2>4. QED
    BY <1>3, <1>4, <2>3
<1>6. ASSUME NEW i \in Item
      PROVE  Receiving(new, i) <=> Receiving(c, i)
  <2>1. ASSUME Receiving(new, i) PROVE Receiving(c, i)
    <3>1. PICK k \in 1 .. Len(new) : new[k] = [kind |-> "recv", item |-> i]
      BY <2>1, Zenon DEF Receiving
    <3>2. k # 1
      BY <1>2, <1>3, <3>1, Zenon
    <3>3. k - 1 \in 1 .. Len(c) /\ c[k - 1] = [kind |-> "recv", item |-> i]
      BY <1>3, <1>4, <3>1, <3>2
    <3>4. QED
      BY <3>3, Zenon DEF Receiving
  <2>2. ASSUME Receiving(c, i) PROVE Receiving(new, i)
    <3>1. PICK k \in 1 .. Len(c) : c[k] = [kind |-> "recv", item |-> i]
      BY <2>2, Zenon DEF Receiving
    <3>2. k + 1 \in 1 .. Len(new) /\ new[k + 1] = [kind |-> "recv", item |-> i]
      BY <1>3, <1>4, <3>1
    <3>3. QED
      BY <3>2, Zenon DEF Receiving
  <2>3. QED
    BY <2>1, <2>2, Zenon
<1>7. QED
  BY <1>3, <1>5, <1>6, Zenon DEF SameItems, new, x

\* At most one item is being received.
LEMMA OneItem ==
    ASSUME NEW c \in Seq(Call), Outermost(c), NEW i, NEW j, Receiving(c, i), Receiving(c, j)
    PROVE  i = j
<1>1. PICK k \in 1 .. Len(c) : c[k] = [kind |-> "recv", item |-> i]
  BY Zenon DEF Receiving
<1>2. PICK m \in 1 .. Len(c) : c[m] = [kind |-> "recv", item |-> j]
  BY Zenon DEF Receiving
<1>3. c[k].kind = "recv" /\ c[m].kind = "recv" /\ c[k].item = i /\ c[m].item = j
  BY <1>1, <1>2
<1>4. k = m
  BY <1>3, Zenon DEF Outermost
<1>5. QED
  BY <1>3, <1>4, Zenon

\* The envelope to be received waits for nothing that is being received.
Free(s, c, e) == \A j \in Item : Receiving(c, j) => e \notin fetchingFor(s.trackers, j)

\* An envelope of a slot the herder remembers that waits for something is being fetched.
LEMMA WaitsIsFetching ==
    ASSUME NEW s, NEW l \in Nat \ {0}, NEW q \in SUBSET Task, Leftover(s, q), Due(q, l),
           NEW e \in Envelope, slotIndex[e] >= getMinLedgerSeqToRemember(l),
           NEW i, e \in fetchingFor(s.trackers, i)
    PROVE  e \in s.fetching
<1>1. i \in DOMAIN s.trackers /\ e \in s.trackers[i].waiting
  BY Zenon DEF fetchingFor
<1>2. ~ Doomed(i, e, q)
  <2> SUFFICES ASSUME NEW task \in q, task.kind = "stop", slotIndex[e] < task.below
               PROVE  FALSE
    BY Zenon DEF Doomed
  <2>1. task.below <= getMinLedgerSeqToRemember(l)
    BY Zenon DEF Due
  <2>2. task.below \in Nat
    BY PendingAssumption DEF Task
  <2>3. QED
    BY <2>1, <2>2, MinLedger, FetcherAssumption
<1>3. QED
  BY <1>1, <1>2, Zenon DEF Leftover

\* Receiving an envelope makes no item known.
LEMMA ReceivedKnown ==
    ASSUME NEW s, NEW r, NEW e, Received(s, r, e), NEW i, known(r, i)
    PROVE  known(s, i)
<1>1. CASE i \in DOMAIN r.cache
  BY <1>1, Zenon DEF Received
<1>2. ASSUME NEW x \in r.ready \cup r.held, i \in needs[x] PROVE known(s, i)
  <2>1. CASE x \in s.ready \cup s.held
    BY <1>2, <2>1, Zenon DEF known
  <2>2. CASE x \notin s.ready \cup s.held
    <3>1. x = e /\ Readied(s, r, e)
      BY <1>2, <2>2, Zenon DEF Received, Repeated, Readied, Requested
    <3>2. QED
      BY <1>2, <3>1, Zenon DEF Readied, isFullyFetched
  <2>3. QED
    BY <2>1, <2>2, Zenon
<1>3. QED
  BY <1>1, <1>2, Zenon DEF known

\* Receiving an envelope of a slot the herder remembers keeps the invariant.
LEMMA ReceivedAlways ==
    ASSUME NEW s, NEW c, NEW l \in Nat \ {0}, NEW q \in SUBSET Task, NEW d \in SUBSET Envelope,
           Always(s, c, l, q, d),
           NEW e \in Envelope, slotIndex[e] >= getMinLedgerSeqToRemember(l), Free(s, c, e),
           NEW r, Received(s, r, e), NEW new, SameItems(c, new)
    PROVE  Always(r, new, l, q, d)
<1>1. IsPending(s) /\ Apart(s, l, d) /\ Waits(s) /\ Leftover(s, q) /\ Due(q, l)
      /\ Outermost(c) /\ Asking(s, c)
  BY Zenon DEF Always
<1>2. Sane(s.ready \cup s.held)
  BY <1>1, Zenon DEF Apart, Sane
<1>3. slotIndex[e] \in Nat
  BY FetcherAssumption, Zenon
<1>4. \A i \in Item : fetchingFor(s.trackers, i) \subseteq Envelope
  BY <1>1, Zenon DEF fetchingFor, IsPending, IsTrackers, Tracker
<1>5. \A i \in Item : e \in fetchingFor(s.trackers, i) => e \in s.fetching
  BY <1>1, WaitsIsFetching, Zenon
<1>6. \A i \in Item : e \in fetchingFor(s.trackers, i) => i \in needs[e] /\ ~ known(s, i)
  <2> SUFFICES ASSUME NEW i \in Item, e \in fetchingFor(s.trackers, i)
               PROVE  i \in needs[e] /\ ~ known(s, i)
    BY Zenon
  <2>1. i \in DOMAIN s.trackers /\ e \in s.trackers[i].waiting
    BY Zenon DEF fetchingFor
  <2>2. i \in needs[e]
    BY <1>1, <2>1, Zenon DEF Waits
  <2>3. known(s, i) => Receiving(c, i)
    BY <1>1, <1>5, <2>1, Zenon DEF Asking
  <2>4. ~ Receiving(c, i)
    BY Zenon DEF Free
  <2>5. QED
    BY <2>2, <2>3, <2>4, Zenon
\* What the trackers are afterwards.
<1>7. /\ IsTrackers(r.trackers)
      /\ DOMAIN s.trackers \subseteq DOMAIN r.trackers
      /\ \A i \in DOMAIN s.trackers : r.trackers[i].lastSeen >= s.trackers[i].lastSeen
      /\ \A i \in Item : \A x \in fetchingFor(r.trackers, i) :
            \/ x \in fetchingFor(s.trackers, i)
            \/ /\ x = e /\ i \in needs[e] /\ ~ known(s, i) /\ e \in r.fetching
               /\ r.trackers[i].lastSeen >= slotIndex[e]
  <2>1. CASE Repeated(s, r, e)
    <3>1. \A i \in DOMAIN s.trackers : s.trackers[i].lastSeen \in Nat
      BY <1>1, Zenon DEF IsPending, IsTrackers, Tracker
    <3>2. QED
      BY <1>1, <2>1, <3>1 DEF Repeated, IsPending
  <2>2. CASE Readied(s, r, e)
    BY <2>2, Zenon DEF Readied
  <2>3. CASE Requested(s, r, e)
    BY <2>3, Zenon DEF Requested, Fetches
  <2>4. QED
    BY <2>1, <2>2, <2>3, Zenon DEF Received
<1>8. /\ r.fetching \subseteq s.fetching \cup {e}
      /\ s.fetching \ {e} \subseteq r.fetching
      /\ s.processed \subseteq r.processed /\ s.ready \subseteq r.ready
      /\ r.processed \subseteq s.processed \cup {e} /\ r.ready \subseteq s.ready \cup {e}
  BY Zenon DEF Received, Repeated, Readied, Requested
<1>9. /\ DOMAIN r =
            {"fetching", "processed", "discarded", "ready", "trackers", "cache", "held"}
      /\ r.discarded = s.discarded /\ r.held = s.held
      /\ Touched(s.cache, r.cache)
  BY <1>1, Zenon DEF Received, IsPending
<1>10. IsPending(r)
  <2>1. {r.fetching, r.processed, r.discarded, r.ready, r.held} \subseteq SUBSET Envelope
    BY <1>1, <1>8, <1>9 DEF IsPending
  <2>2. QED
    BY <1>7, <1>9, <2>1, Zenon DEF IsPending, Touched
<1>11. Apart(r, l, d)
  <2>1. CASE Repeated(s, r, e)
    BY <1>1, <1>9, <2>1, Zenon DEF Apart, Repeated
  <2>2. CASE Readied(s, r, e)
    <3>1. needs[e] \subseteq Item
      BY PendingAssumption, Zenon
    <3>2. needs[e] \cap InsaneQuorumSets = {}
      BY <1>1, <1>2, <2>2, <3>1, KnownIsSane, Zenon DEF Readied, isFullyFetched
    <3>3. Sane(r.processed \cup r.held \cup d)
      BY <1>1, <1>8, <1>9, <3>2, Zenon DEF Apart, Sane
    <3>4. e \notin d
      BY <1>1, <1>3, <2>2, MinLedger DEF Apart, Readied
    <3>5. QED
      BY <1>1, <1>9, <2>2, <3>3, <3>4, Zenon DEF Apart, Readied
  <2>3. CASE Requested(s, r, e)
    BY <1>1, <1>9, <2>3, Zenon DEF Apart, Requested
  <2>4. QED
    BY <2>1, <2>2, <2>3, Zenon DEF Received
<1>12. Waits(r)
  <2> SUFFICES ASSUME NEW i \in DOMAIN r.trackers, NEW x \in r.trackers[i].waiting
               PROVE  i \in needs[x] /\ slotIndex[x] <= r.trackers[i].lastSeen
    BY Zenon DEF Waits
  <2>1. i \in Item /\ x \in fetchingFor(r.trackers, i) /\ r.trackers[i].lastSeen \in Nat
    BY <1>7, Zenon DEF IsTrackers, Tracker, fetchingFor
  <2>2. CASE x \in fetchingFor(s.trackers, i)
    <3>1. i \in DOMAIN s.trackers /\ x \in s.trackers[i].waiting
      BY <2>2, Zenon DEF fetchingFor
    <3>2. i \in needs[x] /\ slotIndex[x] <= s.trackers[i].lastSeen
      BY <1>1, <3>1, Zenon DEF Waits
    <3>3. s.trackers[i].lastSeen \in Nat /\ slotIndex[x] \in Nat
      BY <1>1, <1>4, <2>1, <2>2, <3>1, FetcherAssumption, Zenon DEF IsPending, IsTrackers, Tracker
    <3>4. QED
      BY <1>7, <2>1, <3>1, <3>2, <3>3
  <2>3. CASE x \notin fetchingFor(s.trackers, i)
    BY <1>3, <1>7, <2>1, <2>3, Zenon
  <2>4. QED
    BY <2>2, <2>3, Zenon
<1>13. Leftover(r, q)
  <2> SUFFICES ASSUME NEW i \in DOMAIN r.trackers, NEW x \in r.trackers[i].waiting,
                      x \notin r.fetching
               PROVE  Doomed(i, x, q)
    BY Zenon DEF Leftover
  <2>1. i \in Item /\ x \in fetchingFor(r.trackers, i)
    BY <1>7, Zenon DEF IsTrackers, fetchingFor
  <2>2. x \in fetchingFor(s.trackers, i)
    BY <1>7, <2>1, Zenon
  <2>3. x # e
    <3>1. SUFFICES ASSUME x = e PROVE FALSE
      BY Zenon
    <3>2. i \in needs[e] /\ ~ known(s, i) /\ e \in s.fetching
      BY <1>5, <1>6, <2>1, <2>2, <3>1, Zenon
    <3>3. ~ Repeated(s, r, e) /\ ~ Readied(s, r, e)
      BY <3>2, Zenon DEF Repeated, Readied, isFullyFetched
    <3>4. Requested(s, r, e)
      BY <3>3, Zenon DEF Received
    <3>5. QED
      BY <3>1, <3>4, Zenon DEF Requested
  <2>4. x \notin s.fetching
    BY <1>8, <2>3, Zenon
  <2>5. i \in DOMAIN s.trackers /\ x \in s.trackers[i].waiting
    BY <2>2, Zenon DEF fetchingFor
  <2>6. QED
    BY <1>1, <2>4, <2>5, Zenon DEF Leftover
<1>14. \A i \in Item : known(r, i) => known(s, i)
  BY ReceivedKnown, Zenon
<1>15. Asking(r, new)
  <2> SUFFICES ASSUME NEW i \in DOMAIN r.trackers, NEW x \in r.trackers[i].waiting,
                      x \in r.fetching, known(r, i)
               PROVE  Receiving(new, i)
    BY Zenon DEF Asking
  <2>1. i \in Item /\ x \in fetchingFor(r.trackers, i) /\ known(s, i)
    BY <1>7, <1>14, Zenon DEF IsTrackers, fetchingFor
  <2>2. x \in fetchingFor(s.trackers, i) /\ x # e
    BY <1>6, <1>7, <2>1, Zenon
  <2>3. i \in DOMAIN s.trackers /\ x \in s.trackers[i].waiting /\ x \in s.fetching
    BY <1>8, <2>2, Zenon DEF fetchingFor
  <2>4. Receiving(c, i)
    BY <1>1, <2>1, <2>3, Zenon DEF Asking
  <2>5. QED
    BY <2>1, <2>4, Zenon DEF SameItems
<1>16. QED
  BY <1>1, <1>10, <1>11, <1>12, <1>13, <1>15, Zenon DEF Always, SameItems

\* Receiving an admissible envelope keeps what the fetchers are for.
LEMMA ReceivedFetch ==
    ASSUME NEW s, IsPending(s), NEW c, NEW l \in Nat \ {0},
           Complete(s), Kept(s, c), LetIn(s, l),
           NEW e \in Envelope, HandedBack(s, c, l, {e}), AdmissibleAt(l, e), Free(s, c, e),
           \A j \in needs[e] : Receiving(c, j) => known(s, j),
           NEW r, Received(s, r, e), NEW new, SameItems(c, new)
    PROVE  Complete(r) /\ Kept(r, new) /\ LetIn(r, l) /\ HandedBack(r, new, l, {})
<1>1. /\ r.fetching \subseteq s.fetching \cup {e}
      /\ e \in r.fetching => Requested(s, r, e)
  BY Zenon DEF Received, Repeated, Readied, Requested
<1>2. s.fetching \subseteq Envelope /\ \A x \in Envelope : needs[x] \subseteq Item
  BY PendingAssumption, Zenon DEF IsPending
<1>3. \A i \in Item : /\ fetchingFor(s.trackers, i) \subseteq fetchingFor(r.trackers, i)
                      /\ fetchingFor(r.trackers, i) \subseteq fetchingFor(s.trackers, i) \cup {e}
                      /\ e \in fetchingFor(r.trackers, i) =>
                            \/ e \in fetchingFor(s.trackers, i)
                            \/ i \in needs[e] /\ ~ known(s, i)
  BY Zenon DEF Received, Repeated, Readied, Requested, Fetches
<1>4. \A i : \A x \in Envelope : Cached(s.cache, i, x) => Cached(r.cache, i, x)
  BY Zenon DEF Received, Touched, Cached
<1>5. Complete(r)
  <2> SUFFICES ASSUME NEW x \in r.fetching, NEW i \in needs[x]
               PROVE  Cached(r.cache, i, x) \/ x \in fetchingFor(r.trackers, i)
    BY Zenon DEF Complete
  <2>1. x \in Envelope /\ i \in Item
    BY <1>1, <1>2, Zenon
  <2>2. CASE x = e
    <3>1. Requested(s, r, e)
      BY <1>1, <2>2, Zenon
    <3>2. CASE known(s, i)
      BY <2>2, <3>1, <3>2, Zenon DEF Received, Requested
    <3>3. CASE ~ known(s, i)
      BY <2>1, <2>2, <3>1, <3>3, Zenon DEF Requested, Fetches
    <3>4. QED
      BY <3>2, <3>3, Zenon
  <2>3. CASE x # e
    <3>1. x \in s.fetching
      BY <1>1, <2>3, Zenon
    <3>2. QED
      BY <1>3, <1>4, <2>1, <3>1, Zenon DEF Complete
  <2>4. QED
    BY <2>2, <2>3, Zenon
<1>6. Kept(r, new)
  <2> SUFFICES ASSUME NEW i \in Item, Receiving(new, i),
                      NEW x \in fetchingFor(r.trackers, i) \cap r.fetching
               PROVE  Cached(r.cache, i, x)
    BY Zenon DEF Kept
  <2>1. Receiving(c, i)
    BY Zenon DEF SameItems
  <2>2. x # e
    BY <1>3, <2>1, Zenon DEF Free
  <2>3. x \in fetchingFor(s.trackers, i) \cap s.fetching
    BY <1>1, <1>3, <2>2, Zenon
  <2>4. QED
    BY <1>2, <1>4, <2>1, <2>3, Zenon DEF Kept
<1>7. LetIn(r, l)
  <2>1. e \in acceptable[l] /\ slotIndex[e] <= l + 1 + LEDGER_VALIDITY_BRACKET /\ l \in 1 .. l
    BY DEF AdmissibleAt
  <2>2. QED
    BY <1>1, <2>1, Zenon DEF LetIn
<1>8. HandedBack(r, new, l, {})
  <2> SUFFICES ASSUME NEW x \in r.fetching, AdmissibleAt(l, x), isFullyFetched(r, x)
               PROVE  \E i \in Item : Receiving(new, i) /\ x \in fetchingFor(r.trackers, i)
    BY Zenon DEF HandedBack
  <2>1. isFullyFetched(s, x)
    BY ReceivedKnown, Zenon DEF isFullyFetched
  <2>2. x # e
    BY <1>1, <2>1, Zenon DEF Requested
  <2>3. x \in s.fetching \ {e}
    BY <1>1, <2>2, Zenon
  <2>4. PICK i \in Item : Receiving(c, i) /\ x \in fetchingFor(s.trackers, i)
    BY <2>1, <2>3, Zenon DEF HandedBack
  <2>5. QED
    BY <1>3, <2>4, Zenon DEF SameItems
<1>9. QED
  BY <1>5, <1>6, <1>7, <1>8, Zenon

\* The flood records.
Floods == [Envelope -> [ledger : 0 .. MaxLedger, told : SUBSET Peer]]

\* What a fetcher sees of the overlay is about peers.
LEMMA NetIsNet ==
    ASSUME NEW fl \in Floods, NEW choice
    PROVE  IsNet(net(fl, choice))
BY Zenon DEF Floods, IsNet, net, Authenticated

\* HerderImpl::recvSCPEnvelope keeps the invariant.
LEMMA HerderRecv ==
    ASSUME NEW s, NEW c \in Seq(Call), NEW e \in Envelope, NEW fl \in Floods, NEW choice,
           OthersTyped, Always(s, c, ledger, posted, delivered), Free(s, c, e),
           herderRecv(s, c, e, fl, choice)
    PROVE  /\ flood' \in Floods /\ calls' \in Seq(Call)
           /\ Always(pending', calls', ledger, posted, delivered)
           /\ /\ Complete(s) /\ Kept(s, c) /\ LetIn(s, ledger)
              /\ HandedBack(s, c, ledger, {e})
              /\ admissible(e) => \A j \in needs[e] : Receiving(c, j) => known(s, j)
              => /\ Complete(pending') /\ Kept(pending', calls') /\ LetIn(pending', ledger)
                 /\ HandedBack(pending', calls', ledger, {})
<1> DEFINE t == recvSCPEnvelope(s, e, net(fl, choice))
           ready == e \in t.ready /\ e \notin s.ready
<1>1. /\ ledger \in Nat \ {0} /\ ledger \in 0 .. MaxLedger /\ ledger + 1 \in 1 .. MaxLedger + 1
      /\ posted \in SUBSET Task /\ delivered \in SUBSET Envelope
  BY PendingAssumption DEF OthersTyped
<1>2. admissible(e) <=> AdmissibleAt(ledger, e)
  BY Zenon DEF admissible, AdmissibleAt
<1>3. IsPending(s) /\ Apart(s, ledger, delivered) /\ Outermost(c)
  BY Zenon DEF Always
<1>4. Sane(s.ready \cup s.held)
  BY <1>3, Zenon DEF Apart, Sane
<1>5. Received(s, t, e)
  BY <1>3, <1>4, NetIsNet, ReceivedRight, Zenon DEF Apart
<1>6. SameItems(c, c)
  BY <1>3, Zenon DEF SameItems
<1>7. CASE admissible(e)
  <2>1. /\ pending' = t
        /\ flood' = IF ready
                      THEN [fl EXCEPT ![e] =
                               [ledger |-> IF @.ledger = 0 THEN ledger ELSE @.ledger,
                                told |-> @.told \cup Authenticated]]
                      ELSE fl
        /\ calls' = IF ready THEN <<[kind |-> "queue", index |-> ledger + 1]>> \o c ELSE c
    BY <1>7, Zenon DEF herderRecv
  <2> HIDE DEF t
  <2>2. calls' \in Seq(Call) /\ SameItems(c, calls')
    <3>1. CASE ready
      BY <1>1, <1>3, <2>1, <3>1, PushQueue, Zenon
    <3>2. CASE ~ ready
      BY <1>6, <2>1, <3>2, Zenon
    <3>3. QED
      BY <3>1, <3>2, Zenon
  <2>3. flood' \in Floods
    BY <1>1, <2>1, Zenon DEF Floods, Authenticated
  <2>4. slotIndex[e] >= getMinLedgerSeqToRemember(ledger)
    BY <1>7, Zenon DEF admissible
  <2>5. Always(pending', calls', ledger, posted, delivered)
    BY <1>1, <1>5, <2>1, <2>2, <2>4, ReceivedAlways, Zenon
  <2>6. ASSUME Complete(s), Kept(s, c), LetIn(s, ledger), HandedBack(s, c, ledger, {e}),
               \A j \in needs[e] : Receiving(c, j) => known(s, j)
        PROVE  /\ Complete(pending') /\ Kept(pending', calls') /\ LetIn(pending', ledger)
               /\ HandedBack(pending', calls', ledger, {})
    BY <1>1, <1>2, <1>3, <1>5, <1>7, <2>1, <2>2, <2>6, ReceivedFetch, Zenon
  <2>7. QED
    BY <1>7, <2>2, <2>3, <2>5, <2>6, Zenon
<1>8. CASE ~ admissible(e)
  <2>1. pending' = s /\ flood' = fl /\ calls' = c
    BY <1>8, Zenon DEF herderRecv
  <2>2. HandedBack(s, c, ledger, {e}) => HandedBack(s, c, ledger, {})
    BY <1>2, <1>8, Zenon DEF HandedBack
  <2>3. QED
    BY <2>1, <2>2, Zenon
<1>9. QED
  BY <1>7, <1>8, Zenon

\* No call is under way, so no item is being received.
LEMMA IdleReceives ==
    ASSUME idle
    PROVE  /\ Outermost(calls) /\ calls \in Seq(Call)
           /\ \A i : ~ Receiving(calls, i)
BY DEF idle, Outermost, Receiving

\* The innermost call returns.
LEMMA PopCall ==
    ASSUME NEW c \in Seq(Call), c # << >>, Outermost(c)
    PROVE  /\ Tail(c) \in Seq(Call) /\ Outermost(Tail(c)) /\ Head(c) \in Call
           /\ \A i : Receiving(Tail(c), i) => Receiving(c, i)
           /\ Head(c).kind = "queue" => SameItems(c, Tail(c))
           /\ Head(c).kind = "recv" =>
                 /\ Head(c).item \in Item /\ Receiving(c, Head(c).item)
                 /\ \A i : ~ Receiving(Tail(c), i)
<1> DEFINE new == Tail(c)
           h == Head(c)
<1>1. /\ Len(c) \in Nat \ {0} /\ h = c[1] /\ h \in Call
      /\ new \in Seq(Call) /\ Len(new) = Len(c) - 1
      /\ \A k \in 1 .. Len(c) - 1 : new[k] = c[k + 1]
  OBVIOUS
<1> HIDE DEF new, h
<1>2. Outermost(new)
  <2> SUFFICES ASSUME NEW k \in 1 .. Len(new), new[k].kind = "recv"
               PROVE  k = Len(new)
    BY Zenon DEF Outermost
  <2>1. k + 1 \in 1 .. Len(c) /\ c[k + 1].kind = "recv"
    BY <1>1
  <2>2. k + 1 = Len(c)
    BY <2>1, Zenon DEF Outermost
  <2>3. QED
    BY <1>1, <2>2
<1>3. ASSUME NEW i, Receiving(new, i) PROVE Receiving(c, i)
  <2>1. PICK k \in 1 .. Len(new) : new[k] = [kind |-> "recv", item |-> i]
    BY <1>3, Zenon DEF Receiving
  <2>2. k + 1 \in 1 .. Len(c) /\ c[k + 1] = [kind |-> "recv", item |-> i]
    BY <1>1, <2>1
  <2>3. QED
    BY <2>2, Zenon DEF Receiving
<1>4. ASSUME h.kind = "queue" PROVE SameItems(c, new)
  <2> SUFFICES ASSUME NEW i \in Item, Receiving(c, i) PROVE Receiving(new, i)
    BY <1>2, <1>3, Zenon DEF SameItems
  <2>1. PICK k \in 1 .. Len(c) : c[k] = [kind |-> "recv", item |-> i]
    BY Zenon DEF Receiving
  <2>2. c[k].kind = "recv"
    BY <2>1
  <2>3. k # 1
    BY <1>1, <1>4, <2>2, Zenon
  <2>4. k - 1 \in 1 .. Len(new) /\ new[k - 1] = [kind |-> "recv", item |-> i]
    BY <1>1, <2>1, <2>3
  <2>5. QED
    BY <2>4, Zenon DEF Receiving
<1>5. ASSUME h.kind = "recv"
      PROVE  h.item \in Item /\ Receiving(c, h.item) /\ \A i : ~ Receiving(new, i)
  <2>1. 1 = Len(c)
    BY <1>1, <1>5 DEF Outermost
  <2>2. \A i : ~ Receiving(new, i)
    BY <1>1, <2>1 DEF Receiving
  <2>3. h \in [kind : {"recv"}, item : Item]
    BY <1>1, <1>5, Zenon DEF Call
  <2>4. h.item \in Item /\ h = [kind |-> "recv", item |-> h.item]
    BY <2>3, Zenon
  <2>5. QED
    BY <1>1, <2>1, <2>2, <2>4 DEF Receiving
<1>6. QED
  BY <1>1, <1>2, <1>3, <1>4, <1>5, Zenon DEF new, h

\* A call in which nothing but the calls changes, and no item with them.
LEMMA CallsChange ==
    ASSUME NEW s, NEW c, NEW new, NEW l, NEW q, NEW d, Always(s, c, l, q, d), SameItems(c, new)
    PROVE  /\ Always(s, new, l, q, d)
           /\ Kept(s, c) => Kept(s, new)
           /\ \A X : HandedBack(s, c, l, X) => HandedBack(s, new, l, X)
<1>1. DOMAIN s.trackers \subseteq Item
  BY Zenon DEF Always, IsPending, IsTrackers
<1>2. Asking(s, new)
  BY <1>1, Zenon DEF Always, Asking, SameItems
<1>3. Always(s, new, l, q, d)
  BY <1>2, Zenon DEF Always, SameItems
<1>4. Kept(s, c) => Kept(s, new)
  BY Zenon DEF Kept, SameItems
<1>5. \A X : HandedBack(s, c, l, X) => HandedBack(s, new, l, X)
  BY Zenon DEF HandedBack, SameItems
<1>6. QED
  BY <1>3, <1>4, <1>5, Zenon

\* r is s but for the trackers, and these but for whom they ask.
OtherPeer(s, r) ==
    /\ DOMAIN r = DOMAIN s
    /\ r.fetching = s.fetching /\ r.processed = s.processed /\ r.discarded = s.discarded
    /\ r.ready = s.ready /\ r.held = s.held /\ r.cache = s.cache
    /\ IsTrackers(r.trackers)
    /\ DOMAIN r.trackers = DOMAIN s.trackers
    /\ \A i \in DOMAIN s.trackers : /\ r.trackers[i].waiting = s.trackers[i].waiting
                                    /\ \/ r.trackers[i].lastSeen = s.trackers[i].lastSeen
                                       \/ s.trackers[i].waiting = {}

\* Whom the trackers ask makes no difference to the invariant.
LEMMA OtherPeerKeeps ==
    ASSUME NEW s, NEW r, NEW c, NEW l, NEW q, NEW d, Always(s, c, l, q, d), OtherPeer(s, r)
    PROVE  /\ Always(r, c, l, q, d)
           /\ Complete(s) => Complete(r)
           /\ Kept(s, c) => Kept(r, c)
           /\ LetIn(s, l) => LetIn(r, l)
           /\ HandedBack(s, c, l, {}) => HandedBack(r, c, l, {})
<1>1. \A i : fetchingFor(r.trackers, i) = fetchingFor(s.trackers, i)
  BY Zenon DEF OtherPeer, fetchingFor
<1>2. \A i : known(r, i) <=> known(s, i)
  BY Zenon DEF OtherPeer, known
<1>3. IsPending(r)
  BY Zenon DEF Always, IsPending, OtherPeer
<1>4. Apart(r, l, d)
  BY Zenon DEF Always, Apart, OtherPeer
<1>5. Waits(r) /\ Leftover(r, q)
  BY Zenon DEF Always, Waits, Leftover, OtherPeer
<1>6. Asking(r, c)
  BY <1>2, Zenon DEF Always, Asking, OtherPeer
<1>7. Always(r, c, l, q, d)
  BY <1>3, <1>4, <1>5, <1>6, Zenon DEF Always
<1>8. Complete(s) => Complete(r)
  BY <1>1, Zenon DEF Complete, OtherPeer
<1>9. Kept(s, c) => Kept(r, c)
  BY <1>1, Zenon DEF Kept, OtherPeer
<1>10. LetIn(s, l) => LetIn(r, l)
  BY Zenon DEF LetIn, OtherPeer
<1>11. HandedBack(s, c, l, {}) => HandedBack(r, c, l, {})
  BY <1>1, <1>2 DEF HandedBack, isFullyFetched, OtherPeer
<1>12. QED
  BY <1>7, <1>8, <1>9, <1>10, <1>11, Zenon

\* addItem keeps the invariant: who waits for the item is about to be handed it.
LEMMA AddItem ==
    ASSUME OthersTyped, Always(pending, calls, ledger, posted, delivered), idle,
           NEW i \in Item \ InsaneQuorumSets, NEW slot \in Nat, addItem(i, slot)
    PROVE  /\ calls' \in Seq(Call)
           /\ Always(pending', calls', ledger, posted, delivered)
           /\ /\ FetchInv
              /\ \A e \in fetchingFor(pending.trackers, i) : slotIndex[e] <= slot
              => /\ Complete(pending') /\ Kept(pending', calls') /\ LetIn(pending', ledger)
                 /\ HandedBack(pending', calls', ledger, {})
<1> DEFINE s == pending
           r == pending'
           d == putItems(s.cache, {i}, slot)
<1>1. /\ IsPending(s) /\ Apart(s, ledger, delivered) /\ Waits(s) /\ Leftover(s, posted)
      /\ Due(posted, ledger) /\ Outermost(calls) /\ Asking(s, calls)
  BY Zenon DEF Always
<1>2. /\ Touched(s.cache, d) /\ DOMAIN d = DOMAIN s.cache \cup {i}
      /\ \A e \in Envelope : slotIndex[e] <= slot => Cached(d, i, e)
  <2>1. {i} \in SUBSET (Item \ InsaneQuorumSets)
    BY Zenon
  <2>2. /\ DOMAIN s.cache \subseteq Item \ InsaneQuorumSets
        /\ \A j \in DOMAIN s.cache : s.cache[j] \in Nat
    BY <1>1, Zenon DEF IsPending
  <2>3. QED
    BY <2>1, <2>2, PutItems, Zenon
<1>3. /\ DOMAIN r = DOMAIN s /\ r.cache = d
      /\ r.fetching = s.fetching /\ r.processed = s.processed /\ r.discarded = s.discarded
      /\ r.ready = s.ready /\ r.held = s.held /\ r.trackers = s.trackers
  BY <1>1, Zenon DEF addItem, IsPending
<1>4. /\ calls' = IF i \in DOMAIN s.trackers THEN <<[kind |-> "recv", item |-> i]>> ELSE << >>
      /\ calls' \in Seq(Call) /\ Outermost(calls')
      /\ i \in DOMAIN s.trackers => Receiving(calls', i)
      /\ \A j : Receiving(calls', j) => j = i
      /\ \A j : ~ Receiving(calls, j)
  <2>1. \A j : ~ Receiving(calls, j)
    BY IdleReceives, Zenon
  <2>2. [kind |-> "recv", item |-> i] \in Call
    BY Zenon DEF Call
  <2>3. calls' = IF i \in DOMAIN s.trackers THEN <<[kind |-> "recv", item |-> i]>> ELSE << >>
    BY <2>2 DEF addItem, idle
  <2>4. CASE i \in DOMAIN s.trackers
    <3>1. calls' = <<[kind |-> "recv", item |-> i]>>
      BY <2>3, <2>4, Zenon
    <3>2. calls' \in Seq(Call) /\ Len(calls') = 1 /\ calls'[1] = [kind |-> "recv", item |-> i]
      BY <2>2, <3>1
    <3>3. Outermost(calls') /\ Receiving(calls', i)
      BY <3>2 DEF Outermost, Receiving
    <3>4. \A j : Receiving(calls', j) => j = i
      <4> SUFFICES ASSUME NEW j, Receiving(calls', j) PROVE j = i
        BY Zenon
      <4>1. [kind |-> "recv", item |-> i] = [kind |-> "recv", item |-> j]
        BY <3>2 DEF Receiving
      <4>2. [kind |-> "recv", item |-> i].item = [kind |-> "recv", item |-> j].item
        BY <4>1, Zenon
      <4>3. QED
        BY <4>2, Zenon
    <3>5. QED
      BY <2>1, <2>3, <3>2, <3>3, <3>4, Zenon
  <2>5. CASE i \notin DOMAIN s.trackers
    BY <2>1, <2>3, <2>5 DEF Outermost, Receiving
  <2>6. QED
    BY <2>4, <2>5, Zenon
<1> HIDE DEF d, r, s
<1>5. \A j : known(r, j) => known(s, j) \/ j = i
  BY <1>2, <1>3, Zenon DEF known
<1>6. IsPending(r)
  BY <1>1, <1>2, <1>3, Zenon DEF IsPending, Touched
<1>7. Apart(r, ledger, delivered) /\ Waits(r) /\ Leftover(r, posted)
  BY <1>1, <1>3, Zenon DEF Apart, Waits, Leftover
<1>8. Asking(r, calls')
  BY <1>1, <1>3, <1>4, <1>5, Zenon DEF Asking
<1>9. Always(r, calls', ledger, posted, delivered)
  BY <1>1, <1>4, <1>6, <1>7, <1>8, Zenon DEF Always
<1>10. ASSUME FetchInv, \A e \in fetchingFor(s.trackers, i) : slotIndex[e] <= slot
       PROVE  /\ Complete(r) /\ Kept(r, calls') /\ LetIn(r, ledger)
              /\ HandedBack(r, calls', ledger, {})
  <2>1. Complete(s) /\ LetIn(s, ledger) /\ HandedBack(s, calls, ledger, {})
    BY <1>10, Zenon DEF FetchInv, s
  <2>2. s.fetching \subseteq Envelope /\ \A e \in Envelope : needs[e] \subseteq Item
    BY <1>1, PendingAssumption, Zenon DEF IsPending
  <2>3. \A j : \A e \in Envelope : Cached(s.cache, j, e) => Cached(d, j, e)
    BY <1>2, Zenon DEF Touched, Cached
  <2>4. Complete(r)
    BY <1>3, <2>1, <2>2, <2>3, Zenon DEF Complete
  <2>5. Kept(r, calls')
    BY <1>2, <1>3, <1>4, <1>10, <2>2, Zenon DEF Kept
  <2>6. LetIn(r, ledger)
    BY <1>3, <2>1, Zenon DEF LetIn
  <2>7. HandedBack(r, calls', ledger, {})
    <3> SUFFICES ASSUME NEW e \in s.fetching, AdmissibleAt(ledger, e), isFullyFetched(r, e)
                 PROVE  \E j \in Item : Receiving(calls', j) /\ e \in fetchingFor(r.trackers, j)
      BY <1>3, Zenon DEF HandedBack
    <3>1. ~ isFullyFetched(s, e)
      BY <1>4, <2>1, Zenon DEF HandedBack
    <3>2. PICK j \in needs[e] : ~ known(s, j)
      BY <3>1, Zenon DEF isFullyFetched
    <3>3. known(r, j)
      BY Zenon DEF isFullyFetched
    <3>4. j = i
      BY <1>5, <3>2, <3>3, Zenon
    <3>5. ~ Cached(s.cache, i, e)
      BY <3>2, <3>4, Zenon DEF known, Cached
    <3>6. e \in fetchingFor(s.trackers, i)
      BY <2>1, <3>4, <3>5, Zenon DEF Complete
    <3>7. Receiving(calls', i)
      BY <1>4, <3>6, Zenon DEF fetchingFor
    <3>8. QED
      BY <1>3, <3>6, <3>7, Zenon
  <2>8. QED
    BY <2>4, <2>5, <2>6, <2>7, Zenon
<1>11. QED
  BY <1>4, <1>9, <1>10, Zenon DEF r, s

\* A quorum set that is not sane takes the envelopes that wait for it along.
LEMMA DiscardKeeps ==
    ASSUME OthersTyped, Always(pending, calls, ledger, posted, delivered), idle,
           NEW i \in InsaneQuorumSets,
           pending' = discardSCPEnvelopesWithQSet(pending, i)
    PROVE  /\ Always(pending', calls, ledger, posted, delivered)
           /\ FetchInv => /\ Complete(pending') /\ Kept(pending', calls)
                          /\ LetIn(pending', ledger)
                          /\ HandedBack(pending', calls, ledger, {})
<1> DEFINE s == pending
           r == pending'
           E == fetchingFor(s.trackers, i) \ s.discarded
           items == UNION {needs[e] : e \in E}
           tr == stopFetch(s.trackers, items, E)
<1>1. /\ IsPending(s) /\ Apart(s, ledger, delivered) /\ Waits(s) /\ Leftover(s, posted)
      /\ Due(posted, ledger) /\ Outermost(calls) /\ Asking(s, calls)
  BY Zenon DEF Always
<1>2. \A j : ~ Receiving(calls, j)
  BY IdleReceives, Zenon
<1>3. E \subseteq Envelope /\ \A e \in E : i \in needs[e]
  BY <1>1, Zenon DEF fetchingFor, IsPending, IsTrackers, Tracker, Waits
<1>4. /\ DOMAIN r = DOMAIN s
      /\ r.fetching = s.fetching \ E /\ r.discarded = s.discarded \cup E
      /\ r.processed = s.processed /\ r.ready = s.ready /\ r.held = s.held
      /\ r.cache = s.cache /\ r.trackers = tr
  BY <1>1, Zenon DEF discardSCPEnvelopesWithQSet, IsPending
<1>5. \A j \in DOMAIN s.trackers : \A e \in E :
         e \in s.trackers[j].waiting => j \in items
  BY <1>1, Zenon DEF Waits
<1>6. /\ DOMAIN tr = DOMAIN s.trackers
      /\ \A j \in DOMAIN s.trackers :
            /\ tr[j] \in Tracker
            /\ tr[j].waiting = s.trackers[j].waiting \ E
            /\ tr[j].lastSeen = s.trackers[j].lastSeen \/ tr[j].waiting = {}
  <2>1. DOMAIN tr = DOMAIN s.trackers
    BY Zenon DEF stopFetch
  <2>2. ASSUME NEW j \in DOMAIN s.trackers
        PROVE  /\ tr[j] \in Tracker
               /\ tr[j].waiting = s.trackers[j].waiting \ E
               /\ tr[j].lastSeen = s.trackers[j].lastSeen \/ tr[j].waiting = {}
    <3> DEFINE t == discard(s.trackers[j], E)
    <3>1. s.trackers[j] \in Tracker
      BY <1>1, Zenon DEF IsPending, IsTrackers
    <3>2. /\ t \in Tracker /\ t.waiting = s.trackers[j].waiting \ E
          /\ t.lastSeen = s.trackers[j].lastSeen
      BY <3>1, Zenon DEF discard, Tracker
    <3> HIDE DEF t
    <3>3. cancel(t) \in Tracker /\ cancel(t).waiting = t.waiting
      BY <3>2, Zenon DEF cancel, Tracker
    <3>4. tr[j] = IF j \notin items THEN s.trackers[j]
                  ELSE IF t.waiting = {} THEN cancel(t) ELSE t
      BY Zenon DEF stopFetch, t
    <3>5. j \notin items => s.trackers[j].waiting \ E = s.trackers[j].waiting
      BY <1>5, Zenon
    <3> HIDE DEF tr, items, E
    <3>6. QED
      BY <3>1, <3>2, <3>3, <3>4, <3>5, Zenon
  <2>3. QED
    BY <2>1, <2>2, Zenon
<1> HIDE DEF r, s, E, items, tr
<1>7. IsPending(r)
  <2>1. IsTrackers(r.trackers)
    BY <1>1, <1>4, <1>6, Zenon DEF IsTrackers, IsPending
  <2>2. {r.fetching, r.processed, r.discarded, r.ready, r.held} \subseteq SUBSET Envelope
    BY <1>1, <1>3, <1>4, Zenon DEF IsPending
  <2>3. QED
    BY <1>1, <1>4, <2>1, <2>2, Zenon DEF IsPending
<1>8. Apart(r, ledger, delivered)
  BY <1>1, <1>3, <1>4, Zenon DEF Apart
<1>9. Waits(r)
  BY <1>1, <1>4, <1>6, Zenon DEF Waits
<1>10. Leftover(r, posted)
  BY <1>1, <1>4, <1>6, Zenon DEF Leftover
<1>11. \A j : known(r, j) <=> known(s, j)
  BY <1>4, Zenon DEF known
<1>12. Asking(r, calls)
  BY <1>1, <1>4, <1>6, <1>11, Zenon DEF Asking
<1>13. Always(r, calls, ledger, posted, delivered)
  BY <1>1, <1>7, <1>8, <1>9, <1>10, <1>12, Zenon DEF Always
<1>14. ASSUME FetchInv
       PROVE  /\ Complete(r) /\ Kept(r, calls) /\ LetIn(r, ledger)
              /\ HandedBack(r, calls, ledger, {})
  <2>1. Complete(s) /\ LetIn(s, ledger) /\ HandedBack(s, calls, ledger, {})
    BY <1>14, Zenon DEF FetchInv, s
  <2>2. \A j : fetchingFor(r.trackers, j) = fetchingFor(s.trackers, j) \ E
    BY <1>4, <1>6, Zenon DEF fetchingFor
  <2>3. Complete(r)
    BY <1>4, <2>1, <2>2, Zenon DEF Complete
  <2>4. Kept(r, calls) /\ LetIn(r, ledger)
    BY <1>2, <1>4, <2>1, Zenon DEF Kept, LetIn
  <2>5. HandedBack(r, calls, ledger, {})
    BY <1>2, <1>4, <1>11, <2>1, Zenon DEF HandedBack, isFullyFetched
  <2>6. QED
    BY <2>3, <2>4, <2>5, Zenon
<1>15. QED
  BY <1>13, <1>14, Zenon DEF r, s

\* The clean-up of a fetcher takes only what the herder has forgotten.
LEMMA StopKeeps ==
    ASSUME OthersTyped, Always(pending, calls, ledger, posted, delivered), idle,
           NEW task \in posted, task.kind = "stop",
           pending' = [pending EXCEPT
                          !.trackers = stopFetchingBelow(@, task.items, task.below)]
    PROVE  /\ Always(pending', calls, ledger, posted \ {task}, delivered)
           /\ FetchInv => /\ Complete(pending') /\ Kept(pending', calls)
                          /\ LetIn(pending', ledger)
                          /\ HandedBack(pending', calls, ledger, {})
<1> DEFINE s == pending
           r == pending'
           tr == stopFetchingBelow(s.trackers, task.items, task.below)
           cl == [j \in DOMAIN s.trackers |->
                     IF j \in task.items THEN clearEnvelopesBelow(s.trackers[j], task.below)
                                         ELSE s.trackers[j]]
<1>1. /\ IsPending(s) /\ Apart(s, ledger, delivered) /\ Waits(s) /\ Leftover(s, posted)
      /\ Due(posted, ledger) /\ Outermost(calls) /\ Asking(s, calls)
  BY Zenon DEF Always
<1>2. \A j : ~ Receiving(calls, j)
  BY IdleReceives, Zenon
<1>3. /\ DOMAIN r = DOMAIN s
      /\ r.fetching = s.fetching /\ r.discarded = s.discarded /\ r.processed = s.processed
      /\ r.ready = s.ready /\ r.held = s.held /\ r.cache = s.cache /\ r.trackers = tr
  BY <1>1, Zenon DEF IsPending
<1>4. /\ DOMAIN cl = DOMAIN s.trackers
      /\ \A j \in DOMAIN s.trackers :
            /\ cl[j] \in Tracker /\ cl[j].lastSeen = s.trackers[j].lastSeen
            /\ cl[j].waiting = {e \in s.trackers[j].waiting :
                                   j \in task.items => slotIndex[e] >= task.below}
  <2>1. ASSUME NEW j \in DOMAIN s.trackers
        PROVE  /\ cl[j] \in Tracker /\ cl[j].lastSeen = s.trackers[j].lastSeen
               /\ cl[j].waiting = {e \in s.trackers[j].waiting :
                                      j \in task.items => slotIndex[e] >= task.below}
    <3>1. s.trackers[j] \in Tracker
      BY <1>1, Zenon DEF IsPending, IsTrackers
    <3> HIDE DEF s
    <3>2. CASE j \in task.items
      <4>1. cl[j] = clearEnvelopesBelow(s.trackers[j], task.below)
        BY <3>2, Zenon
      <4> HIDE DEF cl
      <4>2. QED
        BY <3>1, <3>2, <4>1 DEF clearEnvelopesBelow, Tracker
    <3>3. CASE j \notin task.items
      BY <3>1, <3>3, Zenon
    <3>4. QED
      BY <3>2, <3>3, Zenon
  <2>2. QED
    BY <2>1, Zenon
<1>5. /\ DOMAIN tr = {j \in DOMAIN cl : j \in task.items => cl[j].waiting # {}}
      /\ \A j \in DOMAIN tr : tr[j] = cl[j]
  BY Zenon DEF stopFetchingBelow, Restrict
<1>6. task.below \in Nat /\ task.below <= getMinLedgerSeqToRemember(ledger)
  BY <1>1, PendingAssumption DEF OthersTyped, Task, Due
<1>7. \A e \in s.fetching : slotIndex[e] >= task.below
  <2>1. getMinLedgerSeqToRemember(ledger) \in Nat
    <3>1. ledger \in Nat \ {0}
      BY PendingAssumption DEF OthersTyped
    <3>2. QED
      BY <3>1, MinLedger
  <2>2. \A e \in s.fetching : slotIndex[e] \in Nat
    BY <1>1, FetcherAssumption, Zenon DEF IsPending
  <2>3. QED
    BY <1>1, <1>6, <2>1, <2>2 DEF Apart
<1> HIDE DEF r, s, cl, tr
<1>8. \A j : /\ fetchingFor(r.trackers, j) \subseteq fetchingFor(s.trackers, j)
             /\ fetchingFor(s.trackers, j) \cap s.fetching \subseteq fetchingFor(r.trackers, j)
  BY <1>3, <1>4, <1>5, <1>7, Zenon DEF fetchingFor
<1>9. IsPending(r)
  <2>1. IsTrackers(r.trackers)
    BY <1>1, <1>3, <1>4, <1>5, Zenon DEF IsTrackers, IsPending
  <2>2. QED
    BY <1>1, <1>3, <2>1 DEF IsPending
<1>10. Apart(r, ledger, delivered)
  BY <1>1, <1>3, Zenon DEF Apart
<1>11. Waits(r)
  BY <1>1, <1>3, <1>4, <1>5, Zenon DEF Waits
<1>12. Leftover(r, posted \ {task})
  <2> SUFFICES ASSUME NEW j \in DOMAIN r.trackers, NEW e \in r.trackers[j].waiting,
                      e \notin r.fetching
               PROVE  Doomed(j, e, posted \ {task})
    BY Zenon DEF Leftover
  <2>1. /\ j \in DOMAIN s.trackers /\ e \in s.trackers[j].waiting
        /\ j \in task.items => slotIndex[e] >= task.below
    BY <1>3, <1>4, <1>5, Zenon
  <2>2. e \in Envelope
    BY <1>1, <2>1, Zenon DEF IsPending, IsTrackers, Tracker
  <2>3. PICK other \in posted : /\ other.kind = "stop" /\ j \in other.items
                                /\ slotIndex[e] < other.below
    BY <1>1, <1>3, <2>1, Zenon DEF Leftover, Doomed
  <2>4. other # task
    BY <1>6, <2>1, <2>2, <2>3, FetcherAssumption
  <2>5. QED
    BY <2>3, <2>4, Zenon DEF Doomed
<1>13. \A j : known(r, j) <=> known(s, j)
  BY <1>3, Zenon DEF known
<1>14. Asking(r, calls)
  BY <1>1, <1>3, <1>4, <1>5, <1>13, Zenon DEF Asking
<1>15. Always(r, calls, ledger, posted \ {task}, delivered)
  BY <1>1, <1>9, <1>10, <1>11, <1>12, <1>14, Zenon DEF Always, Due
<1>16. ASSUME FetchInv
       PROVE  /\ Complete(r) /\ Kept(r, calls) /\ LetIn(r, ledger)
              /\ HandedBack(r, calls, ledger, {})
  <2>1. Complete(s) /\ LetIn(s, ledger) /\ HandedBack(s, calls, ledger, {})
    BY <1>16, Zenon DEF FetchInv, s
  <2>2. Complete(r)
    BY <1>3, <1>8, <2>1, Zenon DEF Complete
  <2>3. Kept(r, calls) /\ LetIn(r, ledger)
    BY <1>2, <1>3, <2>1, Zenon DEF Kept, LetIn
  <2>4. HandedBack(r, calls, ledger, {})
    BY <1>2, <1>3, <1>13, <2>1, Zenon DEF HandedBack, isFullyFetched
  <2>5. QED
    BY <2>2, <2>3, <2>4, Zenon
<1>17. QED
  BY <1>15, <1>16, Zenon DEF r, s

\* r is what is left of the object once the slots below min are erased.
Erased(s, r, min) ==
    LET rest == {e \in Envelope : slotIndex[e] >= min}
    IN  /\ IsPending(r)
        /\ r.fetching = s.fetching \cap rest /\ r.processed = s.processed \cap rest
        /\ r.discarded = s.discarded \cap rest /\ r.ready = s.ready \cap rest
        /\ r.held = s.held \cap rest /\ r.trackers = s.trackers
        /\ \A i : \A e \in rest : Cached(s.cache, i, e) => Cached(r.cache, i, e)
        /\ \A i : known(r, i) => known(s, i)

\* What eraseBelow erases.
LEMMA EraseBelow ==
    ASSUME NEW s, IsPending(s), NEW min \in Nat
    PROVE  Erased(s, eraseBelow(s, min), min)
<1> DEFINE r == eraseBelow(s, min)
           rest == {e \in Envelope : slotIndex[e] >= min}
           keep == {i \in DOMAIN s.cache : s.cache[i] = 0 \/ s.cache[i] >= min}
<1>1. /\ DOMAIN r = DOMAIN s
      /\ r.fetching = s.fetching \cap rest /\ r.processed = s.processed \cap rest
      /\ r.discarded = s.discarded \cap rest /\ r.ready = s.ready \cap rest
      /\ r.held = s.held \cap rest /\ r.trackers = s.trackers
      /\ r.cache = [i \in keep |-> s.cache[i]]
  BY Zenon DEF eraseBelow, IsPending, Restrict
<1> HIDE DEF r
<1>2. DOMAIN r.cache = keep /\ \A i \in keep : r.cache[i] = s.cache[i]
  BY <1>1, Zenon
<1>3. \A i : \A e \in rest : Cached(s.cache, i, e) => Cached(r.cache, i, e)
  <2> SUFFICES ASSUME NEW i, NEW e \in rest, Cached(s.cache, i, e)
               PROVE  Cached(r.cache, i, e)
    BY Zenon
  <2>1. slotIndex[e] \in Nat
    BY FetcherAssumption, Zenon
  <2>2. i \in DOMAIN s.cache /\ s.cache[i] \in Nat
    BY Zenon DEF IsPending, Cached
  <2>3. i \in keep
    BY <2>1, <2>2 DEF Cached
  <2>4. QED
    BY <1>2, <2>3, Zenon DEF Cached
<1>4. \A i : known(r, i) => known(s, i)
  BY <1>1, <1>2, Zenon DEF known
<1>5. IsPending(r)
  <2>1. {r.fetching, r.processed, r.discarded, r.ready, r.held} \subseteq SUBSET Envelope
    BY <1>1, Zenon DEF IsPending
  <2>2. QED
    BY <1>1, <1>2, <2>1, Zenon DEF IsPending
<1>6. QED
  BY <1>1, <1>2, <1>3, <1>4, <1>5, Zenon DEF r, Erased

\* The end of a ledger keeps the invariant.
LEMMA CloseKeeps ==
    ASSUME OthersTyped, Always(pending, calls, ledger, posted, delivered), LedgerClosed
    PROVE  /\ Always(pending', calls, ledger', posted', delivered)
           /\ FetchInv /\ AcceptedOnce =>
                 /\ Complete(pending') /\ Kept(pending', calls) /\ LetIn(pending', ledger')
                 /\ HandedBack(pending', calls, ledger', {})
<1> DEFINE s == pending
           r == pending'
           l == ledger + 1
           min == getMinLedgerSeqToRemember(l)
           old == getMinLedgerSeqToRemember(ledger)
           rest == {e \in Envelope : slotIndex[e] >= min}
           queue == [kind |-> "queue", index |-> l + 1]
           stops == [kind : {"stop"}, items : {QuorumSets, TxSets}, below : {min}]
<1>1. /\ IsPending(s) /\ Apart(s, ledger, delivered) /\ Waits(s) /\ Leftover(s, posted)
      /\ Due(posted, ledger) /\ Outermost(calls) /\ Asking(s, calls)
  BY Zenon DEF Always
<1>2. /\ ledger \in Nat \ {0} /\ l \in Nat \ {0} /\ l \in 1 .. MaxLedger
      /\ ledger \in 1 .. MaxLedger /\ ledger' = l
  BY PendingAssumption DEF OthersTyped, LedgerClosed
<1>3. min \in Nat /\ old \in Nat /\ old <= min /\ min >= 1 /\ old >= 1
  <2>1. old \in 1 .. ledger /\ old <= min
    BY <1>2, MinLedger, Zenon
  <2>2. min \in 1 .. l
    BY <1>2, MinLedger, Zenon
  <2>3. QED
    BY <1>2, <2>1, <2>2
<1>4. s.fetching \subseteq Envelope /\ s.processed \subseteq Envelope /\ delivered \subseteq Envelope
  BY <1>1, Zenon DEF IsPending, OthersTyped
<1>5. \A e \in Envelope : slotIndex[e] \in Nat /\ slotIndex[e] >= 1 /\ needs[e] \subseteq Item
  BY FetcherAssumption, PendingAssumption
\* What is left, whether slots were forgotten or not.
<1>6. /\ IsPending(r)
      /\ r.fetching = s.fetching \cap rest /\ r.processed = s.processed \cap rest
      /\ r.discarded \subseteq s.discarded /\ r.ready \subseteq s.ready \cap rest
      /\ r.held \subseteq s.held /\ r.trackers = s.trackers
      /\ \A i : \A e \in rest : Cached(s.cache, i, e) => Cached(r.cache, i, e)
      /\ \A i : known(r, i) => known(s, i)
      /\ posted \subseteq posted' /\ posted' \subseteq posted \cup {queue} \cup stops
      /\ min > 1 => stops \subseteq posted'
  <2>1. CASE min > GENESIS_LEDGER_SEQ
    <3>1. r = eraseBelow(s, min) /\ posted' = posted \cup {queue} \cup stops
      BY <2>1, Zenon DEF LedgerClosed
    <3> HIDE DEF stops, queue, min, l
    <3>2. Erased(s, r, min)
      BY <1>1, <1>3, <3>1, EraseBelow, Zenon
    <3>3. QED
      BY <3>1, <3>2, Zenon DEF Erased
  <2>2. CASE ~ (min > GENESIS_LEDGER_SEQ)
    <3>1. r = s /\ posted' = posted \cup {queue}
      BY <2>2, Zenon DEF LedgerClosed
    <3>2. ~ (min > 1)
      BY <2>2, Zenon DEF GENESIS_LEDGER_SEQ
    <3> HIDE DEF stops, queue, min, l
    <3>3. Envelope \subseteq rest
      BY <1>3, <1>5, <3>2
    <3>4. s.ready \subseteq Envelope
      BY <1>1, Zenon DEF IsPending
    <3> HIDE DEF rest
    <3>5. QED
      BY <1>1, <1>4, <3>1, <3>2, <3>3, <3>4, Zenon
  <2>3. QED
    BY <2>1, <2>2, Zenon
<1>7. /\ \A task \in stops : task.kind = "stop" /\ task.below = min
      /\ \A i \in Item : \E task \in stops : i \in task.items
      /\ queue.kind = "queue"
  <2>1. \A i \in Item : i \in QuorumSets \/ i \in TxSets
    BY Zenon DEF TxSets
  <2>2. /\ [kind |-> "stop", items |-> QuorumSets, below |-> min] \in stops
        /\ [kind |-> "stop", items |-> TxSets, below |-> min] \in stops
    BY Zenon
  <2>3. QED
    BY <2>1, <2>2, Zenon
<1> HIDE DEF r, s, l, min, old, queue, stops
<1>8. Apart(r, l, delivered)
  <2>1. \A e \in s.fetching \cup s.processed : slotIndex[e] >= old
    BY <1>1, Zenon DEF Apart, old
  <2>2. \A e \in delivered : /\ e \notin s.ready
                             /\ e \in s.processed \/ slotIndex[e] < old
    BY <1>1, Zenon DEF Apart, old
  <2>3. \A e \in delivered : /\ e \notin r.ready
                             /\ e \in r.processed \/ slotIndex[e] < min
    BY <1>3, <1>4, <1>5, <1>6, <2>2
  <2>4. Sane(r.processed \cup r.held \cup delivered)
    BY <1>1, <1>6, Zenon DEF Apart, Sane
  <2>5. r.ready \subseteq r.processed
    BY <1>1, <1>6, Zenon DEF Apart
  <2>6. QED
    BY <1>1, <1>6, <2>3, <2>4, <2>5, Zenon DEF Apart, min
<1>9. Waits(r)
  BY <1>1, <1>6, Zenon DEF Waits
<1>10. Leftover(r, posted')
  <2> SUFFICES ASSUME NEW i \in DOMAIN s.trackers, NEW e \in s.trackers[i].waiting,
                      e \notin r.fetching
               PROVE  Doomed(i, e, posted')
    BY <1>6, Zenon DEF Leftover
  <2>1. i \in Item /\ e \in Envelope
    BY <1>1, Zenon DEF IsPending, IsTrackers, Tracker
  <2>2. CASE e \in s.fetching
    <3>1. slotIndex[e] < min
      BY <1>3, <1>5, <1>6, <2>1, <2>2
    <3>2. min > 1
      BY <1>3, <1>5, <2>1, <3>1
    <3>3. PICK task \in stops : i \in task.items
      BY <1>7, <2>1, Zenon
    <3>4. task \in posted' /\ task.kind = "stop" /\ slotIndex[e] < task.below
      BY <1>6, <1>7, <3>1, <3>2, <3>3, Zenon
    <3>5. QED
      BY <3>3, <3>4, Zenon DEF Doomed
  <2>3. CASE e \notin s.fetching
    <3>1. Doomed(i, e, posted)
      BY <1>1, <2>3, Zenon DEF Leftover
    <3>2. QED
      BY <1>6, <3>1, Zenon DEF Doomed
  <2>4. QED
    BY <2>2, <2>3, Zenon
<1>11. Due(posted', l)
  <2> SUFFICES ASSUME NEW task \in posted', task.kind = "stop"
               PROVE  task.below <= min
    BY Zenon DEF Due, min
  <2>1. CASE task \in posted
    <3>1. task.below \in Nat
      BY <2>1, PendingAssumption DEF OthersTyped, Task
    <3>2. task.below <= old
      BY <1>1, <2>1, Zenon DEF Due, old
    <3>3. QED
      BY <1>3, <3>1, <3>2
  <2>2. CASE task \notin posted
    BY <1>3, <1>6, <1>7, <2>2
  <2>3. QED
    BY <2>1, <2>2, Zenon
<1>12. Asking(r, calls)
  BY <1>1, <1>6, Zenon DEF Asking
<1>13. Always(r, calls, l, posted', delivered)
  BY <1>1, <1>6, <1>8, <1>9, <1>10, <1>11, <1>12, Zenon DEF Always
<1>14. ASSUME FetchInv, AcceptedOnce
       PROVE  /\ Complete(r) /\ Kept(r, calls) /\ LetIn(r, l) /\ HandedBack(r, calls, l, {})
  <2>1. Complete(s) /\ Kept(s, calls) /\ LetIn(s, ledger) /\ HandedBack(s, calls, ledger, {})
    BY <1>14, Zenon DEF FetchInv, s
  <2>2. Complete(r)
    BY <1>6, <2>1, Zenon DEF Complete
  <2>3. Kept(r, calls)
    BY <1>6, <2>1, Zenon DEF Kept
  <2>4. LetIn(r, l)
    <3>1. 1 .. ledger \subseteq 1 .. l
      BY <1>2 DEF l
    <3>2. QED
      BY <1>6, <2>1, <3>1, Zenon DEF LetIn
  <2>5. HandedBack(r, calls, l, {})
    <3> SUFFICES ASSUME NEW e \in r.fetching, AdmissibleAt(l, e), isFullyFetched(r, e)
                 PROVE  \E i \in Item : Receiving(calls, i) /\ e \in fetchingFor(r.trackers, i)
      BY Zenon DEF HandedBack
    <3>1. e \in s.fetching /\ e \in Envelope
      BY <1>4, <1>6, Zenon
    <3>2. PICK m \in 1 .. ledger : /\ e \in acceptable[m]
                                   /\ slotIndex[e] <= m + 1 + LEDGER_VALIDITY_BRACKET
      BY <2>1, <3>1, Zenon DEF LetIn
    <3>3. e \in acceptable[ledger]
      <4>1. m \in 1 .. MaxLedger /\ m <= ledger /\ ledger <= l
        BY <1>2, PendingAssumption DEF l
      <4>2. e \in acceptable[l]
        BY Zenon DEF AdmissibleAt
      <4>3. QED
        BY <1>2, <1>14, <3>1, <3>2, <4>1, <4>2, Zenon DEF AcceptedOnce
    <3>4. slotIndex[e] >= old
      BY <1>1, <3>1, Zenon DEF Apart, old
    <3>5. slotIndex[e] <= ledger + 1 + LEDGER_VALIDITY_BRACKET
      BY <1>2, <1>5, <3>1, <3>2, PendingAssumption
    <3>6. AdmissibleAt(ledger, e)
      BY <3>3, <3>4, <3>5, Zenon DEF AdmissibleAt, old
    <3>7. isFullyFetched(s, e)
      BY <1>6, Zenon DEF isFullyFetched
    <3>8. QED
      BY <1>6, <2>1, <3>1, <3>6, <3>7, Zenon DEF HandedBack
  <2>6. QED
    BY <2>2, <2>3, <2>4, <2>5, Zenon
<1>15. QED
  BY <1>2, <1>13, <1>14, Zenon DEF r, s

\* SCP gets an envelope that was ready.
LEMMA DeliverKeeps ==
    ASSUME OthersTyped, Always(pending, calls, ledger, posted, delivered),
           NEW e \in pending.ready, NEW kept \in SUBSET (pending.held \cup {e}),
           pending' = [pending EXCEPT !.ready = @ \ {e}, !.held = kept],
           delivered' = delivered \cup {e}
    PROVE  /\ delivered' \subseteq Envelope
           /\ Always(pending', calls, ledger, posted, delivered')
           /\ FetchInv => /\ Complete(pending') /\ Kept(pending', calls)
                          /\ LetIn(pending', ledger)
                          /\ HandedBack(pending', calls, ledger, {})
<1> DEFINE s == pending
           r == pending'
<1>1. /\ IsPending(s) /\ Apart(s, ledger, delivered) /\ Waits(s) /\ Leftover(s, posted)
      /\ Due(posted, ledger) /\ Outermost(calls) /\ Asking(s, calls)
  BY Zenon DEF Always
<1>2. e \in Envelope /\ delivered' \subseteq Envelope
  BY <1>1, Zenon DEF IsPending, OthersTyped
<1>3. /\ DOMAIN r = DOMAIN s
      /\ r.fetching = s.fetching /\ r.processed = s.processed /\ r.discarded = s.discarded
      /\ r.ready = s.ready \ {e} /\ r.held = kept /\ r.cache = s.cache
      /\ r.trackers = s.trackers
  BY <1>1, Zenon DEF IsPending
<1> HIDE DEF r, s
<1>4. \A i : known(r, i) => known(s, i)
  BY <1>3, Zenon DEF known, s
<1>5. IsPending(r)
  <2>1. {r.fetching, r.processed, r.discarded, r.ready, r.held} \subseteq SUBSET Envelope
    BY <1>1, <1>2, <1>3, Zenon DEF IsPending, s
  <2>2. QED
    BY <1>1, <1>3, <2>1, Zenon DEF IsPending
<1>6. Apart(r, ledger, delivered')
  <2>1. e \in s.processed
    BY <1>1, Zenon DEF Apart, s
  <2>2. Sane(r.processed \cup r.held \cup delivered')
    BY <1>1, <1>3, <2>1, Zenon DEF Apart, Sane, s
  <2>3. \A x \in delivered' : /\ x \notin r.ready
                              /\ \/ x \in r.processed
                                 \/ slotIndex[x] < getMinLedgerSeqToRemember(ledger)
    BY <1>1, <1>3, <2>1, Zenon DEF Apart
  <2>4. QED
    BY <1>1, <1>3, <2>2, <2>3, Zenon DEF Apart
<1>7. Waits(r) /\ Leftover(r, posted)
  BY <1>1, <1>3, Zenon DEF Waits, Leftover
<1>8. Asking(r, calls)
  BY <1>1, <1>3, <1>4, Zenon DEF Asking
<1>9. Always(r, calls, ledger, posted, delivered')
  BY <1>1, <1>5, <1>6, <1>7, <1>8, Zenon DEF Always
<1>10. ASSUME FetchInv
       PROVE  /\ Complete(r) /\ Kept(r, calls) /\ LetIn(r, ledger)
              /\ HandedBack(r, calls, ledger, {})
  <2>1. Complete(s) /\ Kept(s, calls) /\ LetIn(s, ledger) /\ HandedBack(s, calls, ledger, {})
    BY <1>10, Zenon DEF FetchInv, s
  <2>2. Complete(r) /\ Kept(r, calls) /\ LetIn(r, ledger)
    BY <1>3, <2>1, Zenon DEF Complete, Kept, LetIn
  <2>3. HandedBack(r, calls, ledger, {})
    BY <1>3, <1>4, <2>1, Zenon DEF HandedBack, isFullyFetched
  <2>4. QED
    BY <2>2, <2>3, Zenon
<1>11. QED
  BY <1>2, <1>9, <1>10, Zenon DEF r, s

\* The last envelope of an item that is received was handed back: the call returns.
LEMMA DoneKeeps ==
    ASSUME OthersTyped, Always(pending, calls, ledger, posted, delivered), RecvDone
    PROVE  /\ calls' \in Seq(Call)
           /\ Always(pending', calls', ledger, posted, delivered)
           /\ FetchInv => /\ Complete(pending') /\ Kept(pending', calls')
                          /\ LetIn(pending', ledger)
                          /\ HandedBack(pending', calls', ledger, {})
<1> DEFINE s == pending
           r == pending'
           i == Head(calls).item
           tr == [s.trackers EXCEPT ![i] = cancel(@)]
<1>1. /\ calls \in Seq(Call) /\ calls # << >> /\ Head(calls).kind = "recv"
      /\ calls' = Tail(calls) /\ Outermost(calls)
      /\ fetchingFor(s.trackers, i) = {}
      /\ r = [s EXCEPT !.trackers[i] = cancel(@)]
  BY Zenon DEF RecvDone, running, OthersTyped, Always
<1>2. /\ calls' \in Seq(Call) /\ Outermost(calls')
      /\ i \in Item /\ Receiving(calls, i) /\ \A j : ~ Receiving(calls', j)
  BY <1>1, PopCall, Zenon
<1>3. IsPending(s) /\ IsTrackers(s.trackers) /\ Asking(s, calls)
  BY Zenon DEF Always, IsPending
<1>4. /\ DOMAIN r = DOMAIN s
      /\ r.fetching = s.fetching /\ r.processed = s.processed /\ r.discarded = s.discarded
      /\ r.ready = s.ready /\ r.held = s.held /\ r.cache = s.cache
      /\ r.trackers = tr
  BY <1>1, <1>3, Zenon DEF IsPending
<1>5. OtherPeer(s, r)
  <2>1. i \in DOMAIN s.trackers => s.trackers[i].waiting = {}
    BY <1>1, Zenon DEF fetchingFor
  <2>2. \A t \in Tracker : cancel(t) \in Tracker /\ cancel(t).waiting = t.waiting
    BY Zenon DEF cancel, Tracker
  <2> HIDE DEF i, s, r
  <2>3. /\ DOMAIN tr = DOMAIN s.trackers
        /\ \A j \in DOMAIN s.trackers :
              tr[j] = IF j = i THEN cancel(s.trackers[j]) ELSE s.trackers[j]
    BY Zenon
  <2> HIDE DEF tr
  <2>4. /\ IsTrackers(tr)
        /\ \A j \in DOMAIN s.trackers : /\ tr[j].waiting = s.trackers[j].waiting
                                        /\ \/ tr[j].lastSeen = s.trackers[j].lastSeen
                                           \/ s.trackers[j].waiting = {}
    BY <1>3, <2>1, <2>2, <2>3, Zenon DEF IsTrackers
  <2>5. QED
    BY <1>4, <2>3, <2>4, Zenon DEF OtherPeer
<1> HIDE DEF r, s, i, tr
\* Nobody who is being fetched waits for a known item any more.
<1>6. /\ Always(r, calls, ledger, posted, delivered)
      /\ FetchInv => /\ Complete(r) /\ Kept(r, calls) /\ LetIn(r, ledger)
                     /\ HandedBack(r, calls, ledger, {})
  BY <1>5, OtherPeerKeeps, Zenon DEF FetchInv, s
<1>7. \A j : Receiving(calls, j) => j = i
  BY <1>1, <1>2, OneItem, Zenon
<1>8. fetchingFor(r.trackers, i) = {}
  BY <1>1, <1>5, Zenon DEF OtherPeer, fetchingFor
<1>9. Asking(r, calls')
  <2> SUFFICES ASSUME NEW j \in DOMAIN r.trackers, NEW e \in r.trackers[j].waiting,
                      e \in r.fetching, known(r, j)
               PROVE  FALSE
    BY Zenon DEF Asking
  <2>1. Receiving(calls, j)
    BY <1>6, Zenon DEF Always, Asking
  <2>2. QED
    BY <1>7, <1>8, <2>1, Zenon DEF fetchingFor
<1>10. Always(r, calls', ledger, posted, delivered)
  BY <1>2, <1>6, <1>9, Zenon DEF Always
<1>11. Kept(r, calls')
  BY <1>2, Zenon DEF Kept
<1>12. HandedBack(r, calls, ledger, {}) => HandedBack(r, calls', ledger, {})
  BY <1>7, <1>8, Zenon DEF HandedBack
<1>13. QED
  BY <1>2, <1>6, <1>10, <1>11, <1>12, Zenon DEF r

\* The next envelope that waited for an item is handed back.
LEMMA WaitingKeeps ==
    ASSUME OthersTyped, Always(pending, calls, ledger, posted, delivered), RecvWaiting
    PROVE  /\ flood' \in Floods /\ calls' \in Seq(Call)
           /\ Always(pending', calls', ledger, posted, delivered)
           /\ FetchInv => /\ Complete(pending') /\ Kept(pending', calls')
                          /\ LetIn(pending', ledger)
                          /\ HandedBack(pending', calls', ledger, {})
<1> DEFINE s == pending
           i == Head(calls).item
<1>1. calls \in Seq(Call) /\ calls # << >> /\ Head(calls).kind = "recv" /\ Outermost(calls)
  BY Zenon DEF RecvWaiting, running, OthersTyped, Always
<1>2. i \in Item /\ Receiving(calls, i) /\ \A j : Receiving(calls, j) => j = i
  BY <1>1, PopCall, OneItem, Zenon
<1>3. PICK e \in fetchingFor(s.trackers, i) : \E choice \in [needs[e] -> Peer] :
         herderRecv([s EXCEPT !.trackers[i].waiting = @ \ {e}], calls, e, flood, choice)
  BY Zenon DEF RecvWaiting
<1> DEFINE r == [s EXCEPT !.trackers[i].waiting = @ \ {e}]
           tr == [s.trackers EXCEPT ![i].waiting = @ \ {e}]
<1>4. /\ IsPending(s) /\ IsTrackers(s.trackers) /\ Apart(s, ledger, delivered) /\ Waits(s)
      /\ Leftover(s, posted) /\ Due(posted, ledger) /\ Asking(s, calls)
  BY Zenon DEF Always, IsPending
<1>5. i \in DOMAIN s.trackers /\ e \in s.trackers[i].waiting /\ e \in Envelope
  BY <1>3, <1>4, Zenon DEF fetchingFor, IsTrackers, Tracker
<1>6. /\ DOMAIN r = DOMAIN s
      /\ r.fetching = s.fetching /\ r.processed = s.processed /\ r.discarded = s.discarded
      /\ r.ready = s.ready /\ r.held = s.held /\ r.cache = s.cache
      /\ r.trackers = tr
  BY <1>4, Zenon DEF IsPending
<1>7. /\ DOMAIN tr = DOMAIN s.trackers
      /\ \A j \in DOMAIN s.trackers :
            /\ tr[j] \in Tracker /\ tr[j].lastSeen = s.trackers[j].lastSeen
            /\ tr[j].waiting = IF j = i THEN s.trackers[j].waiting \ {e}
                                        ELSE s.trackers[j].waiting
  <2> HIDE DEF s, i
  <2>1. /\ DOMAIN tr = DOMAIN s.trackers
        /\ \A j \in DOMAIN s.trackers :
              tr[j] = IF j = i THEN discard(s.trackers[j], {e}) ELSE s.trackers[j]
    BY Zenon DEF discard
  <2>2. \A t \in Tracker : /\ discard(t, {e}) \in Tracker
                           /\ discard(t, {e}).lastSeen = t.lastSeen
                           /\ discard(t, {e}).waiting = t.waiting \ {e}
    BY Zenon DEF discard, Tracker
  <2> HIDE DEF tr
  <2>3. QED
    BY <1>4, <2>1, <2>2, Zenon DEF IsTrackers
<1> HIDE DEF r, s, i, tr
<1>8. \A j : fetchingFor(r.trackers, j) = IF j = i THEN fetchingFor(s.trackers, j) \ {e}
                                                   ELSE fetchingFor(s.trackers, j)
  BY <1>6, <1>7, Zenon DEF fetchingFor
<1>9. \A j : known(r, j) <=> known(s, j)
  BY <1>6, Zenon DEF known
<1>10. Always(r, calls, ledger, posted, delivered)
  <2>1. IsPending(r)
    BY <1>4, <1>6, <1>7 DEF IsPending, IsTrackers
  <2>2. Apart(r, ledger, delivered)
    BY <1>4, <1>6, Zenon DEF Apart
  <2>3. Waits(r)
    BY <1>4, <1>6, <1>7, Zenon DEF Waits
  <2>4. Leftover(r, posted)
    BY <1>4, <1>6, <1>7, Zenon DEF Leftover
  <2>5. Asking(r, calls)
    BY <1>4, <1>6, <1>7, <1>9, Zenon DEF Asking
  <2>6. QED
    BY <1>1, <1>4, <2>1, <2>2, <2>3, <2>4, <2>5, Zenon DEF Always
<1>11. Free(r, calls, e)
  BY <1>2, <1>8, Zenon DEF Free
<1>12. ASSUME FetchInv
       PROVE  /\ Complete(r) /\ Kept(r, calls) /\ LetIn(r, ledger)
              /\ HandedBack(r, calls, ledger, {e})
              /\ admissible(e) => \A j \in needs[e] : Receiving(calls, j) => known(r, j)
  <2>1. Complete(s) /\ Kept(s, calls) /\ LetIn(s, ledger) /\ HandedBack(s, calls, ledger, {})
    BY <1>12, Zenon DEF FetchInv, s
  <2>2. e \in s.fetching => Cached(s.cache, i, e)
    BY <1>2, <1>3, <2>1, Zenon DEF Kept
  <2>3. Complete(r)
    BY <1>6, <1>8, <2>1, <2>2, Zenon DEF Complete
  <2>4. Kept(r, calls) /\ LetIn(r, ledger)
    BY <1>6, <1>8, <2>1, Zenon DEF Kept, LetIn
  <2>5. HandedBack(r, calls, ledger, {e})
    BY <1>6, <1>8, <1>9, <2>1, Zenon DEF HandedBack, isFullyFetched
  <2>6. ASSUME admissible(e) PROVE known(r, i)
    <3>1. slotIndex[e] >= getMinLedgerSeqToRemember(ledger)
      BY <2>6, Zenon DEF admissible
    <3>2. ledger \in Nat \ {0} /\ posted \in SUBSET Task
      BY PendingAssumption DEF OthersTyped
    <3>3. e \in s.fetching
      BY <1>3, <1>4, <1>5, <3>1, <3>2, WaitsIsFetching, Zenon
    <3>4. QED
      BY <1>6, <2>2, <3>3, Zenon DEF Cached, known
  <2>7. QED
    BY <1>2, <2>3, <2>4, <2>5, <2>6, Zenon
<1>13. flood \in Floods
  BY Zenon DEF OthersTyped, Floods
<1>14. PICK choice : herderRecv(r, calls, e, flood, choice)
  BY <1>3, Zenon DEF r
<1>15. QED
  BY <1>1, <1>5, <1>10, <1>11, <1>12, <1>13, <1>14, HerderRecv, Zenon

\* A peer sends an envelope.
LEMMA EnvelopeKeeps ==
    ASSUME OthersTyped, Always(pending, calls, ledger, posted, delivered),
           NEW p \in Peer, NEW e \in Envelope, RecvEnvelope(p, e)
    PROVE  /\ flood' \in Floods /\ calls' \in Seq(Call)
           /\ Always(pending', calls', ledger, posted, delivered)
           /\ FetchInv => /\ Complete(pending') /\ Kept(pending', calls')
                          /\ LetIn(pending', ledger)
                          /\ HandedBack(pending', calls', ledger, {})
<1> DEFINE credited ==
              [flood EXCEPT ![e] = [ledger |-> IF @.ledger = 0 THEN ledger ELSE @.ledger,
                                    told |-> @.told \cup {p}]]
<1>1. calls \in Seq(Call) /\ flood \in Floods /\ \A j : ~ Receiving(calls, j)
  BY IdleReceives, Zenon DEF OthersTyped, Floods, RecvEnvelope
<1>2. credited \in Floods
  BY <1>1, PendingAssumption DEF OthersTyped, Floods
<1>3. Free(pending, calls, e)
  BY <1>1, Zenon DEF Free
<1>4. CASE admissible(e) /\ e \notin pending.discarded
  <2>1. PICK choice \in [needs[e] -> Peer] : herderRecv(pending, calls, e, credited, choice)
    BY <1>4, Zenon DEF RecvEnvelope
  <2>2. HandedBack(pending, calls, ledger, {}) => HandedBack(pending, calls, ledger, {e})
    BY Zenon DEF HandedBack
  <2> HIDE DEF credited
  <2>3. QED
    BY <1>1, <1>2, <1>3, <2>1, <2>2, HerderRecv, Zenon DEF FetchInv
<1>5. CASE ~ (admissible(e) /\ e \notin pending.discarded)
  <2>1. flood' = [flood EXCEPT ![e] = NoRecord] /\ UNCHANGED <<pending, calls>>
    BY <1>5, Zenon DEF RecvEnvelope
  <2>2. NoRecord \in [ledger : 0 .. MaxLedger, told : SUBSET Peer]
    BY PendingAssumption DEF NoRecord
  <2>3. flood' \in Floods
    BY <1>1, <2>1, <2>2, Zenon DEF Floods
  <2>4. QED
    BY <1>1, <2>1, <2>3, Zenon DEF FetchInv
<1>6. QED
  BY <1>4, <1>5, Zenon

-----------------------------------------------------------------------------
(***************************************************************************)
(* The theorems.                                                              *)
(***************************************************************************)

\* Peers follow the protocol.
Honest == ProposedForNext /\ AcceptedOnce

\* A step keeps the invariant.
LEMMA PendingStep ==
    ASSUME PendingInv, [Next]_vars
    PROVE  PendingInv' /\ (FetchInv /\ Honest => FetchInv')
<1> DEFINE fetch1 == /\ Complete(pending') /\ Kept(pending', calls')
                     /\ LetIn(pending', ledger') /\ HandedBack(pending', calls', ledger', {})
           always1 == Always(pending', calls', ledger', posted', delivered')
<1> SUFFICES OthersTyped' /\ always1 /\ (FetchInv /\ Honest => fetch1)
  BY Zenon DEF PendingInv, FetchInv
<1>1. OthersTyped /\ Always(pending, calls, ledger, posted, delivered)
  BY Zenon DEF PendingInv
<1>2. flood \in Floods
  BY <1>1, Zenon DEF OthersTyped, Floods
<1>3. CASE UNCHANGED vars
  BY <1>1, <1>3, Zenon DEF vars, OthersTyped, FetchInv
<1>4. ASSUME NEW p \in Peer, NEW e \in Envelope, RecvEnvelope(p, e)
      PROVE  OthersTyped' /\ always1 /\ (FetchInv /\ Honest => fetch1)
  <2>1. UNCHANGED <<peers, ledger, posted, delivered>>
    BY <1>4, Zenon DEF RecvEnvelope
  <2>2. /\ flood' \in Floods /\ calls' \in Seq(Call)
        /\ Always(pending', calls', ledger, posted, delivered)
        /\ FetchInv => /\ Complete(pending') /\ Kept(pending', calls')
                       /\ LetIn(pending', ledger)
                       /\ HandedBack(pending', calls', ledger, {})
    BY <1>1, <1>4, EnvelopeKeeps, Zenon
  <2>3. QED
    BY <1>1, <2>1, <2>2, Zenon DEF OthersTyped, Floods
<1>5. ASSUME NEW p \in Peer, NEW i \in Item, RecvItem(p, i)
      PROVE  OthersTyped' /\ always1 /\ (FetchInv /\ Honest => fetch1)
  <2> DEFINE slot == getLastSeenSlotIndex(pending.trackers, i)
  <2>1. idle /\ UNCHANGED <<flood, peers, ledger, posted, delivered>>
    BY <1>5, Zenon DEF RecvItem
  <2>2. CASE i \in InsaneQuorumSets
    <3>1. pending' = discardSCPEnvelopesWithQSet(pending, i) /\ UNCHANGED calls
      BY <1>5, <2>2, Zenon DEF RecvItem
    <3>2. /\ Always(pending', calls, ledger, posted, delivered)
          /\ FetchInv => /\ Complete(pending') /\ Kept(pending', calls)
                         /\ LetIn(pending', ledger)
                         /\ HandedBack(pending', calls, ledger, {})
      BY <1>1, <2>1, <2>2, <3>1, DiscardKeeps, Zenon
    <3>3. QED
      BY <1>1, <2>1, <3>1, <3>2, Zenon DEF OthersTyped
  <2>3. CASE i \notin InsaneQuorumSets
    <3>1. addItem(i, slot)
      BY <1>5, <2>3, Zenon DEF RecvItem
    <3>2. slot \in Nat /\ \A e \in fetchingFor(pending.trackers, i) : slotIndex[e] <= slot
      BY <1>1, Zenon DEF getLastSeenSlotIndex, fetchingFor, Always, IsPending, IsTrackers, Tracker,
                  Waits
    <3> HIDE DEF slot
    <3>3. /\ calls' \in Seq(Call)
          /\ Always(pending', calls', ledger, posted, delivered)
          /\ FetchInv => /\ Complete(pending') /\ Kept(pending', calls')
                         /\ LetIn(pending', ledger)
                         /\ HandedBack(pending', calls', ledger, {})
      BY <1>1, <2>1, <2>3, <3>1, <3>2, AddItem, Zenon
    <3>4. QED
      BY <1>1, <2>1, <3>3, Zenon DEF OthersTyped
  <2>4. QED
    BY <2>2, <2>3, Zenon
<1>6. ASSUME NEW i \in Item, AddTxSet(i)
      PROVE  OthersTyped' /\ always1 /\ (FetchInv /\ Honest => fetch1)
  <2>1. /\ idle /\ UNCHANGED <<flood, peers, ledger, posted, delivered>>
        /\ i \in proposes[ledger] /\ addItem(i, ledger + 1)
    BY <1>6, Zenon DEF AddTxSet
  <2>2. ledger \in 1 .. MaxLedger /\ ledger + 1 \in Nat
    BY <1>1, PendingAssumption DEF OthersTyped
  <2>3. i \in Item \ InsaneQuorumSets
    BY <2>1, <2>2, PendingAssumption, Zenon DEF TxSets
  <2>4. Honest => \A e \in fetchingFor(pending.trackers, i) : slotIndex[e] <= ledger + 1
    <3>1. \A e \in fetchingFor(pending.trackers, i) : e \in Envelope /\ i \in needs[e]
      BY <1>1, Zenon DEF fetchingFor, Always, IsPending, IsTrackers, Tracker, Waits
    <3>2. QED
      BY <2>1, <2>2, <3>1, Zenon DEF Honest, ProposedForNext
  <2>5. /\ calls' \in Seq(Call)
        /\ Always(pending', calls', ledger, posted, delivered)
        /\ FetchInv /\ Honest => /\ Complete(pending') /\ Kept(pending', calls')
                                 /\ LetIn(pending', ledger)
                                 /\ HandedBack(pending', calls', ledger, {})
    BY <1>1, <2>1, <2>2, <2>3, <2>4, AddItem, Zenon
  <2>6. QED
    BY <1>1, <2>1, <2>5, Zenon DEF OthersTyped
<1>7. CASE RecvWaiting
  <2>1. UNCHANGED <<peers, ledger, posted, delivered>>
    BY <1>7, Zenon DEF RecvWaiting
  <2>2. /\ flood' \in Floods /\ calls' \in Seq(Call)
        /\ Always(pending', calls', ledger, posted, delivered)
        /\ FetchInv => /\ Complete(pending') /\ Kept(pending', calls')
                       /\ LetIn(pending', ledger)
                       /\ HandedBack(pending', calls', ledger, {})
    BY <1>1, <1>7, WaitingKeeps, Zenon
  <2>3. QED
    BY <1>1, <2>1, <2>2, Zenon DEF OthersTyped, Floods
<1>8. CASE RecvDone
  <2>1. UNCHANGED <<flood, peers, ledger, posted, delivered>>
    BY <1>8, Zenon DEF RecvDone
  <2>2. /\ calls' \in Seq(Call)
        /\ Always(pending', calls', ledger, posted, delivered)
        /\ FetchInv => /\ Complete(pending') /\ Kept(pending', calls')
                       /\ LetIn(pending', ledger)
                       /\ HandedBack(pending', calls', ledger, {})
    BY <1>1, <1>8, DoneKeeps, Zenon
  <2>3. QED
    BY <1>1, <2>1, <2>2, Zenon DEF OthersTyped
<1>9. CASE ProcessSCPQueue
  <2> DEFINE next == popped(pending, Head(calls).index)
  <2>1. /\ calls # << >> /\ Head(calls).kind = "queue"
        /\ UNCHANGED <<flood, peers, ledger, posted>>
    BY <1>9, Zenon DEF ProcessSCPQueue, running
  <2>2. CASE next = {}
    <3>1. calls' = Tail(calls) /\ UNCHANGED <<pending, delivered>>
      BY <1>9, <2>2, Zenon DEF ProcessSCPQueue
    <3>2. calls \in Seq(Call) /\ Outermost(calls)
      BY <1>1, Zenon DEF OthersTyped, Always
    <3>3. calls' \in Seq(Call) /\ SameItems(calls, calls')
      BY <2>1, <3>1, <3>2, PopCall, Zenon
    <3>4. /\ Always(pending, calls', ledger, posted, delivered)
          /\ Kept(pending, calls) => Kept(pending, calls')
          /\ HandedBack(pending, calls, ledger, {}) => HandedBack(pending, calls', ledger, {})
      BY <1>1, <3>3, CallsChange, Zenon
    <3>5. QED
      BY <1>1, <2>1, <3>1, <3>3, <3>4, Zenon DEF OthersTyped, FetchInv
  <2>3. CASE next # {}
    <3>1. /\ UNCHANGED calls
          /\ \E e \in next : \E kept \in SUBSET (pending.held \cup {e}) :
                /\ pending' = [pending EXCEPT !.ready = @ \ {e}, !.held = kept]
                /\ delivered' = delivered \cup {e}
      BY <1>9, <2>3, Zenon DEF ProcessSCPQueue
    <3>2. next \subseteq pending.ready
      BY Zenon DEF popped
    <3> HIDE DEF next
    <3>3. PICK e \in pending.ready : \E kept \in SUBSET (pending.held \cup {e}) :
             /\ pending' = [pending EXCEPT !.ready = @ \ {e}, !.held = kept]
             /\ delivered' = delivered \cup {e}
      BY <3>1, <3>2, Zenon
    <3>4. /\ delivered' \subseteq Envelope
          /\ Always(pending', calls, ledger, posted, delivered')
          /\ FetchInv => /\ Complete(pending') /\ Kept(pending', calls)
                         /\ LetIn(pending', ledger)
                         /\ HandedBack(pending', calls, ledger, {})
      BY <1>1, <3>3, DeliverKeeps, Zenon
    <3>5. QED
      BY <1>1, <2>1, <3>1, <3>4, Zenon DEF OthersTyped
  <2>4. QED
    BY <2>2, <2>3, Zenon
<1>10. CASE LedgerClosed
  <2> DEFINE l == ledger + 1
             min == getMinLedgerSeqToRemember(l)
  <2>1. UNCHANGED <<peers, calls, delivered>> /\ ledger' = l /\ l <= MaxLedger
    BY <1>10, Zenon DEF LedgerClosed
  <2>2. l \in 1 .. MaxLedger /\ l \in Nat \ {0} /\ l + 1 \in 1 .. MaxLedger + 1
    BY <1>1, <2>1, PendingAssumption DEF OthersTyped
  <2>3. min \in 1 .. MaxLedger
    <3>1. min \in 1 .. l
      BY <2>2, MinLedger, Zenon
    <3>2. QED
      BY <2>2, <3>1, PendingAssumption
  <2>4. flood' \in Floods
    <3>1. NoRecord \in [ledger : 0 .. MaxLedger, told : SUBSET Peer]
      BY PendingAssumption DEF NoRecord
    <3>2. \/ UNCHANGED flood
          \/ flood' = [e \in Envelope |->
                          IF flood[e].ledger < min THEN NoRecord ELSE flood[e]]
      BY <1>10, Zenon DEF LedgerClosed
    <3> HIDE DEF min
    <3>3. QED
      BY <1>2, <3>1, <3>2, Zenon DEF Floods
  <2>5. posted' \subseteq Task
    <3>1. posted' \subseteq posted \cup {[kind |-> "queue", index |-> l + 1]} \cup
                     [kind : {"stop"}, items : {QuorumSets, TxSets}, below : {min}]
      BY <1>10, Zenon DEF LedgerClosed
    <3>2. [kind |-> "queue", index |-> l + 1] \in Task
      BY <2>2, Zenon DEF Task
    <3>3. [kind : {"stop"}, items : {QuorumSets, TxSets}, below : {min}] \subseteq Task
      BY <2>3, Zenon DEF Task
    <3>4. posted \subseteq Task
      BY <1>1, Zenon DEF OthersTyped
    <3> HIDE DEF l, min
    <3>5. QED
      BY <3>1, <3>2, <3>3, <3>4, Zenon
  <2>6. /\ Always(pending', calls, ledger', posted', delivered)
        /\ FetchInv /\ AcceptedOnce =>
              /\ Complete(pending') /\ Kept(pending', calls) /\ LetIn(pending', ledger')
              /\ HandedBack(pending', calls, ledger', {})
    BY <1>1, <1>10, CloseKeeps, Zenon
  <2>7. QED
    BY <1>1, <2>1, <2>2, <2>4, <2>5, <2>6, Zenon DEF OthersTyped, Honest, Floods
<1>11. ASSUME NEW task \in posted, RunPosted(task)
       PROVE  OthersTyped' /\ always1 /\ (FetchInv /\ Honest => fetch1)
  <2>1. /\ idle /\ posted' = posted \ {task} /\ task \in Task
        /\ UNCHANGED <<flood, peers, ledger, delivered>>
    BY <1>1, <1>11, Zenon DEF RunPosted, OthersTyped
  <2>2. CASE task.kind = "stop"
    <3>1. /\ pending' = [pending EXCEPT
                            !.trackers = stopFetchingBelow(@, task.items, task.below)]
          /\ UNCHANGED calls
      BY <1>11, <2>2, Zenon DEF RunPosted
    <3>2. /\ Always(pending', calls, ledger, posted \ {task}, delivered)
          /\ FetchInv => /\ Complete(pending') /\ Kept(pending', calls)
                         /\ LetIn(pending', ledger)
                         /\ HandedBack(pending', calls, ledger, {})
      BY <1>1, <1>11, <2>1, <2>2, <3>1, StopKeeps, Zenon
    <3>3. QED
      BY <1>1, <2>1, <3>1, <3>2, Zenon DEF OthersTyped
  <2>3. CASE task.kind # "stop"
    <3>1. calls' = <<task>> /\ UNCHANGED pending
      BY <1>11, <2>3, Zenon DEF RunPosted
    <3>2. task \in [kind : {"queue"}, index : 1 .. MaxLedger + 1]
      BY <2>1, <2>3, Zenon DEF Task
    <3>3. task = [kind |-> "queue", index |-> task.index] /\ task.index \in 1 .. MaxLedger + 1
      BY <3>2, Zenon
    <3>4. calls = << >> /\ calls \in Seq(Call) /\ Outermost(calls)
      BY <2>1, IdleReceives, Zenon DEF idle
    <3>5. calls' = <<task>> \o calls
      BY <3>1, <3>4
    <3>6. calls' \in Seq(Call) /\ SameItems(calls, calls')
      <4>1. \A x : x = task.index =>
               calls' = <<[kind |-> "queue", index |-> x]>> \o calls
        BY <3>3, <3>5, Zenon
      <4>2. QED
        BY <3>3, <3>4, <4>1, PushQueue, Zenon
    <3>7. /\ Always(pending, calls', ledger, posted, delivered)
          /\ Kept(pending, calls) => Kept(pending, calls')
          /\ HandedBack(pending, calls, ledger, {}) => HandedBack(pending, calls', ledger, {})
      BY <1>1, <3>6, CallsChange, Zenon
    <3>8. Always(pending, calls', ledger, posted \ {task}, delivered)
      <4>1. Leftover(pending, posted \ {task})
        BY <2>3, <3>7, Zenon DEF Always, Leftover, Doomed
      <4>2. QED
        BY <3>7, <4>1, Zenon DEF Always, Due
    <3>9. QED
      BY <1>1, <2>1, <3>1, <3>6, <3>7, <3>8, Zenon DEF OthersTyped, FetchInv
  <2>4. QED
    BY <2>2, <2>3, Zenon
\* The steps that change only whom a tracker asks.
<1>12. ASSUME OtherPeer(pending, pending'), UNCHANGED <<flood, peers, ledger, posted, calls, delivered>>
       PROVE  OthersTyped' /\ always1 /\ (FetchInv /\ Honest => fetch1)
  <2>1. /\ Always(pending', calls, ledger, posted, delivered)
        /\ Complete(pending) => Complete(pending')
        /\ Kept(pending, calls) => Kept(pending', calls)
        /\ LetIn(pending, ledger) => LetIn(pending', ledger)
        /\ HandedBack(pending, calls, ledger, {}) => HandedBack(pending', calls, ledger, {})
    BY <1>1, <1>12, OtherPeerKeeps, Zenon
  <2>2. QED
    BY <1>1, <1>12, <2>1, Zenon DEF OthersTyped, FetchInv
<1>13. ASSUME NEW i \in DOMAIN pending.trackers, NEW n, IsNet(n), NEW q,
              pending' = [pending EXCEPT !.trackers[i] = tryNextPeer(@, n, q)]
       PROVE  OtherPeer(pending, pending')
  <2> DEFINE t == tryNextPeer(pending.trackers[i], n, q)
             tr == [pending.trackers EXCEPT ![i] = t]
  <2>1. IsPending(pending) /\ IsTrackers(pending.trackers)
    BY <1>1, Zenon DEF Always, IsPending
  <2>2. /\ t \in Tracker /\ t.waiting = pending.trackers[i].waiting
        /\ t.lastSeen = pending.trackers[i].lastSeen
    BY <1>13, <2>1, TryNextPeer DEF IsTrackers
  <2>3. pending' = [pending EXCEPT !.trackers = tr]
    BY <1>13, Zenon
  <2> HIDE DEF t
  <2>4. /\ DOMAIN tr = DOMAIN pending.trackers
        /\ \A j \in DOMAIN pending.trackers :
              tr[j] = IF j = i THEN t ELSE pending.trackers[j]
    BY Zenon
  <2> HIDE DEF tr
  <2>5. /\ IsTrackers(tr)
        /\ \A j \in DOMAIN pending.trackers :
              /\ tr[j].waiting = pending.trackers[j].waiting
              /\ tr[j].lastSeen = pending.trackers[j].lastSeen
    BY <2>1, <2>2, <2>4, Zenon DEF IsTrackers
  <2>6. QED
    BY <2>1, <2>3, <2>4, <2>5, Zenon DEF OtherPeer, IsPending
<1>14. ASSUME NEW p \in Peer, NEW i \in Item, DoesntHave(p, i)
       PROVE  OthersTyped' /\ always1 /\ (FetchInv /\ Honest => fetch1)
  <2>1. UNCHANGED <<flood, peers, ledger, posted, calls, delivered>>
    BY <1>14, Zenon DEF DoesntHave
  <2>2. PICK q \in Peer :
           pending' = [pending EXCEPT
                          !.trackers = doesntHave(@, i, p, net(flood, [j \in {i} |-> q]))]
    BY <1>14, Zenon DEF DoesntHave
  <2> DEFINE n == net(flood, [j \in {i} |-> q])
  <2>3. IsNet(n)
    BY <1>2, NetIsNet, Zenon
  <2>4. IsPending(pending)
    BY <1>1, Zenon DEF Always
  <2> HIDE DEF n
  <2>5. CASE i \in DOMAIN pending.trackers /\ pending.trackers[i].last = p
    <3>1. pending' = [pending EXCEPT !.trackers[i] = tryNextPeer(@, n, n.choice[i])]
      BY <2>2, <2>4, <2>5, Zenon DEF doesntHave, n, IsPending
    <3>2. QED
      BY <1>12, <1>13, <2>1, <2>3, <2>5, <3>1, Zenon
  <2>6. CASE ~ (i \in DOMAIN pending.trackers /\ pending.trackers[i].last = p)
    <3>1. pending' = [pending EXCEPT !.trackers = pending.trackers]
      BY <2>2, <2>6, Zenon DEF doesntHave
    <3>2. OtherPeer(pending, pending')
      BY <2>4, <3>1, Zenon DEF OtherPeer, IsPending
    <3>3. QED
      BY <1>12, <2>1, <3>2, Zenon
  <2>7. QED
    BY <2>5, <2>6, Zenon
<1>15. ASSUME NEW i \in Item, FetchTimeout(i)
       PROVE  OthersTyped' /\ always1 /\ (FetchInv /\ Honest => fetch1)
  <2>1. PICK q \in Peer :
           pending' = [pending EXCEPT !.trackers[i] = tryNextPeer(@, net(flood, << >>), q)]
    BY <1>15, Zenon DEF FetchTimeout
  <2>2. i \in DOMAIN pending.trackers /\ UNCHANGED <<flood, peers, ledger, posted, calls, delivered>>
    BY <1>15, Zenon DEF FetchTimeout
  <2>3. IsNet(net(flood, << >>))
    BY <1>2, NetIsNet, Zenon
  <2>4. QED
    BY <1>12, <1>13, <2>1, <2>2, <2>3, Zenon
<1>16. ASSUME NEW p \in Peer, PeerConnects(p) \/ PeerDrops(p)
       PROVE  OthersTyped' /\ always1 /\ (FetchInv /\ Honest => fetch1)
  <2>1. UNCHANGED <<pending, flood, ledger, posted, calls, delivered>>
    BY <1>16, Zenon DEF PeerConnects, PeerDrops
  <2>2. peers' \in [Peer -> {"new", "authenticated", "dropped"}]
    BY <1>1, <1>16, Zenon DEF OthersTyped, PeerConnects, PeerDrops
  <2>3. QED
    BY <1>1, <2>1, <2>2, Zenon DEF OthersTyped, FetchInv
<1>17. QED
  BY <1>3, <1>4, <1>5, <1>6, <1>7, <1>8, <1>9, <1>10, <1>11, <1>14, <1>15, <1>16, Zenon DEF Next

\* It starts in the invariant.
LEMMA PendingInit ==
    ASSUME Init
    PROVE  PendingInv /\ FetchInv
<1>1. /\ pending.fetching = {} /\ pending.processed = {} /\ pending.discarded = {}
      /\ pending.ready = {} /\ pending.held = {} /\ DOMAIN pending.trackers = {}
      /\ DOMAIN pending.cache = {}
      /\ DOMAIN pending =
            {"fetching", "processed", "discarded", "ready", "trackers", "cache", "held"}
  BY DEF Init
<1>2. OthersTyped
  <2>1. NoRecord \in [ledger : 0 .. MaxLedger, told : SUBSET Peer]
    BY PendingAssumption DEF NoRecord
  <2>2. flood \in [Envelope -> [ledger : 0 .. MaxLedger, told : SUBSET Peer]]
    BY <2>1, Zenon DEF Init
  <2>3. peers \in [Peer -> {"new", "authenticated", "dropped"}]
    BY Zenon DEF Init
  <2>4. ledger \in 1 .. MaxLedger /\ posted \subseteq Task /\ calls \in Seq(Call)
        /\ delivered \subseteq Envelope
    BY PendingAssumption DEF Init
  <2>5. QED
    BY <2>2, <2>3, <2>4, Zenon DEF OthersTyped
<1>3. delivered = {} /\ posted = {} /\ calls = << >>
  BY Zenon DEF Init
<1>4. IsPending(pending)
  BY <1>1, Zenon DEF IsPending, IsTrackers
<1>5. Apart(pending, ledger, delivered)
  BY <1>1, <1>3, Zenon DEF Apart, Sane
<1>6. Waits(pending) /\ Leftover(pending, posted) /\ Asking(pending, calls) /\ Due(posted, ledger)
  BY <1>1, <1>3, Zenon DEF Waits, Leftover, Asking, Due
<1>7. Outermost(calls)
  BY <1>3 DEF Outermost
<1>8. PendingInv
  BY <1>2, <1>4, <1>5, <1>6, <1>7, Zenon DEF PendingInv, Always
<1>9. FetchInv
  BY <1>1, Zenon DEF FetchInv, Complete, Kept, LetIn, HandedBack
<1>10. QED
  BY <1>8, <1>9, Zenon

\* The invariant of the herder's envelopes, whatever peers send.
THEOREM PendingInvariance == Spec => []PendingInv
<1>1. Init => PendingInv
  BY PendingInit, Zenon
<1>2. PendingInv /\ [Next]_vars => PendingInv'
  BY PendingStep, Zenon
<1>3. QED
  BY <1>1, <1>2, PTL DEF Spec

\* SCP receives an envelope at most once, and none that was discarded, whatever peers
\* send and however ledgers close while items and envelopes are handed on
\* (PendingEnvelopes::recvSCPEnvelope, eraseBelow).
THEOREM DeliveredOnceHolds == Spec => []DeliveredOnce
<1>1. PendingInv => DeliveredOnce
  <2> SUFFICES ASSUME PendingInv PROVE DeliveredOnce
    BY Zenon
  <2>1. Apart(pending, ledger, delivered)
    BY Zenon DEF PendingInv, Always
  <2>2. pending.ready \cap delivered = {} /\ pending.discarded \cap pending.fetching = {}
    BY <2>1, Zenon DEF Apart
  <2>3. pending.discarded \cap (pending.ready \cup delivered) = {}
    BY <2>1, Zenon DEF Apart, Sane
  <2>4. QED
    BY <2>2, <2>3, Zenon DEF DeliveredOnce
<1>2. QED
  BY <1>1, PendingInvariance, PTL

\* When peers follow the protocol the fetchers work for what the herder wants: whatever
\* an envelope lacks it waits for, none stays behind once it lacks nothing, and what no
\* longer is wanted is on its way out (ItemFetcher, stopFetchingBelow).
THEOREM FetchersMatchHolds == ASSUME Honest PROVE Spec => []FetchersMatch
<1>1. Init => PendingInv /\ FetchInv
  BY PendingInit, Zenon
<1>2. PendingInv /\ FetchInv /\ [Next]_vars => PendingInv' /\ FetchInv'
  BY PendingStep, Zenon
<1>3. PendingInv /\ FetchInv => FetchersMatch
  <2> SUFFICES ASSUME PendingInv, FetchInv PROVE FetchersMatch
    BY Zenon
  <2>1. TypeOK
    BY Zenon DEF PendingInv, OthersTyped, Always, IsPending, IsTrackers, TypeOK
  <2>2. ASSUME NEW e \in pending.fetching, NEW i \in needs[e]
        PROVE  \/ known(pending, i)
               \/ i \in DOMAIN pending.trackers /\ e \in pending.trackers[i].waiting
    <3>1. Cached(pending.cache, i, e) \/ e \in fetchingFor(pending.trackers, i)
      BY Zenon DEF FetchInv, Complete
    <3>2. QED
      BY <3>1, Zenon DEF Cached, known, fetchingFor
  <2>3. ASSUME NEW e \in pending.fetching, idle, admissible(e)
        PROVE  ~ isFullyFetched(pending, e)
    <3>1. \A i : ~ Receiving(calls, i)
      BY <2>3, IdleReceives, Zenon
    <3>2. AdmissibleAt(ledger, e)
      BY <2>3, Zenon DEF admissible, AdmissibleAt
    <3>3. QED
      BY <3>1, <3>2, Zenon DEF FetchInv, HandedBack
  <2>4. \A i \in DOMAIN pending.trackers : \A e \in pending.trackers[i].waiting :
           \/ e \in pending.fetching
           \/ \E task \in posted : /\ task.kind = "stop"
                                   /\ i \in task.items
                                   /\ slotIndex[e] < task.below
    BY Zenon DEF PendingInv, Always, Leftover, Doomed
  <2>5. QED
    BY <2>1, <2>2, <2>3, <2>4, Zenon DEF FetchersMatch
<1>4. QED
  BY <1>1, <1>2, <1>3, PTL DEF Spec
=============================================================================
