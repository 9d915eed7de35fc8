-------------------------- MODULE NominationProofs --------------------------
(***************************************************************************)
(* The safety of the nomination protocol, for every set of nodes, every        *)
(* quorum system that meets the assumptions of FBAS, every set of values and   *)
(* any behaviour of the nodes that are not intact.                             *)
(***************************************************************************)
EXTENDS NominationProtocol, FiniteSetTheorems, WellFoundedInduction, TLAPS

-----------------------------------------------------------------------------
(***************************************************************************)
(* The inductive invariant.  I is the set of values introduced so far.         *)
(***************************************************************************)
Fields ==
    {"started", "round", "leaders", "votes", "accepted", "candidates", "latest", "last",
     "composite", "value", "stack", "calling", "threw"}

IsObject(s) == DOMAIN s = Fields /\ DOMAIN s.latest = Node

\* Statements an intact node may make.
Statements(I) ==
    {st \in [votes : SUBSET I, accepted : SUBSET I] : st.accepted \subseteq st.votes}

Frames(I) == [st : Statements(I), newCandidates : BOOLEAN]

\* All the node votes for, has said, is about to say, or has heard from intact nodes
\* was introduced.
Introduced(s, I) ==
    /\ s.votes \subseteq I
    /\ \A m \in Intact : s.latest[m] \in Statements(I)
    /\ s.last \in Statements(I)
    /\ s.stack \in Seq(Frames(I))

Nested(s) == s.candidates \subseteq s.accepted /\ s.accepted \subseteq s.votes

\* The node has processed all it says, but for the statement it is about to process,
\* which is newer.
Own(n, s) ==
    /\ s.calling \in BOOLEAN
    /\ s.calling =>
          /\ s.stack # << >>
          /\ Head(s.stack).st = Statement(s)
          /\ isNewerStatement(s.latest[n], Statement(s))
    /\ ~ s.calling => s.latest[n] = Statement(s)

\* The composite is current, or one of the calls under way will make it so.
Composed(s) ==
    \/ s.candidates = {}
    \/ s.composite = combineCandidates[s.candidates]
    \/ \E i \in DOMAIN s.stack : s.stack[i].newCandidates

ObjectInv(n, s, I) ==
    /\ IsObject(s)
    /\ Introduced(s, I)
    /\ Nested(s)
    /\ Own(n, s)
    /\ Composed(s)
    /\ s.threw = FALSE

\* An object s that may follow r: it keeps the invariant, with what the node now votes
\* for of its own accord introduced, and what it emitted is not taken back.
Follows(n, r, s, I) ==
    /\ ObjectInv(n, s, I \cup (s.votes \ (r.votes \cup s.accepted)))
    /\ s.last # r.last => isNewerStatement(r.last, s.last)

\* The inductive invariant.
NInv ==
    /\ DOMAIN nom = Intact
    /\ DOMAIN sent = Intact
    /\ \A n \in Intact : ObjectInv(n, nom[n], introduced)
    /\ \A n \in Intact : sent[n] \subseteq Statements(introduced)

-----------------------------------------------------------------------------
\* What an intact node may say it may still say when more values are introduced.
LEMMA StatementsMonotone ==
    ASSUME NEW I, NEW J, I \subseteq J
    PROVE  /\ Statements(I) \subseteq Statements(J)
           /\ Seq(Frames(I)) \subseteq Seq(Frames(J))
<1>1. Statements(I) \subseteq Statements(J)
  BY Zenon DEF Statements
<1>2. Frames(I) \subseteq Frames(J)
  BY <1>1, Zenon DEF Frames
<1>3. QED
  BY <1>1, <1>2

\* The invariant of an object is kept when more values are introduced.
LEMMA IntroducedMonotone ==
    ASSUME NEW s, NEW I, NEW J, I \subseteq J, Introduced(s, I)
    PROVE  Introduced(s, J)
BY StatementsMonotone, Zenon DEF Introduced

\* A set that satisfies the quorum set of an intact node has an intact member.
LEMMA SliceIntact ==
    ASSUME NEW n \in Intact, NEW U \in Slices[n]
    PROVE  U \cap Intact # {}
<1>1. U \in SUBSET Node
  BY SlicesAssumption, Zenon
<1>2. SUFFICES ASSUME U \cap Intact = {} PROVE FALSE
  BY Zenon
<1>3. U \in QuorumFor(n)
  BY <1>1, <1>2, Zenon DEF QuorumFor, Quorum
<1>4. QED
  BY <1>3, <1>2, QuorumIntersection

\* A set that blocks an intact node has an intact member.
LEMMA BlockingIntact ==
    ASSUME NEW n \in Intact, NEW B \in SUBSET Node, isVBlocking(n, B)
    PROVE  B \cap Intact # {}
<1>1. SUFFICES ASSUME B \cap Intact = {} PROVE FALSE
  BY Zenon
<1>2. isVBlocking(n, Node \ Intact)
  BY <1>1, Zenon DEF isVBlocking
<1>3. QED
  BY <1>2, IntactNotBlocked, Zenon

\* federatedAccept only lets through what some intact node said.
LEMMA AcceptIntroduced ==
    ASSUME NEW n \in Intact, NEW s, NEW I, NEW x,
           \A m \in Intact : s.latest[m] \in Statements(I),
           federatedAccept(n, s, x)
    PROVE  x \in I
<1>1. \A m \in Intact : s.latest[m].votes \subseteq I /\ s.latest[m].accepted \subseteq I
  BY Zenon DEF Statements
<1>2. CASE isVBlocking(n, AcceptedBy(s, x))
  <2>1. PICK m \in Intact : m \in AcceptedBy(s, x)
    BY <1>2, BlockingIntact, Zenon DEF AcceptedBy
  <2>2. QED
    BY <2>1, <1>1, Zenon DEF AcceptedBy
<1>3. CASE isQuorum(n, Voted(s, x) \cup AcceptedBy(s, x))
  <2>1. PICK m \in Intact : m \in Voted(s, x) \cup AcceptedBy(s, x)
    BY <1>3, SliceIntact, Zenon DEF isQuorum
  <2>2. QED
    BY <2>1, <1>1, Zenon DEF AcceptedBy, Voted
<1>4. QED
  BY <1>2, <1>3, Zenon DEF federatedAccept

-----------------------------------------------------------------------------
(***************************************************************************)
(* What the operations do to an object.                                       *)
(***************************************************************************)

\* promote only accepts what was introduced, and takes nothing back.
LEMMA PromoteGrows ==
    ASSUME NEW n \in Intact, NEW s, NEW I, NEW m, NEW st,
           IsObject(s), Nested(s), s.accepted \subseteq I,
           \A k \in Intact : s.latest[k] \in Statements(I)
    PROVE  LET u == promote(n, s, m, st)
           IN  /\ IsObject(u) /\ Nested(u)
               /\ u.accepted \subseteq I
               /\ s.votes \subseteq u.votes /\ s.accepted \subseteq u.accepted
               /\ s.candidates \subseteq u.candidates
               /\ \A f \in Fields \ {"votes", "accepted", "candidates"} : u[f] = s[f]
<1> DEFINE ready == {x \in st.votes \ s.accepted : federatedAccept(n, s, x)}
           t == accept(n, s, ready)
           u == [t EXCEPT !.candidates = @ \cup {x \in t.accepted : federatedRatify(n, t, x)}]
           newVote == IF u.candidates = {} /\ m \in u.leaders
                        THEN getNewValueFromNomination(n, u.round, u.votes, st) ELSE {}
           v == [u EXCEPT !.votes = @ \cup newVote]
<1>1. ready \subseteq I
  BY AcceptIntroduced, Zenon
<1>2. \A x \in ready \cap fullyValid[n] : x \in {valueToNominate(n, y) : y \in ready} \ {NoValue}
  BY NominationAssumption, Zenon DEF valueToNominate, NoValue
<1> HIDE DEF ready
<1>3. /\ DOMAIN t = Fields /\ \A f \in Fields \ {"votes", "accepted"} : t[f] = s[f]
      /\ t.accepted = s.accepted \cup (ready \cap fullyValid[n])
      /\ t.votes = s.votes \cup ({valueToNominate(n, x) : x \in ready} \ {NoValue})
  BY Zenon DEF accept, IsObject, Fields
<1>4. t.accepted \subseteq t.votes
  BY <1>2, <1>3, Zenon DEF Nested
<1> HIDE DEF t
<1>5. /\ DOMAIN u = Fields /\ \A f \in Fields \ {"candidates"} : u[f] = t[f]
      /\ u.candidates = t.candidates \cup {x \in t.accepted : federatedRatify(n, t, x)}
  BY <1>3, Zenon DEF Fields
<1> HIDE DEF u
<1>6. /\ DOMAIN v = Fields /\ \A f \in Fields \ {"votes"} : v[f] = u[f]
      /\ v.votes = u.votes \cup newVote
  BY <1>5, Zenon DEF Fields
<1> HIDE DEF newVote, v
<1>7. \A f \in Fields \ {"votes", "accepted", "candidates"} : v[f] = s[f]
  BY <1>3, <1>5, <1>6, Zenon
<1>8. /\ v.candidates = s.candidates \cup {x \in t.accepted : federatedRatify(n, t, x)}
      /\ v.accepted = t.accepted
      /\ t.votes \subseteq v.votes
  BY <1>3, <1>5, <1>6, Zenon DEF Fields
<1>9. IsObject(v)
  BY <1>6, <1>7, Zenon DEF IsObject, Fields
<1>10. /\ Nested(v) /\ v.accepted \subseteq I
       /\ s.votes \subseteq v.votes /\ s.accepted \subseteq v.accepted
       /\ s.candidates \subseteq v.candidates
  BY <1>1, <1>3, <1>4, <1>8, Zenon DEF Nested
<1>11. promote(n, s, m, st) = v
  BY Zenon DEF promote, v, newVote, u, t, ready
<1>12. QED
  BY <1>7, <1>9, <1>10, <1>11, Zenon

\* A node that emits a statement newer than the one it processed last keeps the
\* invariant; the call notes whether the composite has to be made again.
LEMMA EmitInv ==
    ASSUME NEW n \in Intact, NEW u, NEW J, NEW c \in BOOLEAN,
           IsObject(u), Nested(u), Introduced(u, J),
           isNewerStatement(u.latest[n], Statement(u)),
           c \/ Composed(u), u.threw = FALSE
    PROVE  LET v == emitNomination(u, c)
           IN  ObjectInv(n, v, J) /\ v.last = u.last /\ Statement(v) = Statement(u)
<1> DEFINE frame == [st |-> Statement(u), newCandidates |-> c]
           v == emitNomination(u, c)
<1>1. Statement(u) \in Statements(J)
  BY Zenon DEF Statement, Statements, Nested, Introduced
<1>2. frame \in Frames(J)
  BY <1>1, Zenon DEF Frames
<1>3. frame.st = Statement(u) /\ frame.newCandidates = c
  BY Zenon
<1> HIDE DEF frame
<1>4. /\ DOMAIN v = Fields /\ \A f \in Fields \ {"stack", "calling"} : v[f] = u[f]
      /\ v.stack = <<frame>> \o u.stack
      /\ v.calling = TRUE
  BY Zenon DEF emitNomination, IsObject, Fields, frame
<1> HIDE DEF v
<1>5. /\ v.votes = u.votes /\ v.accepted = u.accepted /\ v.candidates = u.candidates
      /\ v.latest = u.latest /\ v.last = u.last /\ v.composite = u.composite
      /\ v.threw = u.threw
  BY <1>4, Zenon DEF Fields
<1>6. Statement(v) = Statement(u)
  BY <1>5, Zenon DEF Statement
<1>7. u.stack \in Seq(Frames(J))
  BY Zenon DEF Introduced
<1>8. /\ v.stack \in Seq(Frames(J)) /\ v.stack # << >>
      /\ Head(v.stack) = frame
      /\ 1 \in DOMAIN v.stack /\ v.stack[1] = frame
      /\ \A i \in DOMAIN u.stack : i + 1 \in DOMAIN v.stack /\ v.stack[i + 1] = u.stack[i]
  BY <1>2, <1>4, <1>7
<1>9. Introduced(v, J)
  BY <1>5, <1>8, Zenon DEF Introduced
<1>10. Own(n, v)
  BY <1>3, <1>4, <1>5, <1>6, <1>8, Zenon DEF Own
<1>11. Composed(v)
  BY <1>3, <1>5, <1>8, Zenon DEF Composed
<1>12. IsObject(v) /\ Nested(v)
  BY <1>4, <1>5, Zenon DEF IsObject, Nested
<1>13. QED
  BY <1>5, <1>6, <1>9, <1>10, <1>11, <1>12, Zenon DEF ObjectInv, v

\* The composite is made again from all the candidates.
LEMMA CombineInv ==
    ASSUME NEW n \in Intact, NEW u, NEW J,
           IsObject(u), Nested(u), Introduced(u, J), Own(n, u), u.threw = FALSE
    PROVE  LET v == combine(u)
           IN  ObjectInv(n, v, J) /\ v.last = u.last /\ Statement(v) = Statement(u)
<1> DEFINE v == combine(u)
<1>1. /\ DOMAIN v = Fields /\ \A f \in Fields \ {"composite"} : v[f] = u[f]
      /\ v.composite = combineCandidates[u.candidates]
  BY Zenon DEF combine, IsObject, Fields
<1> HIDE DEF v
<1>2. /\ v.votes = u.votes /\ v.accepted = u.accepted /\ v.candidates = u.candidates
      /\ v.latest = u.latest /\ v.last = u.last /\ v.stack = u.stack
      /\ v.calling = u.calling /\ v.threw = u.threw
  BY <1>1, Zenon DEF Fields
<1>3. Statement(v) = Statement(u)
  BY <1>2, Zenon DEF Statement
<1>4. IsObject(v) /\ Nested(v) /\ Introduced(v, J) /\ Own(n, v) /\ Composed(v)
  BY <1>1, <1>2, <1>3, Zenon DEF IsObject, Nested, Introduced, Own, Composed
<1>5. QED
  BY <1>2, <1>3, <1>4, Zenon DEF ObjectInv, v

\* processEnvelope keeps the invariant, with the values it votes for of its own accord
\* added to those introduced.
LEMMA ProcessInv ==
    ASSUME NEW n \in Intact, NEW s, NEW I, NEW m \in Node, NEW st,
           IsObject(s), Nested(s), Introduced(s, I), Composed(s),
           s.calling = FALSE, s.threw = FALSE,
           m \in Intact => st \in Statements(I),
           m = n => st = Statement(s),
           m # n => s.latest[n] = Statement(s)
    PROVE  Follows(n, s, processEnvelope(n, s, m, st), I)
<1> SUFFICES LET v == processEnvelope(n, s, m, st)
             IN  /\ ObjectInv(n, v, I \cup (v.votes \ (s.votes \cup v.accepted)))
                 /\ v.last = s.last
  BY Zenon DEF Follows
<1> DEFINE t == recordEnvelope(s, m, st)
           u == promote(n, t, m, st)
           J == I \cup (u.votes \ (s.votes \cup u.accepted))
           newCandidates == u.candidates # s.candidates
           v == processEnvelope(n, s, m, st)
<1>1. /\ DOMAIN t = Fields /\ \A f \in Fields \ {"latest"} : t[f] = s[f]
      /\ DOMAIN t.latest = Node
      /\ t.latest[m] = st
      /\ \A k \in Node \ {m} : t.latest[k] = s.latest[k]
  BY Zenon DEF recordEnvelope, IsObject, Fields
<1> HIDE DEF t
<1>2. /\ t.votes = s.votes /\ t.accepted = s.accepted /\ t.candidates = s.candidates
      /\ t.last = s.last /\ t.stack = s.stack /\ t.composite = s.composite
      /\ t.calling = FALSE /\ t.threw = FALSE /\ Statement(t) = Statement(s)
  BY <1>1, Zenon DEF Fields, Statement
<1>3. \A k \in Intact : t.latest[k] \in Statements(I)
  BY <1>1, SlicesAssumption, Zenon DEF Introduced
<1>4. IsObject(t) /\ Nested(t) /\ Composed(t) /\ Introduced(t, I)
  BY <1>1, <1>2, <1>3, Zenon DEF IsObject, Nested, Composed, Introduced
<1>5. t.latest[n] = Statement(s)
  BY <1>1, SlicesAssumption, Zenon
<1>6. t.accepted \subseteq I
  BY <1>2, Zenon DEF Nested, Introduced
<1>7. /\ IsObject(u) /\ Nested(u)
      /\ u.accepted \subseteq I
      /\ s.votes \subseteq u.votes /\ s.accepted \subseteq u.accepted
      /\ s.candidates \subseteq u.candidates
      /\ \A f \in Fields \ {"votes", "accepted", "candidates"} : u[f] = t[f]
  BY <1>2, <1>3, <1>4, <1>6, PromoteGrows
<1> HIDE DEF u
<1>8. /\ u.latest = t.latest /\ u.last = s.last /\ u.stack = s.stack
      /\ u.composite = s.composite /\ u.calling = FALSE /\ u.threw = FALSE
  BY <1>2, <1>7, Zenon DEF Fields
<1>9. Introduced(u, J)
  <2>1. u.votes \subseteq J
    BY <1>7, Zenon DEF Introduced
  <2>2. Introduced(t, J)
    BY <1>4, IntroducedMonotone
  <2>3. QED
    BY <1>2, <1>8, <2>1, <2>2, Zenon DEF Introduced
<1>10. ~ newCandidates => Composed(u)
  BY <1>2, <1>4, <1>8, Zenon DEF Composed
<1>11. CASE ~ s.started
  <2>1. v = t
    BY <1>11, Zenon DEF processEnvelope, t
  <2>2. v.votes \ (s.votes \cup v.accepted) = {}
    BY <2>1, <1>2, Zenon
  <2>3. ObjectInv(n, t, I)
    BY <1>2, <1>4, <1>5, Zenon DEF ObjectInv, Own
  <2>4. QED
    BY <2>1, <2>2, <2>3, <1>2, Zenon
<1>12. CASE s.started /\ Statement(u) # Statement(s)
  <2>1. isNewerStatement(u.latest[n], Statement(u))
    BY <1>12, <1>5, <1>7, <1>8 DEF isNewerStatement, Statement
  <2>2. newCandidates \in BOOLEAN
    BY Zenon
  <2>3. newCandidates \/ Composed(u)
    BY <1>10, Zenon
  <2> HIDE DEF newCandidates
  <2>4. LET w == emitNomination(u, newCandidates)
        IN  ObjectInv(n, w, J) /\ w.last = u.last /\ Statement(w) = Statement(u)
    BY <1>7, <1>8, <1>9, <2>1, <2>2, <2>3, EmitInv, Zenon
  <2>5. v = emitNomination(u, newCandidates)
    BY <1>12, Zenon DEF processEnvelope, t, u, newCandidates
  <2>6. v.votes = u.votes /\ v.accepted = u.accepted
    BY <2>4, <2>5, Zenon DEF Statement
  <2>7. QED
    BY <1>8, <2>4, <2>5, <2>6, Zenon
<1>13. CASE s.started /\ Statement(u) = Statement(s)
  <2>1. Own(n, u)
    BY <1>5, <1>8, <1>13, Zenon DEF Own
  <2>2. CASE newCandidates
    <3>1. v = combine(u)
      BY <1>13, <2>2, Zenon DEF processEnvelope, t, u
    <3>2. LET w == combine(u)
          IN  ObjectInv(n, w, J) /\ w.last = u.last /\ Statement(w) = Statement(u)
      BY <1>7, <1>8, <1>9, <2>1, CombineInv, Zenon
    <3>3. v.votes = u.votes /\ v.accepted = u.accepted
      BY <3>1, <3>2, Zenon DEF Statement
    <3>4. QED
      BY <1>8, <3>1, <3>2, <3>3, Zenon
  <2>3. CASE ~ newCandidates
    <3>1. v = u
      BY <1>13, <2>3, Zenon DEF processEnvelope, t, u
    <3>2. ObjectInv(n, u, J)
      BY <1>7, <1>8, <1>9, <1>10, <2>1, <2>3, Zenon DEF ObjectInv
    <3>3. QED
      BY <1>8, <3>1, <3>2, Zenon
  <2>4. QED
    BY <2>2, <2>3, Zenon
<1>14. QED
  BY <1>11, <1>12, <1>13, Zenon

\* A round of nominate keeps the invariant in the same way.
LEMMA NominateInv ==
    ASSUME NEW n \in Intact, NEW s, NEW I, NEW x, ObjectInv(n, s, I), s.calling = FALSE
    PROVE  Follows(n, s, nominate(n, s, x), I)
<1> SUFFICES LET w == nominate(n, s, x)
             IN  /\ ObjectInv(n, w, I \cup (w.votes \ (s.votes \cup w.accepted)))
                 /\ w.last = s.last
  BY Zenon DEF Follows
<1> DEFINE r == [s EXCEPT !.started = TRUE, !.value = x, !.round = roundAfter(@, 1)]
           t == updateRoundLeaders(n, r)
           u == [t EXCEPT !.votes = @ \cup (IF n \in t.leaders THEN {x} ELSE {})]
           v == [u EXCEPT !.votes = @ \cup leaderVotes(n, u)]
           w == nominate(n, s, x)
           J == I \cup (v.votes \ (s.votes \cup v.accepted))
<1>1. DOMAIN r = Fields /\ \A f \in Fields \ {"started", "value", "round"} : r[f] = s[f]
  BY Zenon DEF ObjectInv, IsObject, Fields
<1> HIDE DEF r
<1>2. DOMAIN t = Fields /\ \A f \in Fields \ {"round", "leaders"} : t[f] = r[f]
  BY <1>1, Zenon DEF updateRoundLeaders, Fields
<1> HIDE DEF t
<1>3. /\ DOMAIN u = Fields /\ \A f \in Fields \ {"votes"} : u[f] = t[f]
      /\ t.votes \subseteq u.votes
  BY <1>2, Zenon DEF Fields
<1> HIDE DEF u
<1>4. /\ DOMAIN v = Fields /\ \A f \in Fields \ {"votes"} : v[f] = u[f]
      /\ u.votes \subseteq v.votes
  BY <1>3, Zenon DEF Fields
<1> HIDE DEF v
<1>5. /\ v.accepted = s.accepted /\ v.candidates = s.candidates /\ v.latest = s.latest
      /\ v.last = s.last /\ v.composite = s.composite /\ v.stack = s.stack
      /\ v.calling = FALSE /\ v.threw = FALSE /\ s.votes \subseteq v.votes
  BY <1>1, <1>2, <1>3, <1>4 DEF Fields, ObjectInv
<1>6. IsObject(v) /\ Nested(v) /\ Composed(v)
  BY <1>4, <1>5, Zenon DEF ObjectInv, IsObject, Nested, Composed
<1>7. Introduced(v, J)
  <2>1. v.votes \subseteq J
    BY <1>5, Zenon DEF ObjectInv, Nested, Introduced
  <2>2. Introduced(s, J)
    BY IntroducedMonotone DEF ObjectInv
  <2>3. QED
    BY <1>5, <2>1, <2>2, Zenon DEF Introduced
<1>8. v.latest[n] = Statement(s)
  BY <1>5, Zenon DEF ObjectInv, Own
<1>9. w = IF v.votes # s.votes THEN emitNomination(v, FALSE) ELSE v
  BY Zenon DEF nominate, v, u, t, r
<1>10. CASE v.votes # s.votes
  <2>1. isNewerStatement(v.latest[n], Statement(v))
    BY <1>5, <1>8, <1>10 DEF isNewerStatement, Statement
  <2>2. LET z == emitNomination(v, FALSE)
        IN  ObjectInv(n, z, J) /\ z.last = v.last /\ Statement(z) = Statement(v)
    BY <1>5, <1>6, <1>7, <2>1, EmitInv, Zenon
  <2>3. w.votes = v.votes /\ w.accepted = v.accepted
    BY <1>9, <1>10, <2>2, Zenon DEF Statement
  <2>4. QED
    BY <1>5, <1>9, <1>10, <2>2, <2>3, Zenon
<1>11. CASE v.votes = s.votes
  <2>1. Own(n, v)
    BY <1>5, <1>8, <1>11, Zenon DEF Own, Statement
  <2>2. ObjectInv(n, v, J)
    BY <1>5, <1>6, <1>7, <2>1, Zenon DEF ObjectInv
  <2>3. QED
    BY <1>5, <1>9, <1>11, <2>2, Zenon
<1>12. QED
  BY <1>10, <1>11, Zenon

-----------------------------------------------------------------------------
(***************************************************************************)
(* The invariant.                                                             *)
(***************************************************************************)

\* The invariant holds initially.
LEMMA InitInv == Init => NInv
<1> SUFFICES ASSUME Init PROVE NInv
  BY Zenon
<1>1. \A n \in Intact : nom[n] = NewObject /\ sent[n] = {}
  BY Zenon DEF Init
<1>2. NoNomination \in Statements({}) /\ Statement(NewObject) = NoNomination
  BY Zenon DEF NoNomination, Statements, Statement, NewObject
<1>3. \A n \in Intact : ObjectInv(n, NewObject, {})
  <2> SUFFICES ASSUME NEW n \in Intact PROVE ObjectInv(n, NewObject, {})
    BY Zenon
  <2>1. IsObject(NewObject)
    BY Zenon DEF IsObject, NewObject, Fields
  <2>2. Introduced(NewObject, {})
    BY <1>2, SlicesAssumption DEF Introduced, NewObject
  <2>3. Own(n, NewObject)
    <3>1. NewObject.calling = FALSE /\ NewObject.latest[n] = NoNomination
      BY SlicesAssumption, Zenon DEF NewObject
    <3>2. QED
      BY <3>1, <1>2, Zenon DEF Own
  <2>4. Nested(NewObject) /\ Composed(NewObject) /\ NewObject.threw = FALSE
    BY Zenon DEF Nested, Composed, NewObject
  <2>5. QED
    BY <2>1, <2>2, <2>3, <2>4, Zenon DEF ObjectInv
<1>4. QED
  BY <1>1, <1>3, Zenon DEF Init, NInv

\* A step that gives one node an object which may follow the one it has keeps the
\* invariant.
LEMMA UpdateInv ==
    ASSUME NInv, NEW n \in Intact, NEW s, Update(n, s),
           Follows(n, nom[n], s, introduced)
    PROVE  NInv'
<1> ObjectInv(n, s, introduced \cup (s.votes \ (nom[n].votes \cup s.accepted)))
  BY Zenon DEF Follows
<1>1. /\ nom' = [nom EXCEPT ![n] = s]
      /\ introduced' = introduced \cup (s.votes \ (nom[n].votes \cup s.accepted))
  BY Zenon DEF Update
<1>2. introduced \subseteq introduced'
  BY <1>1, Zenon
<1>3. \A m \in Intact : ObjectInv(m, nom[m], introduced')
  BY <1>2, IntroducedMonotone, Zenon DEF NInv, ObjectInv
<1>4. \A m \in Intact : ObjectInv(m, nom'[m], introduced')
  BY <1>1, <1>3, Zenon DEF NInv
<1>5. \A m \in Intact : sent'[m] \subseteq sent[m] \cup {s.last}
  BY Zenon DEF Update, NInv
<1>6. \A m \in Intact : sent[m] \cup {s.last} \subseteq Statements(introduced')
  BY <1>1, <1>2, StatementsMonotone DEF NInv, ObjectInv, Introduced
<1>7. DOMAIN nom' = Intact /\ DOMAIN sent' = Intact
  BY <1>1, Zenon DEF Update, NInv
<1>8. QED
  BY <1>4, <1>5, <1>6, <1>7, Zenon DEF NInv

\* Every step gives one node an object that may follow the one it has.
LEMMA StepFollows ==
    ASSUME NInv, Next
    PROVE  \E n \in Intact : \E w : Update(n, w) /\ Follows(n, nom[n], w, introduced)
<1>1. ASSUME NEW n \in Intact
      PROVE  ObjectInv(n, nom[n], introduced) /\ (idle => nom[n].calling = FALSE)
  BY Zenon DEF NInv, ObjectInv, Own, idle
<1>2. ASSUME NEW n \in Intact, NEW x, Nominate(n, x)
      PROVE  \E w : Update(n, w) /\ Follows(n, nom[n], w, introduced)
  <2>1. Follows(n, nom[n], nominate(n, nom[n], x), introduced)
    BY <1>1, <1>2, NominateInv, Zenon DEF Nominate
  <2>2. QED
    BY <1>2, <2>1, Zenon DEF Nominate
<1>3. ASSUME NEW n \in Intact, NominationTimerExpired(n)
      PROVE  \E w : Update(n, w) /\ Follows(n, nom[n], w, introduced)
  <2>1. Follows(n, nom[n], nominate(n, nom[n], nom[n].value), introduced)
    BY <1>1, <1>3, NominateInv, Zenon DEF NominationTimerExpired
  <2>2. QED
    BY <1>3, <2>1, Zenon DEF NominationTimerExpired
<1>4. ASSUME NEW n \in Intact, NEW m \in Node \ {n}, NEW st,
             m \in Intact => st \in sent[m], ReceiveNomination(n, m, st)
      PROVE  \E w : Update(n, w) /\ Follows(n, nom[n], w, introduced)
  <2>1. m \in Intact => st \in Statements(introduced)
    BY <1>4, Zenon DEF NInv
  <2>2. Follows(n, nom[n], processEnvelope(n, nom[n], m, st), introduced)
    <3>1. ObjectInv(n, nom[n], introduced) /\ nom[n].calling = FALSE
      BY <1>1, <1>4, Zenon DEF ReceiveNomination
    <3>2. /\ IsObject(nom[n]) /\ Nested(nom[n]) /\ Introduced(nom[n], introduced)
          /\ Composed(nom[n]) /\ nom[n].threw = FALSE
          /\ nom[n].latest[n] = Statement(nom[n])
      BY <3>1, Zenon DEF ObjectInv, Own
    <3>3. m \in Node /\ m # n
      BY Zenon
    <3>4. QED
      BY <2>1, <3>1, <3>2, <3>3, ProcessInv, Zenon
  <2>3. QED
    BY <1>4, <2>2, Zenon DEF ReceiveNomination
<1>5. ASSUME NEW n \in Intact, ProcessOwn(n)
      PROVE  \E w : Update(n, w) /\ Follows(n, nom[n], w, introduced)
  <2> DEFINE s == [nom[n] EXCEPT !.calling = FALSE]
             st == Head(s.stack).st
  <2>1. ObjectInv(n, nom[n], introduced) /\ nom[n].calling
    BY <1>1, <1>5, Zenon DEF ProcessOwn
  <2>2. /\ DOMAIN s = Fields /\ \A f \in Fields \ {"calling"} : s[f] = nom[n][f]
        /\ s.calling = FALSE
    BY <2>1, Zenon DEF ObjectInv, IsObject, Fields
  <2>3. Update(n, IF isNewerStatement(s.latest[n], st) /\ isSane(st)
                    THEN processEnvelope(n, s, n, st)
                    ELSE [s EXCEPT !.threw = TRUE])
    BY <1>5, Zenon DEF ProcessOwn
  <2> HIDE DEF s
  <2>4. /\ s.votes = nom[n].votes /\ s.accepted = nom[n].accepted
        /\ s.candidates = nom[n].candidates /\ s.latest = nom[n].latest
        /\ s.last = nom[n].last /\ s.composite = nom[n].composite
        /\ s.stack = nom[n].stack /\ s.threw = FALSE
    BY <2>1, <2>2, Zenon DEF Fields, ObjectInv
  <2>5. /\ IsObject(s) /\ Nested(s) /\ Introduced(s, introduced) /\ Composed(s)
        /\ Statement(s) = Statement(nom[n])
    BY <2>1, <2>2, <2>4, Zenon DEF ObjectInv, IsObject, Nested, Introduced, Composed, Statement
  <2>6. st = Statement(s) /\ isNewerStatement(s.latest[n], st)
    BY <2>1, <2>4, <2>5, Zenon DEF ObjectInv, Own
  <2>7. st \in Statements(introduced)
    BY <2>5, <2>6 DEF Statement, Statements, Nested, Introduced
  <2>8. isSane(st)
    <3>1. s.latest[n] \in Statements(introduced)
      BY <2>5, Zenon DEF Introduced
    <3> HIDE DEF st
    <3>2. QED
      BY <2>6, <2>7, <3>1, SMTT(30) DEF isSane, isNewerStatement, Statements
  <2> HIDE DEF st
  <2>9. Follows(n, s, processEnvelope(n, s, n, st), introduced)
    BY <2>2, <2>4, <2>5, <2>6, <2>7, ProcessInv, SlicesAssumption, Zenon
  <2>10. Update(n, processEnvelope(n, s, n, st))
    BY <2>3, <2>6, <2>8, Zenon
  <2>11. QED
    BY <2>4, <2>9, <2>10, Zenon DEF Follows
<1>6. ASSUME NEW n \in Intact, Return(n)
      PROVE  \E w : Update(n, w) /\ Follows(n, nom[n], w, introduced)
  <2> DEFINE s == nom[n]
             frame == Head(s.stack)
             e == emitted(s, frame.st)
             t == [e EXCEPT !.stack = Tail(@)]
             r == IF frame.newCandidates THEN combine(t) ELSE t
  <2>1. /\ s.stack # << >> /\ ~ s.calling /\ Update(n, r)
    BY <1>6, Zenon DEF Return
  <2>2. ObjectInv(n, s, introduced)
    BY <1>1, Zenon
  <2> HIDE DEF s
  <2>3. /\ s.stack \in Seq(Frames(introduced)) /\ frame \in Frames(introduced)
        /\ frame = s.stack[1]
        /\ Tail(s.stack) \in Seq(Frames(introduced))
        /\ \A i \in DOMAIN s.stack \ {1} :
              i - 1 \in DOMAIN Tail(s.stack) /\ Tail(s.stack)[i - 1] = s.stack[i]
    BY <2>1, <2>2 DEF ObjectInv, Introduced
  <2> HIDE DEF frame
  <2>4. /\ DOMAIN e = Fields /\ \A f \in Fields \ {"last"} : e[f] = s[f]
        /\ e.last \in {s.last, frame.st}
        /\ e.last # s.last => isNewerStatement(s.last, e.last)
    BY <2>2, Zenon DEF emitted, ObjectInv, IsObject, Fields
  <2> HIDE DEF e
  <2>5. /\ DOMAIN t = Fields /\ \A f \in Fields \ {"stack"} : t[f] = e[f]
        /\ t.stack = Tail(s.stack)
    BY <2>4, Zenon DEF Fields
  <2> HIDE DEF t
  <2>6. /\ t.votes = s.votes /\ t.accepted = s.accepted /\ t.candidates = s.candidates
        /\ t.latest = s.latest /\ t.composite = s.composite /\ t.calling = s.calling
        /\ t.threw = s.threw /\ t.last \in {s.last, frame.st}
        /\ t.last = e.last
    BY <2>4, <2>5, Zenon DEF Fields
  <2>7. frame.st \in Statements(introduced)
    BY <2>3, Zenon DEF Frames
  <2>8. /\ IsObject(t) /\ Nested(t) /\ Own(n, t) /\ Introduced(t, introduced)
        /\ t.threw = FALSE
    BY <2>1, <2>2, <2>3, <2>5, <2>6, <2>7, Zenon
    DEF ObjectInv, IsObject, Nested, Own, Introduced, Statement
  <2>9. ~ frame.newCandidates => Composed(t)
    <3> SUFFICES ASSUME ~ frame.newCandidates PROVE Composed(t)
      BY Zenon
    <3>1. CASE \E i \in DOMAIN s.stack : s.stack[i].newCandidates
      <4>1. PICK i \in DOMAIN s.stack : s.stack[i].newCandidates
        BY <3>1, Zenon
      <4>2. i # 1
        BY <2>3, <4>1, Zenon
      <4>3. i - 1 \in DOMAIN t.stack /\ t.stack[i - 1].newCandidates
        BY <2>3, <2>5, <4>1, <4>2, Zenon
      <4>4. QED
        BY <4>3, Zenon DEF Composed
    <3>2. CASE s.candidates = {} \/ s.composite = combineCandidates[s.candidates]
      BY <2>6, <3>2, Zenon DEF Composed
    <3>3. QED
      BY <2>2, <3>1, <3>2, Zenon DEF ObjectInv, Composed
  <2>10. ObjectInv(n, r, introduced) /\ r.votes = s.votes /\ r.last = e.last
    <3>1. CASE frame.newCandidates
      <4>1. LET v == combine(t)
            IN  ObjectInv(n, v, introduced) /\ v.last = t.last /\ Statement(v) = Statement(t)
        BY <2>8, CombineInv, Zenon
      <4>2. QED
        BY <3>1, <4>1, <2>6, Zenon DEF Statement
    <3>2. CASE ~ frame.newCandidates
      BY <3>2, <2>6, <2>8, <2>9, Zenon DEF ObjectInv
    <3>3. QED
      BY <3>1, <3>2, Zenon
  <2> HIDE DEF r
  <2>11. introduced \cup (r.votes \ (s.votes \cup r.accepted)) = introduced
    BY <2>10, Zenon
  <2>12. QED
    BY <2>1, <2>4, <2>10, <2>11, Zenon DEF s, Follows
<1>7. ASSUME NEW n \in Intact, stopNomination(n)
      PROVE  \E w : Update(n, w) /\ Follows(n, nom[n], w, introduced)
  <2> DEFINE s == [nom[n] EXCEPT !.started = FALSE]
  <2>1. ObjectInv(n, nom[n], introduced) /\ Update(n, s)
    BY <1>1, <1>7, Zenon DEF stopNomination
  <2>2. DOMAIN s = Fields /\ \A f \in Fields \ {"started"} : s[f] = nom[n][f]
    BY <2>1, Zenon DEF ObjectInv, IsObject, Fields
  <2> HIDE DEF s
  <2>3. /\ s.votes = nom[n].votes /\ s.accepted = nom[n].accepted
        /\ s.candidates = nom[n].candidates /\ s.latest = nom[n].latest
        /\ s.last = nom[n].last /\ s.composite = nom[n].composite
        /\ s.stack = nom[n].stack /\ s.calling = nom[n].calling
        /\ s.threw = nom[n].threw
    BY <2>2, Zenon DEF Fields
  <2>4. ObjectInv(n, s, introduced)
    BY <2>1, <2>2, <2>3, Zenon
    DEF ObjectInv, IsObject, Nested, Own, Introduced, Composed, Statement
  <2>5. introduced \cup (s.votes \ (nom[n].votes \cup s.accepted)) = introduced
    BY <2>3, Zenon
  <2>6. QED
    BY <2>1, <2>3, <2>4, <2>5, Zenon DEF Follows
<1>8. ASSUME NEW n \in Intact, Restart(n)
      PROVE  \E w : Update(n, w) /\ Follows(n, nom[n], w, introduced)
  <2> DEFINE st == nom[n].last
             s == setStateFromEnvelope(NewObject, n, st)
             J == introduced \cup (s.votes \ (nom[n].votes \cup s.accepted))
  <2>1. st \in Statements(introduced) /\ Update(n, s)
    BY <1>1, <1>8, Zenon DEF Restart, ObjectInv, Introduced
  <2>2. /\ DOMAIN s = Fields /\ DOMAIN s.latest = Node
        /\ s.votes = st.votes /\ s.accepted = st.accepted /\ s.last = st
        /\ s.latest[n] = st
        /\ \A m \in Node \ {n} : s.latest[m] = NoNomination
        /\ s.candidates = {} /\ s.stack = << >> /\ s.calling = FALSE /\ s.threw = FALSE
    <3> HIDE DEF st
    <3>1. n \in Node
      BY SlicesAssumption, Zenon
    <3>2. CASE st = NoNomination
      BY <3>1, <3>2, Zenon DEF setStateFromEnvelope, NewObject, NoNomination, Fields
    <3>3. CASE st # NoNomination
      BY <3>1, <3>3, Zenon DEF setStateFromEnvelope, recordEnvelope, NewObject, Fields
    <3>4. QED
      BY <3>2, <3>3, Zenon
  <2> HIDE DEF s, st
  <2>3. Statement(s) = st
    BY <2>1, <2>2, Zenon DEF Statement, Statements
  <2>4. NoNomination \in Statements(introduced)
    BY Zenon DEF NoNomination, Statements
  <2>5. Introduced(s, introduced)
    <3>1. s.votes \subseteq introduced
      BY <2>1, <2>2, Zenon DEF Statements
    <3>2. \A m \in Intact : s.latest[m] \in Statements(introduced)
      BY <2>1, <2>2, <2>4, SlicesAssumption, Zenon
    <3>3. QED
      BY <2>1, <2>2, <3>1, <3>2 DEF Introduced
  <2>6. Introduced(s, J)
    BY <2>5, IntroducedMonotone
  <2>7. Nested(s) /\ Own(n, s) /\ Composed(s) /\ IsObject(s)
    BY <2>1, <2>2, <2>3, Zenon DEF Nested, Own, Composed, IsObject, Statements
  <2>8. ObjectInv(n, s, J)
    BY <2>2, <2>6, <2>7, Zenon DEF ObjectInv
  <2>9. QED
    BY <2>1, <2>2, <2>8, Zenon DEF Follows, st
<1>9. QED
  BY <1>2, <1>3, <1>4, <1>5, <1>6, <1>7, <1>8, SlicesAssumption, Zenon DEF Next

\* Every step keeps the invariant.
LEMMA NextInv == NInv /\ [Next]_vars => NInv'
<1>1. ASSUME NInv, Next PROVE NInv'
  BY <1>1, StepFollows, UpdateInv, Zenon
<1>2. ASSUME NInv, UNCHANGED vars PROVE NInv'
  BY <1>2, Zenon DEF NInv, vars
<1>3. QED
  BY <1>1, <1>2, Zenon

-----------------------------------------------------------------------------
\* The inductive invariant holds in every reachable state, for every quorum
\* structure with intact nodes, every validation and every behaviour of the others.
THEOREM Invariance == Spec => []NInv
BY InitInv, NextInv, PTL DEF Spec

\* Nodes that are not intact cannot make an intact node accept a value that no
\* intact node voted for of its own accord (federatedAccept in processEnvelope).
THEOREM AcceptedWasIntroducedHolds == Spec => []AcceptedWasIntroduced
<1>1. NInv => AcceptedWasIntroduced
  BY Zenon DEF NInv, ObjectInv, Introduced, Nested, AcceptedWasIntroduced
<1>2. QED
  BY <1>1, Invariance, PTL

\* The candidates are accepted and what is accepted is voted for, in the state and in
\* all the statements emitted, and a node never refuses its own statement
\* (emitNomination's "moved to a bad state (nomination)").
THEOREM ConsistentHolds == Spec => []Consistent
<1>1. NInv => Consistent
  BY Zenon DEF NInv, ObjectInv, Nested, Statements, Consistent
<1>2. QED
  BY <1>1, Invariance, PTL

\* Between two handlers the composite is the combination of all the candidates,
\* however the calls of emitNomination and processEnvelope were nested.
THEOREM CompositeCurrentHolds == Spec => []CompositeCurrent
<1>1. NInv => CompositeCurrent
  BY DEF NInv, ObjectInv, Composed, CompositeCurrent
<1>2. QED
  BY <1>1, Invariance, PTL

\* What a node emits only grows, also when it restarts from its last statement.
THEOREM EmitsNewerHolds == Spec => EmitsNewer
<1>1. NInv /\ [Next]_vars
        => [\A n \in Intact : nom'[n].last # nom[n].last
                => isNewerStatement(nom[n].last, nom'[n].last)]_vars
  <2>1. ASSUME NInv, Next, NEW k \in Intact, nom'[k].last # nom[k].last
        PROVE  isNewerStatement(nom[k].last, nom'[k].last)
    <3>1. PICK n \in Intact : \E w : Update(n, w) /\ Follows(n, nom[n], w, introduced)
      BY <2>1, StepFollows, Zenon
    <3>2. PICK w : Update(n, w) /\ Follows(n, nom[n], w, introduced)
      BY <3>1, Zenon
    <3>3. n = k /\ nom'[k] = w
      BY <2>1, <3>2, Zenon DEF Update, NInv
    <3>4. QED
      BY <2>1, <3>2, <3>3, Zenon DEF Follows
  <2>2. QED
    BY <2>1, Zenon
<1>2. QED
  BY <1>1, Invariance, PTL DEF Spec, EmitsNewer

-----------------------------------------------------------------------------
(***************************************************************************)
(* Types.                                                                     *)
(***************************************************************************)

\* A call that left no candidates behind.
QuietFrame == [st : Nomination, newCandidates : {FALSE}]

\* The leaders are nodes of the quorum set; no call under way promises a composite
\* of no candidates.
Typed(n, s) ==
    /\ s \in Object
    /\ s.leaders \subseteq peers(n) \cup {n}
    /\ s.candidates = {} => s.stack \in Seq(QuietFrame)

TInv ==
    /\ nom \in [Intact -> Object]
    /\ sent \in [Intact -> SUBSET Nomination]
    /\ introduced \subseteq Value
    /\ \A n \in Intact : Typed(n, nom[n])

\* What the members of an object are.
LEMMA Members ==
    ASSUME NEW s \in Object
    PROVE  /\ DOMAIN s = Fields /\ s = [f \in Fields |-> s[f]]
           /\ s.started \in BOOLEAN /\ s.round \in 0 .. Period /\ s.leaders \subseteq Node
           /\ s.votes \subseteq Value /\ s.accepted \subseteq Value /\ s.candidates \subseteq Value
           /\ s.latest \in [Node -> Nomination] /\ s.last \in Nomination
           /\ s.composite \in Value \cup {NoValue} /\ s.value \in Value \cup {NoValue}
           /\ s.stack \in Seq(Frame) /\ s.calling \in BOOLEAN /\ s.threw \in BOOLEAN
BY Zenon DEF Object, Fields

\* And what makes one.
LEMMA MembersMake ==
    ASSUME NEW s, s = [f \in Fields |-> s[f]],
           s.started \in BOOLEAN, s.round \in 0 .. Period, s.leaders \subseteq Node,
           s.votes \subseteq Value, s.accepted \subseteq Value, s.candidates \subseteq Value,
           s.latest \in [Node -> Nomination], s.last \in Nomination,
           s.composite \in Value \cup {NoValue}, s.value \in Value \cup {NoValue},
           s.stack \in Seq(Frame), s.calling \in BOOLEAN, s.threw \in BOOLEAN
    PROVE  s \in Object
BY Zenon DEF Object, Fields

\* t differs from s at most in the members F.
Changes(s, t, F) == t = [f \in Fields |-> t[f]] /\ \A f \in Fields \ F : t[f] = s[f]

\* Values a node may vote for.
LEMMA NominatedValues ==
    ASSUME NEW n \in Intact
    PROVE  /\ \A x \in Value : valueToNominate(n, x) \in Value \cup {NoValue}
           /\ \A st \in Nomination : \A r, V : getNewValueFromNomination(n, r, V, st) \subseteq Value
<1>1. \A x \in Value : valueToNominate(n, x) \in Value \cup {NoValue}
  <2>0. extractValidValue \in [Intact -> [Value -> Value \cup {NoValue}]]
    BY NominationAssumption, Zenon
  <2>1. \A x \in Value : extractValidValue[n][x] \in Value \cup {NoValue}
    BY <2>0, SMT
  <2>2. QED
    BY <2>1, Zenon DEF valueToNominate
<1>2. ASSUME NEW st \in Nomination, NEW r, NEW V
      PROVE  getNewValueFromNomination(n, r, V, st) \subseteq Value
  <2>1. st.votes \subseteq Value /\ st.accepted \subseteq Value
    BY Zenon DEF Nomination
  <2>2. {valueToNominate(n, x) : x \in st.votes \cup st.accepted} \ (V \cup {NoValue}) \subseteq Value
    BY <1>1, <2>1, Zenon
  <2>3. QED
    BY <2>2, Zenon DEF getNewValueFromNomination
<1>3. QED
  BY <1>1, <1>2, Zenon

\* A set of numbers that is not empty has a least one.
LEMMA LeastNat ==
    ASSUME NEW S \in SUBSET Nat, S # {}
    PROVE  \E m \in S : \A n \in S : m <= n
<1>1. PICK d \in S : \A e \in S : ~ (<<e, d>> \in OpToRel(<, Nat))
  BY NatLessThanWellFounded, WFMin, Zenon
<1>2. \A e \in S : ~ (e < d)
  BY <1>1, Zenon DEF OpToRel
<1>3. QED
  BY <1>2, SMT

\* roundAfter leads to a round.
LEMMA Rounds ==
    ASSUME NEW r \in 0 .. Period, NEW k \in 0 .. Period
    PROVE  roundAfter(r, k) \in 1 .. Period
<1>1. Period \in Nat \ {0}
  BY NominationAssumption, Zenon
<1>2. (r + k - 1) % Period \in 0 .. Period - 1
  BY <1>1, SMT
<1>3. QED
  BY <1>1, <1>2, SMT DEF roundAfter

\* Every round is ahead.
LEMMA RoundsReached ==
    ASSUME NEW r \in 1 .. Period, NEW q \in 1 .. Period
    PROVE  \E k \in 0 .. Period - 1 : roundAfter(r, k) = q
<1>1. Period \in Nat \ {0}
  BY NominationAssumption, Zenon
<1>2. CASE r <= q
  <2>1. q - r \in 0 .. Period - 1 /\ r + (q - r) - 1 = q - 1 /\ q - 1 \in Nat /\ q - 1 < Period
    BY <1>1, <1>2, SMT
  <2>2. (q - 1) % Period = q - 1
    BY <1>1, <2>1, SMT
  <2>3. roundAfter(r, q - r) = q
    BY <2>1, <2>2, SMT DEF roundAfter
  <2>4. QED
    BY <2>1, <2>3, Zenon
<1>3. CASE q < r
  <2>1. /\ q - r + Period \in 0 .. Period - 1 /\ r + (q - r + Period) - 1 = (q - 1) + Period
        /\ q - 1 \in Nat /\ q - 1 < Period
    BY <1>1, <1>3, SMT
  <2>2. ((q - 1) + Period) % Period = q - 1
    BY <1>1, <2>1, SMT
  <2>3. roundAfter(r, q - r + Period) = q
    BY <2>1, <2>2, SMT DEF roundAfter
  <2>4. QED
    BY <2>1, <2>3, Zenon
<1>4. QED
  BY <1>1, <1>2, <1>3, SMT

\* Round leaders are among the nodes of the quorum set.
LEMMA LeadersKnown ==
    ASSUME NEW n \in Intact
    PROVE  \A r : newRoundLeaders(n, r) \subseteq peers(n) \cup {n}
BY Zenon DEF newRoundLeaders

\* While not every node of the quorum set leads, some later round brings a new leader.
LEMMA LeadersUpdated ==
    ASSUME NEW n \in Intact, NEW s, Typed(n, s), s.round \in 1 .. Period
    PROVE  LET t == updateRoundLeaders(n, s)
           IN  /\ Changes(s, t, {"round", "leaders"})
               /\ t.round \in 1 .. Period /\ t.leaders \subseteq peers(n) \cup {n}
<1> DEFINE t == updateRoundLeaders(n, s)
           all == peers(n) \cup {n}
           fresh == {k \in 0 .. Period - 1 :
                       ~ (newRoundLeaders(n, roundAfter(s.round, k)) \subseteq s.leaders)}
           k0 == CHOOSE k \in fresh : \A l \in fresh : k <= l
           r == roundAfter(s.round, k0)
<1>1. s \in Object /\ s.leaders \subseteq all /\ s = [f \in Fields |-> s[f]] /\ DOMAIN s = Fields
  BY Members, Zenon DEF Typed
<1>2. CASE Cardinality(s.leaders) >= 1 + Cardinality(peers(n))
  <2>1. t = s
    BY <1>2, Zenon DEF updateRoundLeaders
  <2>2. QED
    BY <1>1, <2>1, Zenon DEF Changes
<1>3. CASE ~ (Cardinality(s.leaders) >= 1 + Cardinality(peers(n)))
  <2>1. t = [s EXCEPT !.round = r, !.leaders = @ \cup newRoundLeaders(n, r)]
    BY <1>3, Zenon DEF updateRoundLeaders
  <2>2. PICK m \in all : m \notin s.leaders
    <3>1. peers(n) \subseteq Node /\ n \notin peers(n)
      BY Zenon DEF peers
    <3>2. IsFiniteSet(peers(n))
      BY <3>1, FiniteNodes, FS_Subset, Zenon
    <3>3. Cardinality(all) = Cardinality(peers(n)) + 1 /\ Cardinality(peers(n)) \in Nat
      BY <3>1, <3>2, FS_AddElement, FS_CardinalityType, Zenon
    <3>4. s.leaders # all
      <4> DEFINE c == Cardinality(peers(n))
                 d == Cardinality(s.leaders)
      <4>1. ASSUME s.leaders = all PROVE d = c + 1 /\ c \in Nat /\ ~ (d >= 1 + c)
        BY <1>3, <3>3, <4>1, Zenon
      <4> HIDE DEF c, d
      <4>2. ASSUME d = c + 1, c \in Nat, ~ (d >= 1 + c) PROVE FALSE
        BY <4>2, SMT
      <4>3. QED
        BY <4>1, <4>2, Zenon
    <3>5. QED
      BY <1>1, <3>4, Zenon
  <2>3. PICK q \in 1 .. Period : m \in newRoundLeaders(n, q)
    BY <2>2, LeaderAssumption, Zenon
  <2>4. PICK k \in 0 .. Period - 1 : roundAfter(s.round, k) = q
    BY <2>3, RoundsReached, Zenon
  <2>5. k \in fresh
    BY <2>2, <2>3, <2>4, Zenon
  <2>6. fresh \in SUBSET Nat /\ fresh # {} /\ \A l \in fresh : l \in 0 .. Period
    <3>1. \A l \in 0 .. Period - 1 : l \in Nat /\ l \in 0 .. Period
      BY NominationAssumption, SMT
    <3>2. QED
      BY <2>5, <3>1, Zenon
  <2> HIDE DEF fresh
  <2>7. k0 \in fresh
    BY <2>6, LeastNat, Zenon
  <2> HIDE DEF k0
  <2>8. r \in 1 .. Period
    <3>1. s.round \in 0 .. Period
      BY SMT
    <3>2. QED
      BY <2>6, <2>7, <3>1, Rounds, Zenon
  <2> HIDE DEF r
  <2>9. /\ Changes(s, t, {"round", "leaders"})
        /\ t.round = r /\ t.leaders = s.leaders \cup newRoundLeaders(n, r)
    BY <1>1, <2>1, Zenon DEF Changes, Fields
  <2>10. QED
    BY <1>1, <2>8, <2>9, LeadersKnown, Zenon
<1>4. QED
  BY <1>2, <1>3, Zenon

\* The votes of leaderVotes are those of s and one more from each leader at most.
LEMMA LeaderVotesTyped ==
    ASSUME NEW n \in Intact, NEW s \in Object
    PROVE  leaderVotes(n, s) \subseteq Value
<1> DEFINE L == Len(NodeOrder)
           more(i, V) == IF NodeOrder[i] \in s.leaders
                           THEN getNewValueFromNomination(n, s.round, V, s.latest[NodeOrder[i]])
                           ELSE {}
           votesAfter[i \in 0 .. L] ==
               IF i = 0 THEN s.votes ELSE votesAfter[i - 1] \cup more(i, votesAfter[i - 1])
           Right(f, j) == /\ DOMAIN f = 0 .. j
                          /\ f = [i \in 0 .. j |-> IF i = 0 THEN s.votes
                                                   ELSE f[i - 1] \cup more(i, f[i - 1])]
<1>1. L \in Nat /\ \A i \in 1 .. L : NodeOrder[i] \in Node
  BY NominationAssumption, SMT
<1>2. leaderVotes(n, s) = votesAfter[L]
  BY Zenon DEF leaderVotes
<1>3. s.votes \subseteq Value /\ s.latest \in [Node -> Nomination]
  BY Members, Zenon
<1>4. \A i \in 1 .. L : \A V : more(i, V) \subseteq Value
  BY <1>1, <1>3, NominatedValues, Zenon
<1>5. votesAfter = CHOOSE f : f = [i \in 0 .. L |->
                      IF i = 0 THEN s.votes ELSE f[i - 1] \cup more(i, f[i - 1])]
  BY Zenon
<1> HIDE DEF more, votesAfter, L
<1>6. \A j \in 0 .. L : \E f : Right(f, j)
  <2> DEFINE Bad == {j \in 0 .. L : ~ \E f : Right(f, j)}
  <2>1. ASSUME Bad # {} PROVE FALSE
    <3>1. Bad \in SUBSET Nat
      BY <1>1, SMT
    <3>2. PICK j \in Bad : \A l \in Bad : j <= l
      <4> HIDE DEF Bad
      <4>1. QED
        BY <2>1, <3>1, LeastNat, Zenon
    <3>3. j \in 0 .. L /\ ~ \E f : Right(f, j)
      BY <3>2, Zenon
    <3>4. CASE j = 0
      <4> DEFINE f == [i \in 0 .. 0 |-> s.votes]
      <4>1. Right(f, 0)
        BY SMT
      <4>2. QED
        BY <3>3, <3>4, <4>1, Zenon
    <3>5. CASE j # 0
      <4>1. j - 1 \in 0 .. L /\ ~ (j <= j - 1) /\ j \in Nat
        BY <1>1, <3>3, <3>5, SMT
      <4>2. j - 1 \notin Bad
        BY <3>2, <4>1, Zenon
      <4>3. PICK g : Right(g, j - 1)
        BY <4>1, <4>2, Zenon
      <4> DEFINE f == [i \in 0 .. j |-> IF i = j THEN g[j - 1] \cup more(j, g[j - 1]) ELSE g[i]]
      <4>4. \A i \in 0 .. j : i # j => f[i] = g[i] /\ i \in 0 .. (j - 1)
        BY <4>1, SMT
      <4>5. \A i \in 0 .. j : f[i] = IF i = 0 THEN s.votes ELSE f[i - 1] \cup more(i, f[i - 1])
        <5>1. \A i \in 0 .. j : i # 0 => i - 1 \in 0 .. j /\ i - 1 # j
          BY <4>1, SMT
        <5>2. \A i \in 0 .. (j - 1) : g[i] = IF i = 0 THEN s.votes ELSE g[i - 1] \cup more(i, g[i - 1])
          BY <4>3, Zenon
        <5>3. f[j] = g[j - 1] \cup more(j, g[j - 1]) /\ j \in 0 .. j
          BY <4>1, SMT
        <5> HIDE DEF f
        <5>4. QED
          BY <3>5, <4>4, <5>1, <5>2, <5>3, Zenon
      <4>6. Right(f, j)
        BY <4>5, Zenon
      <4>7. QED
        BY <3>3, <4>6, Zenon
    <3>6. QED
      BY <3>4, <3>5, Zenon
  <2>2. QED
    BY <2>1, Zenon
<1>7. votesAfter = [i \in 0 .. L |->
                      IF i = 0 THEN s.votes ELSE votesAfter[i - 1] \cup more(i, votesAfter[i - 1])]
  <2>1. L \in 0 .. L
    BY <1>1, SMT
  <2>2. PICK f : Right(f, L)
    BY <1>6, <2>1, Zenon
  <2>3. QED
    BY <1>5, <2>2, Zenon
<1>8. \A i \in 0 .. L : votesAfter[i] =
         IF i = 0 THEN s.votes ELSE votesAfter[i - 1] \cup more(i, votesAfter[i - 1])
  BY <1>7, Zenon
<1>9. \A j \in 0 .. L : votesAfter[j] \subseteq Value
  <2> DEFINE Bad == {j \in 0 .. L : ~ (votesAfter[j] \subseteq Value)}
  <2>1. ASSUME Bad # {} PROVE FALSE
    <3>1. Bad \in SUBSET Nat
      BY <1>1, SMT
    <3>2. PICK j \in Bad : \A l \in Bad : j <= l
      <4> HIDE DEF Bad
      <4>1. QED
        BY <2>1, <3>1, LeastNat, Zenon
    <3>3. j \in 0 .. L /\ ~ (votesAfter[j] \subseteq Value)
      BY <3>2, Zenon
    <3>4. j # 0
      BY <1>3, <1>8, <3>3, Zenon
    <3>5. j - 1 \in 0 .. L /\ ~ (j <= j - 1) /\ j \in 1 .. L
      BY <1>1, <3>3, <3>4, SMT
    <3>6. votesAfter[j - 1] \subseteq Value
      BY <3>2, <3>5, Zenon
    <3>7. votesAfter[j] = votesAfter[j - 1] \cup more(j, votesAfter[j - 1])
      BY <1>8, <3>3, <3>4, Zenon
    <3>8. QED
      BY <1>4, <3>3, <3>5, <3>6, <3>7, Zenon
  <2>2. QED
    BY <2>1, Zenon
<1>10. L \in 0 .. L
  BY <1>1, SMT
<1>11. QED
  BY <1>2, <1>9, <1>10, Zenon

-----------------------------------------------------------------------------
\* Only what changes has to be looked at.
LEMMA TypedKept ==
    ASSUME NEW n \in Intact, NEW s, NEW t, NEW F, Typed(n, s), Changes(s, t, F),
           "started" \in F => t.started \in BOOLEAN,
           "round" \in F => t.round \in 0 .. Period,
           "leaders" \in F => t.leaders \subseteq peers(n) \cup {n},
           "votes" \in F => t.votes \subseteq Value,
           "accepted" \in F => t.accepted \subseteq Value,
           "candidates" \in F => t.candidates \subseteq Value,
           "latest" \in F => t.latest \in [Node -> Nomination],
           "last" \in F => t.last \in Nomination,
           "composite" \in F => t.composite \in Value \cup {NoValue},
           "value" \in F => t.value \in Value \cup {NoValue},
           "stack" \in F => t.stack \in Seq(Frame),
           "calling" \in F => t.calling \in BOOLEAN,
           "threw" \in F => t.threw \in BOOLEAN,
           t.candidates = {} => t.stack \in Seq(QuietFrame)
    PROVE  Typed(n, t)
<1>1. s \in Object /\ s.leaders \subseteq peers(n) \cup {n}
  BY Zenon DEF Typed
<1>2. peers(n) \cup {n} \subseteq Node
  BY SlicesAssumption, Zenon DEF peers
<1>3. \A f \in Fields : f \in F \/ t[f] = s[f]
  BY Zenon DEF Changes
<1>4. t.leaders \subseteq peers(n) \cup {n}
  BY <1>1, <1>3, Zenon DEF Fields
<1>5. t.started \in BOOLEAN /\ t.round \in 0 .. Period /\ t.calling \in BOOLEAN /\ t.threw \in BOOLEAN
  BY <1>1, <1>3, Members, Zenon DEF Fields
<1>6. t.votes \subseteq Value /\ t.accepted \subseteq Value /\ t.candidates \subseteq Value
  BY <1>1, <1>3, Members, Zenon DEF Fields
<1>7. t.latest \in [Node -> Nomination] /\ t.last \in Nomination
  BY <1>1, <1>3, Members, Zenon DEF Fields
<1>8. t.composite \in Value \cup {NoValue} /\ t.value \in Value \cup {NoValue}
  BY <1>1, <1>3, Members, Zenon DEF Fields
<1>9. t.stack \in Seq(Frame)
  BY <1>1, <1>3, Members, Zenon DEF Fields
<1>10. t = [f \in Fields |-> t[f]] /\ t.leaders \subseteq Node
  BY <1>2, <1>4, Zenon DEF Changes
<1>11. t \in Object
  BY <1>5, <1>6, <1>7, <1>8, <1>9, <1>10, MembersMake, Zenon
<1>12. QED
  BY <1>4, <1>11, Zenon DEF Typed

\* A quiet frame is a frame.
LEMMA QuietFrames == Seq(QuietFrame) \subseteq Seq(Frame)
<1>1. QuietFrame \subseteq Frame
  BY Zenon DEF QuietFrame, Frame
<1>2. QED
  BY <1>1

\* The node's own statement.
LEMMA StatementTyped ==
    ASSUME NEW s \in Object
    PROVE  Statement(s) \in Nomination
BY Members, Zenon DEF Statement, Nomination

\* Recording a statement changes nothing but the latest statements.
LEMMA RecordTyped ==
    ASSUME NEW n \in Intact, NEW s, Typed(n, s), NEW m \in Node, NEW st \in Nomination
    PROVE  Typed(n, recordEnvelope(s, m, st)) /\ Changes(s, recordEnvelope(s, m, st), {"latest"})
<1> DEFINE t == recordEnvelope(s, m, st)
<1>1. s \in Object /\ DOMAIN s = Fields /\ s.latest \in [Node -> Nomination]
  BY Members, Zenon DEF Typed
<1>2. Changes(s, t, {"latest"}) /\ t.latest = [s.latest EXCEPT ![m] = st]
  BY <1>1, Zenon DEF recordEnvelope, Changes, Fields
<1>3. t.latest \in [Node -> Nomination]
  BY <1>1, <1>2, SMT
<1>4. t.candidates = s.candidates /\ t.stack = s.stack
  BY <1>2, Zenon DEF Changes, Fields
<1> HIDE DEF t
<1>5. t.candidates = {} => t.stack \in Seq(QuietFrame)
  BY <1>4, Zenon DEF Typed
<1>6. Typed(n, t)
  BY <1>2, <1>3, <1>5, TypedKept, Zenon
<1>7. QED
  BY <1>2, <1>6, Zenon DEF t

\* promote only adds values.
LEMMA PromoteTyped ==
    ASSUME NEW n \in Intact, NEW s, Typed(n, s), NEW m, NEW st \in Nomination
    PROVE  LET u == promote(n, s, m, st)
           IN  Typed(n, u) /\ s.candidates \subseteq u.candidates /\ u.stack = s.stack
<1> DEFINE ready == {x \in st.votes \ s.accepted : federatedAccept(n, s, x)}
           t == accept(n, s, ready)
           u == [t EXCEPT !.candidates = @ \cup {x \in t.accepted : federatedRatify(n, t, x)}]
           newVote == IF u.candidates = {} /\ m \in u.leaders
                        THEN getNewValueFromNomination(n, u.round, u.votes, st) ELSE {}
           v == [u EXCEPT !.votes = @ \cup newVote]
<1>1. ready \subseteq Value
  BY Zenon DEF Nomination
<1>2. newVote \subseteq Value
  BY NominatedValues, Zenon
<1>3. /\ s \in Object /\ DOMAIN s = Fields
      /\ s.votes \subseteq Value /\ s.accepted \subseteq Value /\ s.candidates \subseteq Value
  BY Members, Zenon DEF Typed
<1>4. {valueToNominate(n, x) : x \in ready} \ {NoValue} \subseteq Value
  BY <1>1, NominatedValues, Zenon
<1> HIDE DEF ready
<1>5. /\ DOMAIN t = Fields /\ \A f \in Fields \ {"votes", "accepted"} : t[f] = s[f]
      /\ t.accepted = s.accepted \cup (ready \cap fullyValid[n])
      /\ t.votes = s.votes \cup ({valueToNominate(n, x) : x \in ready} \ {NoValue})
  BY <1>3, Zenon DEF accept, Fields
<1> HIDE DEF t
<1>6. /\ DOMAIN u = Fields /\ \A f \in Fields \ {"candidates"} : u[f] = t[f]
      /\ u.candidates = t.candidates \cup {x \in t.accepted : federatedRatify(n, t, x)}
  BY <1>5, Zenon DEF Fields
<1> HIDE DEF u
<1>7. /\ v = [f \in Fields |-> v[f]] /\ \A f \in Fields \ {"votes"} : v[f] = u[f]
      /\ v.votes = u.votes \cup newVote
  BY <1>6, Zenon DEF Fields
<1> HIDE DEF newVote, v
<1>8. Changes(s, v, {"votes", "accepted", "candidates"}) /\ v.stack = s.stack
  BY <1>5, <1>6, <1>7, Zenon DEF Changes, Fields
<1>9. /\ v.candidates = s.candidates \cup {x \in t.accepted : federatedRatify(n, t, x)}
      /\ v.accepted = t.accepted
      /\ v.votes = t.votes \cup newVote
  BY <1>5, <1>6, <1>7, Zenon DEF Fields
<1>10. t.accepted \subseteq Value /\ t.votes \subseteq Value
  BY <1>1, <1>3, <1>4, <1>5, Zenon
<1>11. /\ v.candidates \subseteq Value /\ v.accepted \subseteq Value /\ v.votes \subseteq Value
       /\ s.candidates \subseteq v.candidates
  BY <1>2, <1>3, <1>9, <1>10, Zenon
<1>12. v.candidates = {} => v.stack \in Seq(QuietFrame)
  <2>1. v.candidates = {} => s.candidates = {}
    BY <1>11, Zenon
  <2>2. QED
    BY <1>8, <2>1, Zenon DEF Typed
<1>13. Typed(n, v)
  BY <1>8, <1>11, <1>12, TypedKept, Zenon
<1>14. promote(n, s, m, st) = v
  BY Zenon DEF promote, v, newVote, u, t, ready
<1>15. QED
  BY <1>8, <1>11, <1>13, <1>14, Zenon

\* A call of emitNomination that promises a composite leaves candidates behind.
LEMMA EmitTyped ==
    ASSUME NEW n \in Intact, NEW u, Typed(n, u), NEW c \in BOOLEAN, c => u.candidates # {}
    PROVE  Typed(n, emitNomination(u, c))
<1> DEFINE frame == [st |-> Statement(u), newCandidates |-> c]
           v == emitNomination(u, c)
<1>1. u \in Object /\ DOMAIN u = Fields /\ u.stack \in Seq(Frame)
  BY Members, Zenon DEF Typed
<1>2. frame \in Frame /\ (~ c => frame \in QuietFrame)
  BY <1>1, StatementTyped, Zenon DEF Frame, QuietFrame
<1> HIDE DEF frame
<1>3. /\ Changes(u, v, {"stack", "calling"})
      /\ v.stack = <<frame>> \o u.stack
      /\ v.calling = TRUE
  BY <1>1, Zenon DEF emitNomination, Changes, Fields, frame
<1>4. v.candidates = u.candidates
  BY <1>3, Zenon DEF Changes, Fields
<1> HIDE DEF v
<1>5. v.stack \in Seq(Frame) /\ v.calling \in BOOLEAN
  <2>1. v.stack \in Seq(Frame)
    BY <1>1, <1>2, <1>3, SMT
  <2>2. QED
    BY <1>3, <2>1, Zenon
<1>6. v.candidates = {} => v.stack \in Seq(QuietFrame)
  <2>1. ASSUME v.candidates = {} PROVE v.stack \in Seq(QuietFrame)
    <3>1. frame \in QuietFrame /\ u.stack \in Seq(QuietFrame)
      BY <1>2, <1>4, <2>1, Zenon DEF Typed
    <3>2. QED
      BY <1>3, <3>1, SMT
  <2>2. QED
    BY <2>1, Zenon
<1>7. Typed(n, v)
  BY <1>3, <1>5, <1>6, TypedKept, Zenon
<1>8. QED
  BY <1>7, Zenon DEF v

\* A composite is made of candidates.
LEMMA CombineTyped ==
    ASSUME NEW n \in Intact, NEW u, Typed(n, u), u.candidates # {}
    PROVE  Typed(n, combine(u))
<1> DEFINE v == combine(u)
<1>1. u \in Object /\ DOMAIN u = Fields /\ u.candidates \in (SUBSET Value) \ {{}}
  BY Members, Zenon DEF Typed
<1>2. Changes(u, v, {"composite"}) /\ v.composite = combineCandidates[u.candidates]
  BY <1>1, Zenon DEF combine, Changes, Fields
<1>3. v.candidates # {}
  BY <1>2, Zenon DEF Changes, Fields
<1>4. combineCandidates \in [(SUBSET Value) \ {{}} -> Value]
  BY NominationAssumption, Zenon
<1> HIDE DEF v
<1>5. v.composite \in Value \cup {NoValue}
  <2> DEFINE C == (SUBSET Value) \ {{}}
  <2>1. u.candidates \in C /\ combineCandidates \in [C -> Value]
    BY <1>1, <1>4, Zenon
  <2> HIDE DEF C
  <2>2. QED
    BY <1>2, <2>1, Zenon
<1>6. Typed(n, v)
  BY <1>2, <1>3, <1>5, TypedKept, Zenon
<1>7. QED
  BY <1>6, Zenon DEF v

\* processEnvelope keeps the types, whoever sent the statement.
LEMMA ProcessTyped ==
    ASSUME NEW n \in Intact, NEW s, Typed(n, s), NEW m \in Node, NEW st \in Nomination
    PROVE  Typed(n, processEnvelope(n, s, m, st))
<1> DEFINE t == recordEnvelope(s, m, st)
           u == promote(n, t, m, st)
           newCandidates == u.candidates # s.candidates
           v == processEnvelope(n, s, m, st)
<1>1. Typed(n, t) /\ t.candidates = s.candidates
  <2>1. Typed(n, t) /\ Changes(s, t, {"latest"})
    BY RecordTyped, Zenon
  <2>2. QED
    BY <2>1, Zenon DEF Changes, Fields
<1>2. v = IF ~ s.started THEN t
          ELSE IF Statement(u) # Statement(s) THEN emitNomination(u, newCandidates)
          ELSE IF newCandidates THEN combine(u)
          ELSE u
  BY Zenon DEF processEnvelope
<1> HIDE DEF t
<1>3. Typed(n, u) /\ t.candidates \subseteq u.candidates
  BY <1>1, PromoteTyped, Zenon
<1>4. newCandidates \in BOOLEAN /\ (newCandidates => u.candidates # {})
  BY <1>1, <1>3, Zenon
<1> HIDE DEF u, v
<1>5. Typed(n, emitNomination(u, newCandidates))
  <2> HIDE DEF newCandidates
  <2>1. QED
    BY <1>3, <1>4, EmitTyped, Zenon
<1>6. newCandidates => Typed(n, combine(u))
  BY <1>3, <1>4, CombineTyped, Zenon
<1> HIDE DEF newCandidates
<1>7. Typed(n, v)
  BY <1>1, <1>2, <1>3, <1>5, <1>6, Zenon
<1>8. QED
  BY <1>7, Zenon DEF v

\* A round of nomination; the round is at least 1 from the first on.
LEMMA NominateTyped ==
    ASSUME NEW n \in Intact, NEW s, Typed(n, s), NEW x \in Value
    PROVE  Typed(n, nominate(n, s, x))
<1> DEFINE r == [s EXCEPT !.started = TRUE, !.value = x, !.round = roundAfter(@, 1)]
           t == updateRoundLeaders(n, r)
           u == [t EXCEPT !.votes = @ \cup (IF n \in t.leaders THEN {x} ELSE {})]
           v == [u EXCEPT !.votes = @ \cup leaderVotes(n, u)]
<1>1. nominate(n, s, x) = IF v.votes # s.votes THEN emitNomination(v, FALSE) ELSE v
  BY Zenon DEF nominate
<1>2. s \in Object /\ DOMAIN s = Fields /\ s.round \in 0 .. Period
  BY Members, Zenon DEF Typed
<1>3. roundAfter(s.round, 1) \in 1 .. Period
  <2>1. 1 \in 0 .. Period
    BY NominationAssumption, SMT
  <2>2. QED
    BY <1>2, <2>1, Rounds, Zenon
<1>4. \A i \in 1 .. Period : i \in 0 .. Period
  BY NominationAssumption, SMT
<1>5. /\ Changes(s, r, {"started", "value", "round"})
      /\ r.started = TRUE /\ r.value = x /\ r.round = roundAfter(s.round, 1)
  BY <1>2, Zenon DEF Changes, Fields
<1> HIDE DEF r
<1>6. Typed(n, r)
  <2>1. r.started \in BOOLEAN /\ r.value \in Value \cup {NoValue} /\ r.round \in 0 .. Period
    BY <1>3, <1>4, <1>5, Zenon
  <2>2. r.candidates = s.candidates /\ r.stack = s.stack
    BY <1>5, Zenon DEF Changes, Fields
  <2>3. r.candidates = {} => r.stack \in Seq(QuietFrame)
    BY <2>2, Zenon DEF Typed
  <2>4. QED
    BY <1>5, <2>1, <2>3, TypedKept, Zenon
<1>7. /\ Changes(r, t, {"round", "leaders"})
      /\ t.round \in 1 .. Period /\ t.leaders \subseteq peers(n) \cup {n}
  BY <1>3, <1>5, <1>6, LeadersUpdated, Zenon
<1> HIDE DEF t
<1>8. Typed(n, t)
  <2>1. t.candidates = r.candidates /\ t.stack = r.stack
    BY <1>7, Zenon DEF Changes, Fields
  <2>2. t.candidates = {} => t.stack \in Seq(QuietFrame)
    BY <1>6, <2>1, Zenon DEF Typed
  <2>3. QED
    BY <1>4, <1>6, <1>7, <2>2, TypedKept, Zenon
<1>9. Typed(n, u)
  <2>1. t \in Object /\ DOMAIN t = Fields /\ t.votes \subseteq Value
    BY <1>8, Members, Zenon DEF Typed
  <2>2. Changes(t, u, {"votes"}) /\ u.votes = t.votes \cup (IF n \in t.leaders THEN {x} ELSE {})
    BY <2>1, Zenon DEF Changes, Fields
  <2>3. u.candidates = t.candidates /\ u.stack = t.stack
    BY <2>2, Zenon DEF Changes, Fields
  <2> HIDE DEF u
  <2>4. u.candidates = {} => u.stack \in Seq(QuietFrame)
    BY <1>8, <2>3, Zenon DEF Typed
  <2>5. u.votes \subseteq Value
    BY <2>1, <2>2, Zenon
  <2>6. QED
    BY <1>8, <2>2, <2>4, <2>5, TypedKept, Zenon
<1> HIDE DEF u
<1>10. Typed(n, v)
  <2>1. u \in Object /\ DOMAIN u = Fields /\ u.votes \subseteq Value
    BY <1>9, Members, Zenon DEF Typed
  <2>2. Changes(u, v, {"votes"}) /\ v.votes = u.votes \cup leaderVotes(n, u)
    BY <2>1, Zenon DEF Changes, Fields
  <2>3. v.candidates = u.candidates /\ v.stack = u.stack
    BY <2>2, Zenon DEF Changes, Fields
  <2> HIDE DEF v
  <2>4. v.candidates = {} => v.stack \in Seq(QuietFrame)
    BY <1>9, <2>3, Zenon DEF Typed
  <2>5. v.votes \subseteq Value
    BY <2>1, <2>2, LeaderVotesTyped, Zenon
  <2>6. QED
    BY <1>9, <2>2, <2>4, <2>5, TypedKept, Zenon
<1> HIDE DEF v
<1>11. Typed(n, emitNomination(v, FALSE))
  BY <1>10, EmitTyped, Zenon
<1>12. QED
  BY <1>1, <1>10, <1>11, Zenon

\* The new object, and a restart from the last statement.
LEMMA NewTyped ==
    ASSUME NEW n \in Intact
    PROVE  /\ Typed(n, NewObject)
           /\ \A st \in Nomination : Typed(n, setStateFromEnvelope(NewObject, n, st))
<1>1. Typed(n, NewObject)
  <2>1. NoNomination \in Nomination
    BY Zenon DEF NoNomination, Nomination
  <2>2. 0 \in 0 .. Period
    BY NominationAssumption, SMT
  <2>3. << >> \in Seq(Frame) /\ << >> \in Seq(QuietFrame)
    BY SMT
  <2>4. /\ DOMAIN NewObject = Fields /\ NewObject = [f \in Fields |-> NewObject[f]]
        /\ NewObject.latest \in [Node -> Nomination]
    BY <2>1, Zenon DEF NewObject, Fields
  <2>5. NewObject \in Object
    BY <2>1, <2>2, <2>3, <2>4, MembersMake, Zenon DEF NewObject
  <2>6. QED
    BY <2>3, <2>5, Zenon DEF Typed, NewObject
<1>2. ASSUME NEW st \in Nomination
      PROVE  Typed(n, setStateFromEnvelope(NewObject, n, st))
  <2> DEFINE r == recordEnvelope(NewObject, n, st)
             s == [r EXCEPT !.accepted = st.accepted, !.votes = st.votes, !.last = st]
  <2>1. Typed(n, r)
    BY <1>1, SlicesAssumption, RecordTyped, Zenon
  <2>2. setStateFromEnvelope(NewObject, n, st) = IF st = NoNomination THEN NewObject ELSE s
    BY Zenon DEF setStateFromEnvelope
  <2> HIDE DEF r
  <2>3. DOMAIN r = Fields
    BY <2>1, Members, Zenon DEF Typed
  <2>4. /\ Changes(r, s, {"accepted", "votes", "last"})
        /\ s.accepted = st.accepted /\ s.votes = st.votes /\ s.last = st
    BY <2>3, Zenon DEF Changes, Fields
  <2>5. s.candidates = r.candidates /\ s.stack = r.stack
    BY <2>4, Zenon DEF Changes, Fields
  <2> HIDE DEF s
  <2>6. s.accepted \subseteq Value /\ s.votes \subseteq Value /\ s.last \in Nomination
    BY <2>4, Zenon DEF Nomination
  <2>7. s.candidates = {} => s.stack \in Seq(QuietFrame)
    BY <2>1, <2>5, Zenon DEF Typed
  <2>8. Typed(n, s)
    BY <2>1, <2>4, <2>6, <2>7, TypedKept, Zenon
  <2>9. QED
    BY <1>1, <2>2, <2>8, Zenon
<1>3. QED
  BY <1>1, <1>2, Zenon

\* A call that returns: the statement is emitted, if it is newer, and the caller goes on.
LEMMA ReturnTyped ==
    ASSUME NEW n \in Intact, NEW s, Typed(n, s), s.stack # << >>
    PROVE  LET frame == Head(s.stack)
               t == [emitted(s, frame.st) EXCEPT !.stack = Tail(@)]
           IN  Typed(n, IF frame.newCandidates THEN combine(t) ELSE t)
<1> DEFINE frame == Head(s.stack)
           e == emitted(s, frame.st)
           t == [e EXCEPT !.stack = Tail(@)]
<1>1. s \in Object /\ DOMAIN s = Fields /\ s.stack \in Seq(Frame) /\ s.last \in Nomination
      /\ s = [f \in Fields |-> s[f]]
  BY Members, Zenon DEF Typed
<1>2. frame \in Frame /\ Tail(s.stack) \in Seq(Frame)
  BY <1>1, SMT
<1>3. s.candidates = {} => frame \in QuietFrame /\ Tail(s.stack) \in Seq(QuietFrame)
  <2>1. ASSUME s.candidates = {} PROVE frame \in QuietFrame /\ Tail(s.stack) \in Seq(QuietFrame)
    <3>1. s.stack \in Seq(QuietFrame)
      BY <2>1, Zenon DEF Typed
    <3>2. QED
      BY <3>1, SMT
  <2>2. QED
    BY <2>1, Zenon
<1>4. frame.st \in Nomination /\ (s.candidates = {} => ~ frame.newCandidates)
  BY <1>2, <1>3, Zenon DEF Frame, QuietFrame
<1> HIDE DEF frame
<1>5. Changes(s, e, {"last"}) /\ e.last \in Nomination /\ DOMAIN e = Fields
  <2>1. CASE isNewerStatement(s.last, frame.st)
    <3>1. e = [s EXCEPT !.last = frame.st]
      BY <2>1, Zenon DEF emitted
    <3>2. QED
      BY <1>1, <1>4, <3>1, Zenon DEF Changes, Fields
  <2>2. CASE ~ isNewerStatement(s.last, frame.st)
    <3>1. e = s
      BY <2>2, Zenon DEF emitted
    <3>2. QED
      BY <1>1, <3>1, Zenon DEF Changes
  <2>3. QED
    BY <2>1, <2>2, Zenon
<1> HIDE DEF e
<1>6. e.stack = s.stack /\ e.candidates = s.candidates
  BY <1>5, Zenon DEF Changes, Fields
<1>7. Typed(n, e)
  <2>1. e.candidates = {} => e.stack \in Seq(QuietFrame)
    BY <1>6, Zenon DEF Typed
  <2>2. QED
    BY <1>5, <2>1, TypedKept, Zenon
<1>8. Changes(e, t, {"stack"}) /\ t.stack = Tail(s.stack) /\ t.candidates = s.candidates
  BY <1>5, <1>6, Zenon DEF Changes, Fields
<1> HIDE DEF t
<1>9. Typed(n, t)
  <2>1. t.candidates = {} => t.stack \in Seq(QuietFrame)
    BY <1>3, <1>8, Zenon
  <2>2. t.stack \in Seq(Frame)
    BY <1>2, <1>8, Zenon
  <2>3. QED
    BY <1>7, <1>8, <2>1, <2>2, TypedKept, Zenon
<1>10. frame.newCandidates => Typed(n, combine(t))
  BY <1>4, <1>8, <1>9, CombineTyped, Zenon
<1>11. QED
  BY <1>9, <1>10, Zenon DEF frame, e, t

-----------------------------------------------------------------------------
\* The types hold initially.
LEMMA TypesInit == Init => TInv
<1> SUFFICES ASSUME Init PROVE TInv
  BY Zenon
<1>1. \A n \in Intact : Typed(n, NewObject) /\ NewObject \in Object
  BY NewTyped, Zenon DEF Typed
<1>2. QED
  BY <1>1, Zenon DEF Init, TInv

\* One more member changed, the types remain.
LEMMA FlagTyped ==
    ASSUME NEW n \in Intact, NEW s, Typed(n, s), NEW b \in BOOLEAN
    PROVE  /\ Typed(n, [s EXCEPT !.started = b])
           /\ Typed(n, [s EXCEPT !.calling = b])
           /\ Typed(n, [s EXCEPT !.threw = b])
<1>1. DOMAIN s = Fields
  BY Members, Zenon DEF Typed
<1>2. Typed(n, [s EXCEPT !.started = b])
  <2> DEFINE t == [s EXCEPT !.started = b]
  <2>1. Changes(s, t, {"started"}) /\ t.started = b /\ t.candidates = s.candidates /\ t.stack = s.stack
    BY <1>1, Zenon DEF Changes, Fields
  <2> HIDE DEF t
  <2>2. t.candidates = {} => t.stack \in Seq(QuietFrame)
    BY <2>1, Zenon DEF Typed
  <2>3. Typed(n, t)
    BY <2>1, <2>2, TypedKept, Zenon
  <2>4. QED
    BY <2>3, Zenon DEF t
<1>3. Typed(n, [s EXCEPT !.calling = b])
  <2> DEFINE t == [s EXCEPT !.calling = b]
  <2>1. Changes(s, t, {"calling"}) /\ t.calling = b /\ t.candidates = s.candidates /\ t.stack = s.stack
    BY <1>1, Zenon DEF Changes, Fields
  <2> HIDE DEF t
  <2>2. t.candidates = {} => t.stack \in Seq(QuietFrame)
    BY <2>1, Zenon DEF Typed
  <2>3. Typed(n, t)
    BY <2>1, <2>2, TypedKept, Zenon
  <2>4. QED
    BY <2>3, Zenon DEF t
<1>4. Typed(n, [s EXCEPT !.threw = b])
  <2> DEFINE t == [s EXCEPT !.threw = b]
  <2>1. Changes(s, t, {"threw"}) /\ t.threw = b /\ t.candidates = s.candidates /\ t.stack = s.stack
    BY <1>1, Zenon DEF Changes, Fields
  <2> HIDE DEF t
  <2>2. t.candidates = {} => t.stack \in Seq(QuietFrame)
    BY <2>1, Zenon DEF Typed
  <2>3. Typed(n, t)
    BY <2>1, <2>2, TypedKept, Zenon
  <2>4. QED
    BY <2>3, Zenon DEF t
<1>5. QED
  BY <1>2, <1>3, <1>4, Zenon

\* The other nodes' objects are left alone.
LEMMA UpdateTyped ==
    ASSUME TInv, NEW n \in Intact, NEW w, Typed(n, w), Update(n, w)
    PROVE  TInv'
<1>1. w \in Object /\ w.last \in Nomination /\ w.votes \subseteq Value
  BY Members, Zenon DEF Typed
<1>2. nom' \in [Intact -> Object] /\ \A m \in Intact : nom'[m] = IF m = n THEN w ELSE nom[m]
  <2>1. nom \in [Intact -> Object] /\ nom' = [nom EXCEPT ![n] = w]
    BY Zenon DEF TInv, Update
  <2>2. QED
    BY <1>1, <2>1, SMT
<1>3. \A m \in Intact : Typed(m, nom'[m])
  BY <1>2, Zenon DEF TInv
<1>4. sent' \in [Intact -> SUBSET Nomination]
  <2>1. sent \in [Intact -> SUBSET Nomination]
    BY Zenon DEF TInv
  <2>2. sent' = sent \/ sent' = [sent EXCEPT ![n] = @ \cup {w.last}]
    BY Zenon DEF Update
  <2> DEFINE l == w.last
  <2>3. l \in Nomination /\ (sent' = sent \/ sent' = [sent EXCEPT ![n] = @ \cup {l}])
    BY <1>1, <2>2, Zenon
  <2> HIDE DEF l
  <2>4. QED
    BY <2>1, <2>3, SMT
<1>5. introduced' \subseteq Value
  BY <1>1, Zenon DEF TInv, Update
<1>6. \A m \in Intact : Typed(m, nom[m])'
  BY <1>3, Zenon DEF Typed
<1>7. QED
  BY <1>2, <1>4, <1>5, <1>6, Zenon DEF TInv

\* Every step updates one node's object to one with the types.
LEMMA StepTyped ==
    ASSUME TInv, Next
    PROVE  \E n \in Intact : \E w : Update(n, w) /\ Typed(n, w)
<1>1. \A n \in Intact : Typed(n, nom[n]) /\ nom[n] \in Object
  BY Zenon DEF TInv, Typed
<1>2. ASSUME NEW n \in Intact, NEW x \in Proposal[n], Nominate(n, x)
      PROVE  \E w : Update(n, w) /\ Typed(n, w)
  <2>1. Proposal \in [Intact -> SUBSET Value]
    BY NominationAssumption, Zenon
  <2>2. x \in Value
    BY <2>1, SMT
  <2>3. Typed(n, nominate(n, nom[n], x))
    BY <1>1, <2>2, NominateTyped, Zenon
  <2>4. QED
    BY <1>2, <2>3, Zenon DEF Nominate
<1>3. ASSUME NEW n \in Intact, NominationTimerExpired(n)
      PROVE  \E w : Update(n, w) /\ Typed(n, w)
  <2>1. nom[n].value # NoValue /\ Update(n, nominate(n, nom[n], nom[n].value))
    BY <1>3, Zenon DEF NominationTimerExpired
  <2>2. nom[n].value \in Value
    BY <1>1, <2>1, Members, Zenon
  <2>3. Typed(n, nominate(n, nom[n], nom[n].value))
    BY <1>1, <2>2, NominateTyped, Zenon
  <2>4. QED
    BY <2>1, <2>3, Zenon
<1>4. ASSUME NEW n \in Intact, NEW m \in Node, NEW st \in Nomination, ReceiveNomination(n, m, st)
      PROVE  \E w : Update(n, w) /\ Typed(n, w)
  BY <1>1, <1>4, ProcessTyped, Zenon DEF ReceiveNomination
<1>5. ASSUME NEW n \in Intact, ProcessOwn(n)
      PROVE  \E w : Update(n, w) /\ Typed(n, w)
  <2> DEFINE s == [nom[n] EXCEPT !.calling = FALSE]
             st == Head(s.stack).st
  <2>1. Typed(n, s)
    BY <1>1, FlagTyped, Zenon
  <2>2. s.stack = nom[n].stack
    BY <1>1, Members, Zenon DEF Fields
  <2>3. /\ s.stack # << >>
        /\ Update(n, IF isNewerStatement(s.latest[n], st) /\ isSane(st)
                       THEN processEnvelope(n, s, n, st) ELSE [s EXCEPT !.threw = TRUE])
    BY <1>5, <2>2, Zenon DEF ProcessOwn
  <2> HIDE DEF s
  <2>4. s.stack \in Seq(Frame)
    BY <2>1, Members, Zenon DEF Typed
  <2>5. Head(s.stack) \in Frame
    BY <2>3, <2>4, SMT
  <2>6. st \in Nomination
    BY <2>5, Zenon DEF Frame
  <2> HIDE DEF st
  <2>7. Typed(n, processEnvelope(n, s, n, st)) /\ Typed(n, [s EXCEPT !.threw = TRUE])
    BY <2>1, <2>6, SlicesAssumption, ProcessTyped, FlagTyped, Zenon
  <2>8. QED
    BY <2>3, <2>7, Zenon
<1>6. ASSUME NEW n \in Intact, Return(n)
      PROVE  \E w : Update(n, w) /\ Typed(n, w)
  BY <1>1, <1>6, ReturnTyped, Zenon DEF Return
<1>7. ASSUME NEW n \in Intact, stopNomination(n)
      PROVE  \E w : Update(n, w) /\ Typed(n, w)
  BY <1>1, <1>7, FlagTyped, Zenon DEF stopNomination
<1>8. ASSUME NEW n \in Intact, Restart(n)
      PROVE  \E w : Update(n, w) /\ Typed(n, w)
  <2>1. nom[n].last \in Nomination
    BY <1>1, Members, Zenon
  <2>2. QED
    BY <1>8, <2>1, NewTyped, Zenon DEF Restart
<1>9. \A m \in Intact : m \in Node /\ sent[m] \subseteq Nomination
  BY SlicesAssumption, Zenon DEF TInv
<1>10. FaultyNomination \subseteq Nomination
  BY NominationAssumption, Zenon
<1>11. QED
  BY <1>2, <1>3, <1>4, <1>5, <1>6, <1>7, <1>8, <1>9, <1>10, Zenon DEF Next

\* Every step keeps the types.
LEMMA NextTyped == TInv /\ [Next]_vars => TInv'
<1>1. ASSUME TInv, Next PROVE TInv'
  BY <1>1, StepTyped, UpdateTyped, Zenon
<1>2. ASSUME TInv, UNCHANGED vars PROVE TInv'
  BY <1>2, Zenon DEF TInv, Typed, vars
<1>3. QED
  BY <1>1, <1>2, Zenon

\* The members of every intact node's NominationProtocol have their types: a composite
\* is only made of candidates, updateRoundLeaders always finds a round, also when the
\* rounds wrap around, and a vote is a value.  And they are consistent (Consistent).
THEOREM StateConsistentHolds == Spec => []StateConsistent
<1>1. Spec => []TInv
  BY TypesInit, NextTyped, PTL DEF Spec
<1>2. TInv => TypeOK
  BY Zenon DEF TInv, TypeOK
<1>3. TypeOK /\ Consistent => StateConsistent
  BY Zenon DEF StateConsistent
<1>4. QED
  BY <1>1, <1>2, <1>3, ConsistentHolds, PTL
=============================================================================
