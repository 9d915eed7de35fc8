---------------------------- MODULE BallotProofs ----------------------------
(***************************************************************************)
(* What a node emits in the ballot protocol never goes back, and a node that   *)
(* heard from a quorum keeps hearing it, for every set of nodes, every quorum  *)
(* system, every set of values, any restarts and whatever the nodes that are   *)
(* not intact send.                                                           *)
(***************************************************************************)
EXTENDS BallotProtocol, FiniteSetTheorems, WellFoundedInduction, TLAPS

-----------------------------------------------------------------------------
(***************************************************************************)
(* Types.  They are wider than those of BallotProtocol: a node that accepted a *)
(* commit may say it accepted nothing as prepared, at counter 0, when nodes    *)
(* that are not intact made it do so.                                          *)
(***************************************************************************)
AnyCounter == 0 .. UINT32_MAX

AnyValue == Value \cup {NoValue}

AnyBallot == [counter : AnyCounter, value : AnyValue]

AnyStatement ==
    [type : {PREPARE, CONFIRM, EXTERNALIZE},
     ballot : AnyBallot, prepared : AnyBallot, preparedPrime : AnyBallot,
     nC : AnyCounter, nH : AnyCounter]

OptionalStatement == AnyStatement \cup {NoStatement}

AnyFrame ==
    [hint : AnyStatement, pc : 1 .. 5, work : BOOLEAN, kind : {"receive", "emit", "bump"}]

-----------------------------------------------------------------------------
(***************************************************************************)
(* Ballots.                                                                   *)
(***************************************************************************)

\* A set of numbers that is not empty has a least one.
LEMMA LeastNat ==
    ASSUME NEW S \in SUBSET Nat, S # {}
    PROVE  \E m \in S : \A n \in S : m <= n
<1>1. PICK d \in S : \A e \in S : ~ (<<e, d>> \in OpToRel(<, Nat))
  BY NatLessThanWellFounded, WFMin, Zenon
<1>2. \A e \in S : ~ (e < d)
  BY <1>1, Zenon DEF OpToRel
<1>3. QED
  BY <1>2, SMT

\* A bounded set of numbers that is not empty has a greatest one.
LEMMA GreatestNat ==
    ASSUME NEW S \in SUBSET Nat, S # {}, NEW b \in Nat, \A n \in S : n <= b
    PROVE  \E m \in S : \A n \in S : n <= m
<1> DEFINE D == {x \in Nat : b - x \in S}
<1>1. ASSUME NEW n \in S PROVE b - n \in D /\ b - (b - n) = n
  <2>1. b - n \in Nat /\ b - (b - n) = n
    BY SMT
  <2>2. QED
    BY <2>1, Zenon
<1>2. D \in SUBSET Nat /\ D # {}
  BY <1>1, Zenon
<1>3. \A x \in D : b - x \in S
  BY Zenon
<1> HIDE DEF D
<1>4. PICK d \in D : \A e \in D : d <= e
  BY <1>2, LeastNat, Zenon
<1>5. \A n \in S : n <= b - d
  BY <1>1, <1>2, <1>4, SMT
<1>6. QED
  BY <1>3, <1>4, <1>5, Zenon

\* Finitely many numbers are bounded.
LEMMA FiniteBounded ==
    ASSUME NEW S \in SUBSET Nat, IsFiniteSet(S)
    PROVE  \E b \in Nat : \A n \in S : n <= b
<1> DEFINE Bounded(T) == \E b \in Nat : \A n \in T : n <= b
           Bad == {k \in Nat : \E T \in SUBSET S : Cardinality(T) = k /\ ~ Bounded(T)}
<1>1. \A T \in SUBSET S : IsFiniteSet(T) /\ Cardinality(T) \in Nat
  BY FS_Subset, FS_CardinalityType, Zenon
<1>2. ASSUME Bad # {} PROVE FALSE
  <2>1. Bad \in SUBSET Nat
    BY Zenon
  <2>2. PICK m \in Bad : \A k \in Bad : m <= k
    <3> HIDE DEF Bad
    <3>1. QED
      BY <1>2, <2>1, LeastNat, Zenon
  <2>3. PICK T \in SUBSET S : Cardinality(T) = m /\ ~ Bounded(T)
    BY <2>2, Zenon
  <2>4. CASE T = {}
    <3>1. 0 \in Nat /\ \A n \in T : n <= 0
      BY <2>4, SMT
    <3>2. QED
      BY <3>1, <2>3, Zenon
  <2>5. CASE T # {}
    <3>1. PICK x \in T : TRUE
      BY <2>5, Zenon
    <3> DEFINE R == T \ {x}
    <3>2. R \in SUBSET S /\ Cardinality(R) = Cardinality(T) - 1 /\ Cardinality(R) \in Nat
      BY <1>1, <3>1, FS_RemoveElement, Zenon
    <3>3. ~ (m <= Cardinality(R))
      BY <2>1, <2>2, <2>3, <3>2, SMT
    <3>4. Bounded(R)
      BY <2>2, <3>2, <3>3, Zenon
    <3>5. PICK b \in Nat : \A n \in R : n <= b
      BY <3>4, Zenon
    <3>6. b + x \in Nat /\ \A n \in T : n <= b + x
      BY <3>5, SMT
    <3>7. QED
      BY <2>3, <3>6, Zenon
  <2>6. QED
    BY <2>4, <2>5, Zenon
<1>3. Bounded(S)
  BY <1>1, <1>2, Zenon
<1>4. QED
  BY <1>3, Zenon

\* The numbers a type is made of.
LEMMA Types ==
    /\ AnyCounter \subseteq Nat /\ AnyValue \subseteq Nat
    /\ NoValue \in AnyValue /\ 0 \in AnyCounter /\ UINT32_MAX \in AnyCounter
    /\ NullBallot \in AnyBallot
    /\ OptionalBallot \subseteq AnyBallot
    /\ OptionalCounter \subseteq AnyCounter
<1>1. /\ AnyCounter \subseteq Nat /\ 0 \in AnyCounter /\ UINT32_MAX \in AnyCounter
      /\ Counter \subseteq AnyCounter
  BY CounterAssumption, SMT DEF AnyCounter, Counter
<1>2. AnyValue \subseteq Nat /\ NoValue \in AnyValue
  BY ValueAssumption, SMT DEF AnyValue, NoValue
<1>3. NullBallot \in AnyBallot
  BY <1>1, <1>2, Zenon DEF NullBallot, AnyBallot
<1>4. Ballot \subseteq AnyBallot
  <2>1. ASSUME NEW x \in Ballot PROVE x \in AnyBallot
    <3>1. x.counter \in Counter \cup {UINT32_MAX} /\ x.value \in Value
          /\ x = [counter |-> x.counter, value |-> x.value]
      BY Zenon DEF Ballot
    <3>2. x.counter \in AnyCounter /\ x.value \in AnyValue
      BY <1>1, <3>1, Zenon DEF AnyValue
    <3>3. QED
      BY <3>1, <3>2, Zenon DEF AnyBallot
  <2>2. QED
    BY <2>1, Zenon
<1>5. QED
  BY <1>1, <1>2, <1>3, <1>4, Zenon DEF OptionalBallot, OptionalCounter

\* The counter and the value of a ballot are numbers.
LEMMA BallotParts ==
    ASSUME NEW x \in AnyBallot
    PROVE  /\ x.counter \in AnyCounter /\ x.value \in AnyValue
           /\ x.counter \in Nat /\ x.value \in Nat
           /\ x = [counter |-> x.counter, value |-> x.value]
<1>1. x.counter \in AnyCounter /\ x.value \in AnyValue
      /\ x = [counter |-> x.counter, value |-> x.value]
  BY Zenon DEF AnyBallot
<1>2. QED
  BY <1>1, Types, Zenon

\* Two ballots are the same when neither is less than the other.
LEMMA BallotOrder ==
    ASSUME NEW x \in AnyBallot, NEW y \in AnyBallot
    PROVE  /\ BallotLess(x, y) \/ x = y \/ BallotLess(y, x)
           /\ BallotLeq(x, y) <=> BallotLess(x, y) \/ x = y
           /\ ~ BallotLess(x, x)
<1>1. /\ x.counter \in Nat /\ x.value \in Nat /\ y.counter \in Nat /\ y.value \in Nat
      /\ x = y <=> x.counter = y.counter /\ x.value = y.value
  BY BallotParts, Zenon
<1>2. QED
  BY <1>1, SMT DEF BallotLess, BallotLeq

\* Finitely many ballots have a greatest one.
LEMMA MaxBallotRight ==
    ASSUME NEW S \in SUBSET AnyBallot, S # {}
    PROVE  MaxBallot(S) \in S /\ \A y \in S : BallotLeq(y, MaxBallot(S))
<1> DEFINE K == {x.counter : x \in S}
<1>1. K \in SUBSET Nat /\ K # {} /\ \A k \in K : k <= UINT32_MAX
  <2>1. \A x \in S : x.counter \in AnyCounter
    BY BallotParts, Zenon
  <2>2. \A k \in AnyCounter : k \in Nat /\ k <= UINT32_MAX
    BY CounterAssumption, SMT DEF AnyCounter
  <2>3. QED
    BY <2>1, <2>2, Zenon
<1>2. PICK k \in K : \A l \in K : l <= k
  <2> HIDE DEF K
  <2>1. QED
    BY <1>1, CounterAssumption, GreatestNat, Zenon
<1> DEFINE V == {x.value : x \in {y \in S : y.counter = k}}
<1>3. V \in SUBSET AnyValue /\ V # {}
  BY <1>2, BallotParts, Zenon
<1>4. PICK b \in Nat : \A v \in AnyValue : v <= b
  <2>1. IsFiniteSet(AnyValue)
    BY FiniteValues, FS_AddElement, Zenon DEF AnyValue
  <2>2. QED
    BY <2>1, Types, FiniteBounded, Zenon
<1>5. PICK v \in V : \A w \in V : w <= v
  <2> HIDE DEF V
  <2>1. V \in SUBSET Nat /\ \A w \in V : w <= b
    BY <1>3, <1>4, Types, Zenon
  <2>2. QED
    BY <1>3, <1>4, <2>1, GreatestNat, Zenon
<1>6. PICK x \in S : x.counter = k /\ x.value = v
  BY <1>5, Zenon
<1>7. ASSUME NEW y \in S PROVE BallotLeq(y, x)
  <2>1. y.counter \in K /\ (y.counter = k => y.value \in V)
    BY Zenon
  <2>2. y.counter <= k /\ (y.counter = k => y.value <= v)
    BY <2>1, <1>2, <1>5, Zenon
  <2>3. /\ y.counter \in Nat /\ y.value \in Nat /\ k \in Nat
    BY <1>6, BallotParts, Zenon
  <2>4. QED
    BY <1>6, <2>2, <2>3, SMT DEF BallotLeq
<1>8. QED
  BY <1>6, <1>7, Zenon DEF MaxBallot

\* Ballots have a least one.
LEMMA MinBallotRight ==
    ASSUME NEW S \in SUBSET AnyBallot, S # {}
    PROVE  MinBallot(S) \in S /\ \A y \in S : BallotLeq(MinBallot(S), y)
<1> DEFINE K == {x.counter : x \in S}
<1>1. K \in SUBSET Nat /\ K # {}
  BY BallotParts, Zenon
<1>2. PICK k \in K : \A l \in K : k <= l
  <2> HIDE DEF K
  <2>1. QED
    BY <1>1, LeastNat, Zenon
<1> DEFINE V == {x.value : x \in {y \in S : y.counter = k}}
<1>3. V \in SUBSET Nat /\ V # {}
  BY <1>2, BallotParts, Zenon
<1>4. PICK v \in V : \A w \in V : v <= w
  <2> HIDE DEF V
  <2>1. QED
    BY <1>3, LeastNat, Zenon
<1>5. PICK x \in S : x.counter = k /\ x.value = v
  BY <1>4, Zenon
<1>6. ASSUME NEW y \in S PROVE BallotLeq(x, y)
  <2>1. y.counter \in K /\ (y.counter = k => y.value \in V)
    BY Zenon
  <2>2. k <= y.counter /\ (y.counter = k => v <= y.value)
    BY <2>1, <1>2, <1>4, Zenon
  <2>3. /\ y.counter \in Nat /\ y.value \in Nat /\ k \in Nat
    BY <1>5, BallotParts, Zenon
  <2>4. QED
    BY <1>5, <2>2, <2>3, SMT DEF BallotLeq
<1>7. QED
  BY <1>5, <1>6, Zenon DEF MinBallot

-----------------------------------------------------------------------------
(***************************************************************************)
(* Statements.                                                                *)
(***************************************************************************)

\* The parts of a statement have their types.
LEMMA StatementParts ==
    ASSUME NEW st \in OptionalStatement
    PROVE  /\ st.type \in {NONE, PREPARE, CONFIRM, EXTERNALIZE} /\ st.type \in Int
           /\ st.type = NONE <=> st = NoStatement
           /\ st.ballot \in AnyBallot /\ st.prepared \in AnyBallot
           /\ st.preparedPrime \in AnyBallot
           /\ st.nC \in AnyCounter /\ st.nH \in AnyCounter /\ st.nC \in Nat /\ st.nH \in Nat
<1>1. CASE st \in AnyStatement
  <2>1. /\ st.type \in {PREPARE, CONFIRM, EXTERNALIZE}
        /\ st.ballot \in AnyBallot /\ st.prepared \in AnyBallot
        /\ st.preparedPrime \in AnyBallot
        /\ st.nC \in AnyCounter /\ st.nH \in AnyCounter
    BY <1>1, Zenon DEF AnyStatement
  <2>2. st.type \in Int /\ st.type # NONE
    BY <2>1, SMT DEF NONE, PREPARE, CONFIRM, EXTERNALIZE
  <2>3. NoStatement.type = NONE
    BY Zenon DEF NoStatement
  <2>4. QED
    BY <2>1, <2>2, <2>3, Types, Zenon
<1>2. CASE st = NoStatement
  <2>1. NONE \in Int
    BY SMT DEF NONE
  <2>2. QED
    BY <1>2, <2>1, Types, Zenon DEF NoStatement
<1>3. QED
  BY <1>1, <1>2, Zenon DEF OptionalStatement

\* The statements of the protocol are among them.
LEMMA StatementsTyped == Statement \subseteq AnyStatement
<1>2. ASSUME NEW st \in Statement PROVE st \in AnyStatement
  <2>1. /\ st.type \in {PREPARE, CONFIRM, EXTERNALIZE}
        /\ st.ballot \in OptionalBallot /\ st.prepared \in OptionalBallot
        /\ st.preparedPrime \in OptionalBallot
        /\ st.nC \in OptionalCounter /\ st.nH \in OptionalCounter
        /\ st = [type |-> st.type, ballot |-> st.ballot, prepared |-> st.prepared,
                 preparedPrime |-> st.preparedPrime, nC |-> st.nC, nH |-> st.nH]
    BY Zenon DEF Statement
  <2>2. /\ st.ballot \in AnyBallot /\ st.prepared \in AnyBallot
        /\ st.preparedPrime \in AnyBallot
        /\ st.nC \in AnyCounter /\ st.nH \in AnyCounter
    BY <2>1, Types, Zenon
  <2>3. QED
    BY <2>1, <2>2, Zenon DEF AnyStatement
<1>3. QED
  BY <1>2, Zenon

\* "Less" is transitive.
LEMMA LessTransitive ==
    ASSUME NEW x \in AnyBallot, NEW y \in AnyBallot, NEW z \in AnyBallot,
           BallotLess(x, y), BallotLess(y, z)
    PROVE  BallotLess(x, z)
<1>1. /\ x.counter \in Nat /\ x.value \in Nat /\ y.counter \in Nat /\ y.value \in Nat
      /\ z.counter \in Nat /\ z.value \in Nat
  BY BallotParts, Zenon
<1>2. QED
  BY <1>1, SMT DEF BallotLess

\* So is "newer".
LEMMA NewerTransitive ==
    ASSUME NEW st \in OptionalStatement, NEW su \in OptionalStatement, NEW sv \in OptionalStatement,
           isNewerStatement(st, su), isNewerStatement(su, sv)
    PROVE  isNewerStatement(st, sv)
<1>1. /\ st.type \in Int /\ su.type \in Int /\ sv.type \in Int
      /\ st.nH \in Nat /\ su.nH \in Nat /\ sv.nH \in Nat
  BY StatementParts, Zenon
<1>2. /\ st.ballot \in AnyBallot /\ su.ballot \in AnyBallot /\ sv.ballot \in AnyBallot
      /\ st.prepared \in AnyBallot /\ su.prepared \in AnyBallot /\ sv.prepared \in AnyBallot
      /\ st.preparedPrime \in AnyBallot /\ su.preparedPrime \in AnyBallot
      /\ sv.preparedPrime \in AnyBallot
  BY StatementParts, Zenon
<1>3. CASE st.type < su.type \/ su.type < sv.type
  <2>1. st.type <= su.type /\ su.type <= sv.type
    BY <1>1, SMT DEF isNewerStatement
  <2>2. st.type < sv.type
    BY <1>1, <1>3, <2>1, SMT
  <2>3. QED
    BY <2>2, Zenon DEF isNewerStatement
<1>4. CASE ~ (st.type < su.type \/ su.type < sv.type)
  <2>1. st.type = su.type /\ su.type = sv.type /\ sv.type # EXTERNALIZE
    BY <1>4, Zenon DEF isNewerStatement
  <2>2. CASE BallotLess(st.ballot, su.ballot) \/ BallotLess(su.ballot, sv.ballot)
    <3>1. BallotLess(st.ballot, sv.ballot)
      BY <1>2, <1>4, <2>2, LessTransitive, Zenon DEF isNewerStatement
    <3>2. QED
      BY <2>1, <3>1, Zenon DEF isNewerStatement
  <2>3. CASE ~ (BallotLess(st.ballot, su.ballot) \/ BallotLess(su.ballot, sv.ballot))
    <3>1. st.ballot = su.ballot /\ su.ballot = sv.ballot
      BY <1>4, <2>3, Zenon DEF isNewerStatement
    <3>2. CASE BallotLess(st.prepared, su.prepared) \/ BallotLess(su.prepared, sv.prepared)
      <4>1. BallotLess(st.prepared, sv.prepared)
        BY <1>2, <1>4, <2>3, <3>2, LessTransitive, Zenon DEF isNewerStatement
      <4>2. QED
        BY <2>1, <3>1, <4>1, Zenon DEF isNewerStatement
    <3>3. CASE ~ (BallotLess(st.prepared, su.prepared) \/ BallotLess(su.prepared, sv.prepared))
      <4>1. st.prepared = su.prepared /\ su.prepared = sv.prepared
        BY <1>4, <2>3, <3>3, Zenon DEF isNewerStatement
      <4>2. CASE BallotLess(st.preparedPrime, su.preparedPrime)
                    \/ BallotLess(su.preparedPrime, sv.preparedPrime)
        <5>1. BallotLess(st.preparedPrime, sv.preparedPrime)
          BY <1>2, <1>4, <2>3, <3>3, <4>2, LessTransitive, Zenon DEF isNewerStatement
        <5>2. QED
          BY <2>1, <3>1, <4>1, <5>1, Zenon DEF isNewerStatement
      <4>3. CASE ~ (BallotLess(st.preparedPrime, su.preparedPrime)
                    \/ BallotLess(su.preparedPrime, sv.preparedPrime))
        <5>1. /\ st.preparedPrime = su.preparedPrime /\ su.preparedPrime = sv.preparedPrime
              /\ st.nH < su.nH /\ su.nH < sv.nH
          BY <1>4, <2>3, <3>3, <4>3, Zenon DEF isNewerStatement
        <5>2. st.nH < sv.nH
          BY <1>1, <5>1, SMT
        <5>3. QED
          BY <2>1, <3>1, <4>1, <5>1, <5>2, Zenon DEF isNewerStatement
      <4>4. QED
        BY <4>2, <4>3, Zenon
    <3>4. QED
      BY <3>2, <3>3, Zenon
  <2>4. QED
    BY <2>2, <2>3, Zenon
<1>5. QED
  BY <1>3, <1>4, Zenon

\* A newer statement is one, and counts in every quorum that its predecessor counted
\* in at counter k.
LEMMA NewerCounts ==
    ASSUME NEW st \in OptionalStatement, NEW su \in OptionalStatement,
           isNewerStatement(st, su), NEW k \in Nat
    PROVE  /\ su # NoStatement
           /\ st.type = EXTERNALIZE => su.type = EXTERNALIZE
           /\ /\ st # NoStatement
              /\ st.type = PREPARE => k <= st.ballot.counter
              => (su.type = PREPARE => k <= su.ballot.counter)
<1>1. /\ st.type \in {NONE, PREPARE, CONFIRM, EXTERNALIZE}
      /\ su.type \in {NONE, PREPARE, CONFIRM, EXTERNALIZE}
      /\ st.type = NONE <=> st = NoStatement
      /\ su.type = NONE <=> su = NoStatement
      /\ st.ballot \in AnyBallot /\ su.ballot \in AnyBallot
  BY StatementParts, Zenon
<1>2. st.ballot.counter \in Nat /\ su.ballot.counter \in Nat
  BY <1>1, BallotParts, Zenon
<1>3. st.type < su.type \/ (st.type = su.type /\ su.type # EXTERNALIZE)
  BY Zenon DEF isNewerStatement
<1>4. st.type = su.type => st.ballot.counter <= su.ballot.counter
  <2> SUFFICES ASSUME st.type = su.type PROVE st.ballot.counter <= su.ballot.counter
    BY Zenon
  <2>1. ~ (st.type < su.type)
    BY StatementParts, SMT
  <2>2. BallotLess(st.ballot, su.ballot) \/ st.ballot = su.ballot
    BY <2>1, Zenon DEF isNewerStatement
  <2>3. QED
    BY <1>2, <2>2, SMT DEF BallotLess
<1>5. CASE st.type < su.type
  <2>1. su.type # NONE /\ st.type # EXTERNALIZE /\ (su.type = PREPARE => st.type = NONE)
    BY <1>1, <1>5, SMT DEF NONE, PREPARE, CONFIRM, EXTERNALIZE
  <2>2. QED
    BY <1>1, <2>1, Zenon
<1>6. CASE st.type = su.type /\ su.type # EXTERNALIZE
  <2>1. su # NoStatement
    <3> SUFFICES ASSUME su = NoStatement PROVE FALSE
      BY Zenon
    <3>1. st = NoStatement
      BY <1>1, <1>6, Zenon
    <3>2. isNewerStatement(NoStatement, NoStatement)
      BY <3>1, Zenon
    <3>3. /\ NullBallot \in AnyBallot /\ ~ BallotLess(NullBallot, NullBallot)
          /\ NoStatement.ballot = NullBallot /\ NoStatement.prepared = NullBallot
          /\ NoStatement.preparedPrime = NullBallot /\ NoStatement.nH = 0
      BY Types, BallotOrder, Zenon DEF NoStatement
    <3>4. ~ (0 < 0) /\ ~ (NoStatement.type < NoStatement.type)
      BY SMT DEF NoStatement, NONE
    <3>5. QED
      BY <3>2, <3>3, <3>4, Zenon DEF isNewerStatement
  <2>2. QED
    BY <1>2, <1>4, <1>6, <2>1, SMT
<1>7. QED
  BY <1>3, <1>5, <1>6, Zenon

-----------------------------------------------------------------------------
(***************************************************************************)
(* Objects.                                                                   *)
(***************************************************************************)
Fields ==
    {"phase", "b", "p", "pp", "h", "c", "override", "latest", "last", "emit", "heard",
     "timer", "valid", "composite", "stack", "threw", "said"}

FieldType ==
    [phase |-> {PREPARE, CONFIRM, EXTERNALIZE},
     b |-> AnyBallot, p |-> AnyBallot, pp |-> AnyBallot, h |-> AnyBallot, c |-> AnyBallot,
     override |-> AnyValue, composite |-> AnyValue,
     latest |-> [Node -> OptionalStatement],
     last |-> OptionalStatement, emit |-> OptionalStatement,
     heard |-> BOOLEAN, stack |-> Seq(AnyFrame)]

\* The members whose values do not matter here.
Untyped == {"timer", "valid", "threw", "said"}

IsObject(s) ==
    /\ DOMAIN s = Fields
    /\ \A f \in DOMAIN FieldType : s[f] \in FieldType[f]

\* What the members of an object are.
LEMMA ObjectParts ==
    ASSUME NEW s, IsObject(s)
    PROVE  /\ DOMAIN s = Fields
           /\ s.phase \in {PREPARE, CONFIRM, EXTERNALIZE}
           /\ s.b \in AnyBallot /\ s.p \in AnyBallot /\ s.pp \in AnyBallot
           /\ s.h \in AnyBallot /\ s.c \in AnyBallot
           /\ s.override \in AnyValue /\ s.composite \in AnyValue
           /\ s.latest \in [Node -> OptionalStatement]
           /\ s.last \in OptionalStatement /\ s.emit \in OptionalStatement
           /\ s.heard \in BOOLEAN /\ s.stack \in Seq(AnyFrame)
BY Zenon DEF IsObject, FieldType

\* The type of every member that has one.
LEMMA FieldTypes ==
    /\ FieldType.phase = {PREPARE, CONFIRM, EXTERNALIZE}
    /\ FieldType.b = AnyBallot /\ FieldType.p = AnyBallot /\ FieldType.pp = AnyBallot
    /\ FieldType.h = AnyBallot /\ FieldType.c = AnyBallot
    /\ FieldType.override = AnyValue /\ FieldType.composite = AnyValue
    /\ FieldType.latest = [Node -> OptionalStatement]
    /\ FieldType.last = OptionalStatement /\ FieldType.emit = OptionalStatement
    /\ FieldType.heard = BOOLEAN /\ FieldType.stack = Seq(AnyFrame)
    /\ DOMAIN FieldType = Fields \ Untyped
BY Zenon DEF FieldType, Fields, Untyped

\* t differs from s at most in the members F.
Changes(s, t, F) == DOMAIN t = Fields /\ \A f \in Fields \ F : t[f] = s[f]

\* It is an object if those have their types.
LEMMA ObjectChanged ==
    ASSUME NEW s, IsObject(s), NEW t, NEW F, Changes(s, t, F),
           \A f \in F \ Untyped : t[f] \in FieldType[f]
    PROVE  IsObject(t)
BY FieldTypes, Zenon DEF IsObject, Changes

\* What a transition of advanceSlot, or a bump, leaves alone; mHeardFromQuorum is
\* cleared when the counter changes.
Moves(s, t) ==
    /\ IsObject(t)
    /\ t.latest = s.latest /\ t.last = s.last /\ t.emit = s.emit /\ t.stack = s.stack
    /\ t.heard = (s.heard /\ t.b.counter = s.b.counter)

\* Staying put is a move.
LEMMA MovesSelf ==
    ASSUME NEW s, IsObject(s)
    PROVE  Moves(s, s)
<1>1. s.heard \in BOOLEAN
  BY ObjectParts, Zenon
<1>2. QED
  BY <1>1, Zenon DEF Moves

\* A move that leaves the ballot alone.
LEMMA MovesAside ==
    ASSUME NEW s, IsObject(s), NEW t,
           Changes(s, t, {"phase", "p", "pp", "h", "c", "override"}),
           t.phase \in {PREPARE, CONFIRM, EXTERNALIZE},
           t.p \in AnyBallot, t.pp \in AnyBallot, t.h \in AnyBallot, t.c \in AnyBallot,
           t.override \in AnyValue
    PROVE  Moves(s, t) /\ t.b = s.b
<1> DEFINE F == {"phase", "p", "pp", "h", "c", "override"}
<1>1. \A f \in F : t[f] \in FieldType[f]
  BY FieldTypes, Zenon
<1>2. Changes(s, t, F)
  BY Zenon
<1>3. /\ t.latest = s.latest /\ t.last = s.last /\ t.emit = s.emit /\ t.stack = s.stack
      /\ t.heard = s.heard /\ t.b = s.b
  BY <1>2, Zenon DEF Changes, Fields
<1>4. s.heard \in BOOLEAN
  BY ObjectParts, Zenon
<1> HIDE DEF F
<1>5. IsObject(t)
  BY <1>1, <1>2, ObjectChanged, Zenon
<1>6. QED
  BY <1>3, <1>4, <1>5, Zenon DEF Moves

\* bumpToBallot moves to the ballot.
LEMMA BumpTo ==
    ASSUME NEW s, IsObject(s), NEW x \in AnyBallot
    PROVE  LET t == bumpToBallot(s, x)
           IN  Moves(s, t) /\ t.b = x /\ t.phase = s.phase /\ t.override = s.override
<1> DEFINE t == bumpToBallot(s, x)
           F == {"b", "h", "c", "heard"}
<1>1. /\ DOMAIN s = Fields /\ s.h \in AnyBallot /\ s.c \in AnyBallot /\ s.heard \in BOOLEAN
      /\ NullBallot \in AnyBallot
  BY ObjectParts, Types, Zenon
<1>2. /\ Changes(s, t, F)
      /\ t.b = x /\ t.h \in {s.h, NullBallot} /\ t.c \in {s.c, NullBallot}
      /\ t.heard = (s.heard /\ s.b.counter = x.counter)
  BY <1>1, Zenon DEF bumpToBallot, Fields, Changes
<1> HIDE DEF t
<1>3. \A f \in F : t[f] \in FieldType[f]
  BY <1>1, <1>2, FieldTypes, Zenon
<1>4. /\ t.latest = s.latest /\ t.last = s.last /\ t.emit = s.emit /\ t.stack = s.stack
      /\ t.phase = s.phase /\ t.override = s.override
  BY <1>2, Zenon DEF Fields, Changes
<1>5. IsObject(t)
  <2> HIDE DEF F
  <2>1. QED
    BY <1>2, <1>3, ObjectChanged, Zenon
<1>6. t.heard = (s.heard /\ t.b.counter = s.b.counter)
  BY <1>2, Zenon
<1>7. QED
  BY <1>2, <1>4, <1>5, <1>6, Zenon DEF Moves, t

\* updateCurrentIfNeeded moves to a higher ballot.
LEMMA IfNeeded ==
    ASSUME NEW s, IsObject(s), NEW x \in AnyBallot
    PROVE  LET t == updateCurrentIfNeeded(s, x)
           IN  Moves(s, t) /\ t.phase = s.phase /\ t.override = s.override
BY BumpTo, MovesSelf, Zenon DEF updateCurrentIfNeeded

\* So does bumpState(value, n), with the value that overrides it.
LEMMA BumpStateTo ==
    ASSUME NEW s, IsObject(s), NEW v \in AnyValue, NEW k \in AnyCounter
    PROVE  Moves(s, bumpStateTo(s, v, k))
<1> DEFINE x == [counter |-> k, value |-> IF s.override # NoValue THEN s.override ELSE v]
<1>1. x \in AnyBallot
  BY ObjectParts, Zenon DEF AnyBallot
<1>2. bumpStateTo(s, v, k) = updateCurrentValue(s, x)
  BY Zenon DEF bumpStateTo
<1> HIDE DEF x
<1>3. QED
  BY <1>1, <1>2, BumpTo, MovesSelf, Zenon DEF updateCurrentValue

\* The next counter, 32 bits wide, is a counter.
LEMMA NextCounter ==
    ASSUME NEW k \in AnyCounter
    PROVE  (k + 1) % (UINT32_MAX + 1) \in AnyCounter
BY CounterAssumption, SMT DEF AnyCounter

\* So does bumpState(value, force).
LEMMA BumpState ==
    ASSUME NEW s, IsObject(s), NEW v \in AnyValue, NEW force
    PROVE  Moves(s, bumpState(s, v, force))
<1>1. s.b.counter \in AnyCounter
  BY ObjectParts, BallotParts, Zenon
<1>2. (s.b.counter + 1) % (UINT32_MAX + 1) \in AnyCounter
  BY <1>1, NextCounter, Zenon
<1>3. QED
  BY <1>2, BumpStateTo, MovesSelf, Zenon DEF bumpState

\* And abandonBallot.
LEMMA AbandonBallot ==
    ASSUME NEW s, IsObject(s), NEW k \in AnyCounter
    PROVE  Moves(s, abandonBallot(s, k))
<1> DEFINE v == IF s.composite # NoValue THEN s.composite ELSE s.b.value
<1>1. v \in AnyValue
  BY ObjectParts, BallotParts, Zenon
<1>2. abandonBallot(s, k) \in {s, bumpState(s, v, TRUE), bumpStateTo(s, v, k)}
  <2> HIDE DEF v
  <2>1. CASE v = NoValue
    BY <2>1, Zenon DEF abandonBallot, v
  <2>2. CASE v # NoValue /\ k = 0
    BY <2>2, Zenon DEF abandonBallot, v
  <2>3. CASE v # NoValue /\ k # 0
    BY <2>3, Zenon DEF abandonBallot, v
  <2>4. QED
    BY <2>1, <2>2, <2>3, Zenon
<1> HIDE DEF v
<1>3. QED
  BY <1>1, <1>2, BumpState, BumpStateTo, MovesSelf, Zenon

\* A move after one that left the ballot alone.
LEMMA MovesThen ==
    ASSUME NEW s, NEW t, NEW u, Moves(s, t), t.b = s.b, Moves(t, u), s.heard \in BOOLEAN
    PROVE  Moves(s, u)
BY Zenon DEF Moves

-----------------------------------------------------------------------------
(***************************************************************************)
(* The attempts of advanceSlot are moves.                                     *)
(***************************************************************************)

\* The candidates of getPrepareCandidates are ballots.
LEMMA Candidates ==
    ASSUME NEW s, IsObject(s), NEW hint \in AnyStatement
    PROVE  getPrepareCandidates(s, hint) \in SUBSET AnyBallot
<1>1. ASSUME NEW st \in OptionalStatement
      PROVE  PreparedBallots(st) \subseteq AnyBallot /\ st.ballot \in AnyBallot
  BY StatementParts, Zenon DEF PreparedBallots
<1>2. hint \in OptionalStatement
  BY Zenon DEF OptionalStatement
<1>3. [counter |-> UINT32_MAX, value |-> hint.ballot.value] \in AnyBallot
  BY <1>1, <1>2, Types, BallotParts, Zenon DEF AnyBallot
<1>4. hintBallots(hint) \subseteq AnyBallot
  BY <1>1, <1>2, <1>3, Zenon DEF hintBallots
<1>5. ASSUME NEW x \in AnyBallot, NEW m \in Node
      PROVE  candidatesUpTo(x, s.latest[m]) \subseteq AnyBallot
  <2>1. s.latest[m] \in OptionalStatement
    BY ObjectParts, Zenon
  <2>2. QED
    BY <2>1, <1>1, Zenon DEF candidatesUpTo
<1>6. ASSUME NEW y \in getPrepareCandidates(s, hint)
      PROVE  y \in AnyBallot
  <2>1. PICK x \in hintBallots(hint), m \in HeardFrom(s) : y \in candidatesUpTo(x, s.latest[m])
    BY <1>6, SMT DEF getPrepareCandidates
  <2>2. x \in AnyBallot /\ m \in Node
    BY <1>4, <2>1, Zenon DEF HeardFrom
  <2>3. QED
    BY <1>5, <2>1, <2>2, Zenon
<1>7. QED
  BY <1>6, Zenon

\* t differs from s in p and p' at most.
OtherPrepared(s, t) ==
    Changes(s, t, {"p", "pp"}) /\ t.p \in AnyBallot /\ t.pp \in AnyBallot

\* That is what setPrepared does.
LEMMA SetPrepared ==
    ASSUME NEW s, IsObject(s), NEW x \in AnyBallot
    PROVE  OtherPrepared(s, setPrepared(s, x))
<1>1. DOMAIN s = Fields /\ s.p \in AnyBallot /\ s.pp \in AnyBallot
  BY ObjectParts, Zenon
<1>2. setPrepared(s, x) \in
        {s, [s EXCEPT !.p = x], [s EXCEPT !.pp = x],
         [s EXCEPT !.p = x, !.pp = IF areBallotsCompatible(s.p, x) THEN @ ELSE s.p]}
  <2>1. CASE s.p = NullBallot
    BY <2>1, Zenon DEF setPrepared
  <2>2. CASE s.p # NullBallot /\ BallotLess(s.p, x)
    BY <2>2, Zenon DEF setPrepared
  <2>3. CASE s.p # NullBallot /\ ~ BallotLess(s.p, x)
    BY <2>3, Zenon DEF setPrepared
  <2>4. QED
    BY <2>1, <2>2, <2>3, Zenon
<1>3. OtherPrepared(s, s)
  BY <1>1, Zenon DEF Changes, OtherPrepared
<1>4. OtherPrepared(s, [s EXCEPT !.p = x])
  BY <1>1, Zenon DEF Changes, Fields, OtherPrepared
<1>5. OtherPrepared(s, [s EXCEPT !.pp = x])
  BY <1>1, Zenon DEF Changes, Fields, OtherPrepared
<1>6. OtherPrepared(s, [s EXCEPT !.p = x,
                                 !.pp = IF areBallotsCompatible(s.p, x) THEN @ ELSE s.p])
  BY <1>1, Zenon DEF Changes, Fields, OtherPrepared
<1>7. QED
  BY <1>2, <1>3, <1>4, <1>5, <1>6, Zenon

\* setAcceptPrepared leaves the ballot alone.
LEMMA SetAcceptPrepared ==
    ASSUME NEW s, IsObject(s), NEW x \in AnyBallot
    PROVE  Moves(s, setAcceptPrepared(s, x)) /\ setAcceptPrepared(s, x).b = s.b
<1> DEFINE t == setPrepared(s, x)
           F == {"phase", "p", "pp", "h", "c", "override"}
           Good(w) == /\ Changes(s, w, F)
                      /\ w.phase \in {PREPARE, CONFIRM, EXTERNALIZE}
                      /\ w.p \in AnyBallot /\ w.pp \in AnyBallot
                      /\ w.h \in AnyBallot /\ w.c \in AnyBallot /\ w.override \in AnyValue
<1>1. setAcceptPrepared(s, x) \in {t, [t EXCEPT !.c = NullBallot]}
  BY Zenon DEF setAcceptPrepared
<1>2. OtherPrepared(s, t)
  BY SetPrepared, Zenon
<1>3. /\ s.phase \in {PREPARE, CONFIRM, EXTERNALIZE} /\ s.h \in AnyBallot /\ s.c \in AnyBallot
      /\ s.override \in AnyValue /\ NullBallot \in AnyBallot
  BY ObjectParts, Types, Zenon
<1> HIDE DEF t
<1>4. Good(t)
  BY <1>2, <1>3, Zenon DEF OtherPrepared, Changes, Fields
<1>5. Good([t EXCEPT !.c = NullBallot])
  BY <1>2, <1>3, Zenon DEF OtherPrepared, Changes, Fields
<1>6. \A w : Good(w) => Moves(s, w) /\ w.b = s.b
  BY MovesAside, Zenon
<1> HIDE DEF Good
<1>7. QED
  BY <1>1, <1>4, <1>5, <1>6, Zenon

\* The first attempt.
LEMMA AcceptPrepared ==
    ASSUME NEW n, NEW s, IsObject(s), NEW hint \in AnyStatement
    PROVE  Moves(s, attemptAcceptPrepared(n, s, hint))
<1> DEFINE A == {x \in getPrepareCandidates(s, hint) :
                /\ s.phase = CONFIRM => areBallotsLessAndCompatible(s.p, x)
                /\ s.pp # NullBallot => BallotLess(s.pp, x)
                /\ s.p # NullBallot => ~ areBallotsLessAndCompatible(x, s.p)
                /\ federatedAccept(n, s, {m \in HeardFrom(s) : votesPrepare(x, s.latest[m])},
                                         {m \in HeardFrom(s) : hasPreparedBallot(x, s.latest[m])})}
<1>1. A \subseteq getPrepareCandidates(s, hint)
  BY Zenon
<1>2. \/ attemptAcceptPrepared(n, s, hint) = s
      \/ A # {} /\ attemptAcceptPrepared(n, s, hint) = setAcceptPrepared(s, MaxBallot(A))
  BY Zenon DEF attemptAcceptPrepared
<1> HIDE DEF A
<1>3. CASE attemptAcceptPrepared(n, s, hint) = s
  BY <1>3, MovesSelf, Zenon
<1>4. CASE A # {} /\ attemptAcceptPrepared(n, s, hint) = setAcceptPrepared(s, MaxBallot(A))
  <2>1. A \in SUBSET AnyBallot
    BY <1>1, Candidates, Zenon
  <2>2. MaxBallot(A) \in AnyBallot
    BY <1>4, <2>1, MaxBallotRight, Zenon
  <2>3. QED
    BY <1>4, <2>2, SetAcceptPrepared, Zenon
<1>5. QED
  BY <1>2, <1>3, <1>4, Zenon

\* setConfirmPrepared bumps once.
LEMMA SetConfirmPrepared ==
    ASSUME NEW s, IsObject(s), NEW x \in AnyBallot, NEW y \in AnyBallot
    PROVE  Moves(s, setConfirmPrepared(s, x, y))
<1> DEFINE t == [s EXCEPT !.override = y.value]
           u == IF s.b = NullBallot \/ areBallotsCompatible(s.b, y)
                  THEN [t EXCEPT !.h = IF BallotLess(@, y) THEN y ELSE @,
                                 !.c = IF x = NullBallot THEN @ ELSE x]
                  ELSE t
           F == {"phase", "p", "pp", "h", "c", "override"}
           Good(w) == /\ Changes(s, w, F)
                      /\ w.phase \in {PREPARE, CONFIRM, EXTERNALIZE}
                      /\ w.p \in AnyBallot /\ w.pp \in AnyBallot
                      /\ w.h \in AnyBallot /\ w.c \in AnyBallot /\ w.override \in AnyValue
<1>1. setConfirmPrepared(s, x, y) = updateCurrentIfNeeded(u, y)
  BY Zenon DEF setConfirmPrepared
<1>2. /\ s.phase \in {PREPARE, CONFIRM, EXTERNALIZE} /\ s.p \in AnyBallot /\ s.pp \in AnyBallot
      /\ s.h \in AnyBallot /\ s.c \in AnyBallot
      /\ y.value \in AnyValue /\ DOMAIN s = Fields /\ s.heard \in BOOLEAN
  BY ObjectParts, BallotParts, Zenon
<1>3. Good(t)
  BY <1>2, Zenon DEF Changes, Fields
<1>4. u = t \/ \E g \in {s.h, y}, d \in {s.c, x} : u = [t EXCEPT !.h = g, !.c = d]
  <2>1. t.h = s.h /\ t.c = s.c
    BY <1>2, Zenon DEF Fields
  <2> HIDE DEF t
  <2>2. QED
    BY <2>1, Zenon
<1>5. ASSUME NEW g \in AnyBallot, NEW d \in AnyBallot
      PROVE  Good([t EXCEPT !.h = g, !.c = d])
  <2> HIDE DEF t
  <2>1. QED
    BY <1>3, Zenon DEF Changes, Fields
<1>6. \A w : Good(w) => Moves(s, w) /\ w.b = s.b
  BY MovesAside, Zenon
<1> HIDE DEF Good, t, u
<1>7. Moves(s, u) /\ u.b = s.b
  BY <1>2, <1>3, <1>4, <1>5, <1>6, Zenon
<1>8. Moves(u, updateCurrentIfNeeded(u, y))
  BY <1>7, IfNeeded, Zenon DEF Moves
<1>9. QED
  BY <1>1, <1>2, <1>7, <1>8, MovesThen, Zenon

\* The second attempt.
LEMMA ConfirmPrepared ==
    ASSUME NEW n, NEW s, IsObject(s), NEW hint \in AnyStatement
    PROVE  Moves(s, attemptConfirmPrepared(n, s, hint))
<1> DEFINE candidates == getPrepareCandidates(s, hint)
           ratified(x) == federatedRatify(n, s, {m \in HeardFrom(s) : hasPreparedBallot(x, s.latest[m])})
           confirmed == {x \in candidates : BallotLess(s.h, x) /\ ratified(x)}
           newH == MaxBallot(confirmed)
           commits == {x \in candidates :
                         /\ BallotLeq(s.b, x)
                         /\ areBallotsLessAndCompatible(x, newH)
                         /\ \A y \in candidates :
                               /\ BallotLeq(x, y)
                               /\ areBallotsLessAndCompatible(y, newH)
                               => ratified(y)}
<1>1. candidates \in SUBSET AnyBallot
  BY Candidates, Zenon
<1>2. confirmed \in SUBSET AnyBallot /\ commits \in SUBSET AnyBallot
  BY <1>1, Zenon
<1>3. \/ attemptConfirmPrepared(n, s, hint) = s
      \/ /\ confirmed # {}
         /\ \/ attemptConfirmPrepared(n, s, hint) = setConfirmPrepared(s, NullBallot, newH)
            \/ /\ commits # {}
               /\ attemptConfirmPrepared(n, s, hint) = setConfirmPrepared(s, MinBallot(commits), newH)
  BY Zenon DEF attemptConfirmPrepared
<1>4. confirmed # {} => newH \in AnyBallot
  <2> HIDE DEF confirmed
  <2>1. QED
    BY <1>2, MaxBallotRight, Zenon
<1>5. commits # {} => MinBallot(commits) \in AnyBallot
  <2> HIDE DEF commits
  <2>1. QED
    BY <1>2, MinBallotRight, Zenon
<1> HIDE DEF confirmed, commits, newH
<1>6. QED
  BY <1>3, <1>4, <1>5, Types, MovesSelf, SetConfirmPrepared, Zenon

\* The boundaries of getCommitBoundariesFromStatements are counters.
LEMMA Boundaries ==
    ASSUME NEW s, IsObject(s), NEW v
    PROVE  getCommitBoundariesFromStatements(s, v) \in SUBSET AnyCounter
<1>1. ASSUME NEW st \in OptionalStatement PROVE boundariesOf(v, st) \subseteq AnyCounter
  BY StatementParts, Types, Zenon DEF boundariesOf
<1>2. \A m \in HeardFrom(s) : s.latest[m] \in OptionalStatement
  BY ObjectParts, Zenon DEF HeardFrom
<1>3. QED
  BY <1>1, <1>2, Zenon DEF getCommitBoundariesFromStatements

\* Counters have a least and a greatest one.
LEMMA MinMaxCounter ==
    ASSUME NEW S \in SUBSET AnyCounter, S # {}
    PROVE  Min(S) \in S /\ Max(S) \in S
<1>1. S \in SUBSET Nat /\ \A k \in S : k <= UINT32_MAX
  BY CounterAssumption, SMT DEF AnyCounter
<1>2. UINT32_MAX \in Nat
  BY CounterAssumption, Zenon
<1>3. PICK x \in S : \A y \in S : x <= y
  BY <1>1, LeastNat, Zenon
<1>4. PICK z \in S : \A y \in S : y <= z
  BY <1>1, <1>2, GreatestNat, Zenon
<1>5. \A y \in S : z >= y
  BY <1>1, <1>4, SMT
<1>6. QED
  BY <1>3, <1>5, Zenon DEF Min, Max

\* The interval of findExtendedInterval lies between counters.
LEMMA Interval ==
    ASSUME NEW S \in SUBSET AnyCounter, NEW good
    PROVE  LET i == findExtendedInterval(S, good) IN i[1] \in AnyCounter /\ i[2] \in AnyCounter
<1> DEFINE tops == {k \in S : k # 0 /\ <<k, k>> \in good}
           hi == Max(tops)
           los == {k \in S : /\ k <= hi
                             /\ \A l \in S : k <= l /\ l <= hi => <<l, hi>> \in good}
<1>1. findExtendedInterval(S, good) = IF tops = {} THEN <<0, 0>> ELSE <<Min(los), hi>>
  BY Zenon DEF findExtendedInterval
<1>2. tops \in SUBSET AnyCounter /\ los \in SUBSET AnyCounter
  BY Zenon
<1>3. CASE tops = {}
  BY <1>1, <1>3, Types, SMT
<1>4. CASE tops # {}
  <2>1. hi \in tops
    <3> HIDE DEF tops
    <3>1. QED
      BY <1>2, <1>4, MinMaxCounter, Zenon
  <2>2. hi \in S /\ hi \in Nat /\ <<hi, hi>> \in good
    <3> HIDE DEF hi
    <3>1. QED
      BY <2>1, Types, Zenon
  <2>3. los # {}
    <3> HIDE DEF hi
    <3>1. hi <= hi /\ \A l \in S : hi <= l /\ l <= hi => l = hi
      BY <2>2, Types, SMT
    <3>2. hi \in los
      BY <2>2, <3>1, Zenon
    <3>3. QED
      BY <3>2, Zenon
  <2> HIDE DEF los, hi
  <2>4. Min(los) \in AnyCounter /\ hi \in AnyCounter
    BY <1>2, <2>2, <2>3, MinMaxCounter, Zenon
  <2>5. findExtendedInterval(S, good) = <<Min(los), hi>>
    BY <1>1, <1>4, Zenon
  <2>6. <<Min(los), hi>>[1] = Min(los) /\ <<Min(los), hi>>[2] = hi
    BY SMT
  <2>7. QED
    BY <2>4, <2>5, <2>6, Zenon
<1>5. QED
  BY <1>3, <1>4, Zenon

\* setAcceptCommit bumps once: after a bump to h it needs no other.
LEMMA SetAcceptCommit ==
    ASSUME NEW s, IsObject(s), NEW x \in AnyBallot, NEW y \in AnyBallot
    PROVE  Moves(s, setAcceptCommit(s, x, y))
<1> DEFINE t == [s EXCEPT !.override = y.value, !.c = x, !.h = y]
           F == {"phase", "p", "pp", "h", "c", "override"}
           Good(v, w) == /\ Changes(v, w, F)
                         /\ w.phase \in {PREPARE, CONFIRM, EXTERNALIZE}
                         /\ w.p \in AnyBallot /\ w.pp \in AnyBallot
                         /\ w.h \in AnyBallot /\ w.c \in AnyBallot /\ w.override \in AnyValue
           confirm(w) == [w EXCEPT !.phase = CONFIRM, !.pp = NullBallot]
<1>1. /\ s.phase \in {PREPARE, CONFIRM, EXTERNALIZE} /\ s.p \in AnyBallot /\ s.pp \in AnyBallot
      /\ y.value \in AnyValue /\ DOMAIN s = Fields /\ s.heard \in BOOLEAN
      /\ NullBallot \in AnyBallot
  BY ObjectParts, BallotParts, Types, Zenon
<1>2. setAcceptCommit(s, x, y) \in
        {updateCurrentIfNeeded(t, y), updateCurrentIfNeeded(confirm(t), y),
         updateCurrentIfNeeded(confirm(bumpToBallot(t, y)), y)}
  BY Zenon DEF setAcceptCommit
<1>3. Good(s, t)
  BY <1>1, Zenon DEF Changes, Fields
<1>4. \A v, w : IsObject(v) /\ Good(v, w) => Moves(v, w) /\ w.b = v.b
  BY MovesAside, Zenon
<1>5. ASSUME NEW w, IsObject(w) PROVE Good(w, confirm(w))
  <2>1. /\ DOMAIN w = Fields /\ w.p \in AnyBallot /\ w.h \in AnyBallot /\ w.c \in AnyBallot
        /\ w.override \in AnyValue
    BY <1>5, ObjectParts, Zenon
  <2>2. QED
    BY <1>1, <2>1, Zenon DEF Changes, Fields
<1> HIDE DEF Good, t, confirm
<1>6. Moves(s, t) /\ t.b = s.b /\ IsObject(t)
  BY <1>3, <1>4, Zenon DEF Moves
<1>7. Moves(s, updateCurrentIfNeeded(t, y))
  BY <1>1, <1>6, IfNeeded, MovesThen, Zenon
<1>8. Moves(s, updateCurrentIfNeeded(confirm(t), y))
  <2>1. Moves(t, confirm(t)) /\ confirm(t).b = t.b
    BY <1>4, <1>5, <1>6, Zenon
  <2>2. Moves(s, confirm(t)) /\ confirm(t).b = s.b /\ IsObject(confirm(t))
    BY <1>1, <1>6, <2>1, MovesThen, Zenon DEF Moves
  <2>3. QED
    BY <1>1, <2>2, IfNeeded, MovesThen, Zenon
<1>9. Moves(s, updateCurrentIfNeeded(confirm(bumpToBallot(t, y)), y))
  <2> DEFINE u == bumpToBallot(t, y)
  <2>1. Moves(t, u) /\ u.b = y
    BY <1>6, BumpTo, Zenon
  <2>2. Moves(s, u) /\ IsObject(u)
    BY <1>1, <1>6, <2>1, MovesThen, Zenon DEF Moves
  <2> HIDE DEF u
  <2>3. Moves(u, confirm(u)) /\ confirm(u).b = u.b
    BY <1>4, <1>5, <2>2, Zenon
  <2>4. Moves(s, confirm(u))
    <3>1. u.heard \in BOOLEAN
      BY <2>2, ObjectParts, Zenon
    <3>2. QED
      BY <2>2, <2>3, <3>1, Zenon DEF Moves
  <2>5. updateCurrentIfNeeded(confirm(u), y) = confirm(u)
    BY <2>1, <2>3, BallotOrder, Zenon DEF updateCurrentIfNeeded
  <2>6. QED
    BY <2>4, <2>5, Zenon DEF u
<1>10. QED
  BY <1>2, <1>7, <1>8, <1>9, Zenon

\* setConfirmCommit is a move.
LEMMA SetConfirmCommit ==
    ASSUME NEW s, IsObject(s), NEW x \in AnyBallot, NEW y \in AnyBallot
    PROVE  Moves(s, setConfirmCommit(s, x, y))
<1> DEFINE t == [s EXCEPT !.c = x, !.h = y]
           u == updateCurrentIfNeeded(t, y)
           w == [u EXCEPT !.phase = EXTERNALIZE]
           F == {"phase", "p", "pp", "h", "c", "override"}
           Good(a, z) == /\ Changes(a, z, F)
                         /\ z.phase \in {PREPARE, CONFIRM, EXTERNALIZE}
                         /\ z.p \in AnyBallot /\ z.pp \in AnyBallot
                         /\ z.h \in AnyBallot /\ z.c \in AnyBallot /\ z.override \in AnyValue
<1>1. setConfirmCommit(s, x, y) = w
  BY Zenon DEF setConfirmCommit
<1>2. /\ s.phase \in {PREPARE, CONFIRM, EXTERNALIZE} /\ s.p \in AnyBallot /\ s.pp \in AnyBallot
      /\ s.override \in AnyValue /\ DOMAIN s = Fields /\ s.heard \in BOOLEAN
  BY ObjectParts, Zenon
<1>3. Good(s, t)
  BY <1>2, Zenon DEF Changes, Fields
<1>4. \A a, z : IsObject(a) /\ Good(a, z) => Moves(a, z) /\ z.b = a.b
  BY MovesAside, Zenon
<1>5. Moves(s, t) /\ t.b = s.b /\ IsObject(t)
  <2> HIDE DEF Good, t
  <2>1. QED
    BY <1>3, <1>4, Zenon DEF Moves
<1>6. Moves(s, u) /\ IsObject(u)
  <2> HIDE DEF t
  <2>1. Moves(s, u)
    BY <1>2, <1>5, IfNeeded, MovesThen, Zenon
  <2>2. QED
    BY <2>1, Zenon DEF Moves
<1> HIDE DEF u
<1>7. /\ DOMAIN u = Fields /\ u.p \in AnyBallot /\ u.pp \in AnyBallot /\ u.h \in AnyBallot
      /\ u.c \in AnyBallot /\ u.override \in AnyValue /\ u.heard \in BOOLEAN
  BY <1>6, ObjectParts, Zenon
<1>8. Good(u, w)
  BY <1>7, Zenon DEF Changes, Fields
<1> HIDE DEF Good, w
<1>9. Moves(u, w) /\ w.b = u.b
  BY <1>4, <1>6, <1>8, Zenon
<1>10. QED
  BY <1>1, <1>6, <1>7, <1>9, Zenon DEF Moves

\* The third attempt.
LEMMA AcceptCommit ==
    ASSUME NEW n, NEW s, IsObject(s), NEW hint \in AnyStatement
    PROVE  Moves(s, attemptAcceptCommit(n, s, hint))
<1> DEFINE v == hint.ballot.value
           S == getCommitBoundariesFromStatements(s, v)
           good == {i \in S \X S :
                federatedAccept(n, s, {m \in HeardFrom(s) : votesCommit(v, i[1], i[2], s.latest[m])},
                                      {m \in HeardFrom(s) : commitPredicate(v, i[1], i[2], s.latest[m])})}
           i == findExtendedInterval(S, good)
           x == [counter |-> i[1], value |-> v]
           y == [counter |-> i[2], value |-> v]
<1>1. attemptAcceptCommit(n, s, hint) \in {s, setAcceptCommit(s, x, y)}
  BY Zenon DEF attemptAcceptCommit
<1>2. v \in AnyValue
  BY StatementParts, BallotParts, Zenon DEF OptionalStatement
<1>3. S \in SUBSET AnyCounter
  BY Boundaries, Zenon
<1> HIDE DEF S, good, v
<1>4. i[1] \in AnyCounter /\ i[2] \in AnyCounter
  BY <1>3, Interval, Zenon
<1> HIDE DEF i
<1>5. x \in AnyBallot /\ y \in AnyBallot
  BY <1>2, <1>4, Zenon DEF AnyBallot
<1> HIDE DEF x, y
<1>6. QED
  BY <1>1, <1>5, MovesSelf, SetAcceptCommit, Zenon

\* The fourth attempt.
LEMMA ConfirmCommit ==
    ASSUME NEW n, NEW s, IsObject(s), NEW hint \in AnyStatement
    PROVE  Moves(s, attemptConfirmCommit(n, s, hint))
<1> DEFINE v == hint.ballot.value
           S == getCommitBoundariesFromStatements(s, v)
           good == {i \in S \X S :
                federatedRatify(n, s, {m \in HeardFrom(s) : commitPredicate(v, i[1], i[2], s.latest[m])})}
           i == findExtendedInterval(S, good)
           x == [counter |-> i[1], value |-> v]
           y == [counter |-> i[2], value |-> v]
<1>1. attemptConfirmCommit(n, s, hint) \in {s, setConfirmCommit(s, x, y)}
  BY Zenon DEF attemptConfirmCommit
<1>2. v \in AnyValue
  BY StatementParts, BallotParts, Zenon DEF OptionalStatement
<1>3. S \in SUBSET AnyCounter
  BY Boundaries, Zenon
<1> HIDE DEF S, good, v
<1>4. i[1] \in AnyCounter /\ i[2] \in AnyCounter
  BY <1>3, Interval, Zenon
<1> HIDE DEF i
<1>5. x \in AnyBallot /\ y \in AnyBallot
  BY <1>2, <1>4, Zenon DEF AnyBallot
<1> HIDE DEF x, y
<1>6. QED
  BY <1>1, <1>5, MovesSelf, SetConfirmCommit, Zenon

\* The last attempt.
LEMMA Bump ==
    ASSUME NEW n, NEW s, IsObject(s)
    PROVE  Moves(s, attemptBump(n, s))
<1> DEFINE A == {k \in {statementBallotCounter(s.latest[m]) : m \in Node} :
                    k > s.b.counter /\ ~ hasVBlockingSubsetStrictlyAheadOf(n, s, k)}
<1>1. \/ attemptBump(n, s) = s
      \/ A # {} /\ attemptBump(n, s) = abandonBallot(s, Min(A))
  BY Zenon DEF attemptBump
<1>2. \A m \in Node : s.latest[m] \in OptionalStatement
  BY ObjectParts, Zenon
<1>3. \A m \in Node : statementBallotCounter(s.latest[m]) \in AnyCounter
  BY <1>2, StatementParts, BallotParts, Types, Zenon DEF statementBallotCounter
<1>4. A \in SUBSET AnyCounter
  BY <1>3, Zenon
<1> HIDE DEF A
<1>5. A # {} => Min(A) \in AnyCounter
  BY <1>4, MinMaxCounter, Zenon
<1>6. QED
  BY <1>1, <1>5, MovesSelf, AbandonBallot, Zenon

\* What advanceSlot attempts is a move.
LEMMA Attempts ==
    ASSUME NEW n, NEW s, IsObject(s), Head(s.stack).hint \in AnyStatement, NEW k \in 1 .. 5
    PROVE  Moves(s, attempt(n, s, k))
<1> DEFINE hint == Head(s.stack).hint
<1>1. k = 1 \/ k = 2 \/ k = 3 \/ k = 4 \/ k = 5
  BY SMT
<1>2. CASE k = 1
  <2>1. attempt(n, s, k) = attemptAcceptPrepared(n, s, hint)
    BY <1>2, SMT DEF attempt
  <2>2. QED
    BY <2>1, AcceptPrepared, Zenon
<1>3. CASE k = 2
  <2>1. attempt(n, s, k) = attemptConfirmPrepared(n, s, hint)
    BY <1>3, SMT DEF attempt
  <2>2. QED
    BY <2>1, ConfirmPrepared, Zenon
<1>4. CASE k = 3
  <2>1. attempt(n, s, k) = attemptAcceptCommit(n, s, hint)
    BY <1>4, SMT DEF attempt
  <2>2. QED
    BY <2>1, AcceptCommit, Zenon
<1>5. CASE k = 4
  <2>1. attempt(n, s, k) = attemptConfirmCommit(n, s, hint)
    BY <1>5, SMT DEF attempt
  <2>2. QED
    BY <2>1, ConfirmCommit, Zenon
<1>6. CASE k = 5
  <2>1. attempt(n, s, k) = IF Len(s.stack) = 1 THEN attemptBump(n, s) ELSE s
    BY <1>6, SMT DEF attempt
  <2>2. QED
    BY <2>1, Bump, MovesSelf, Zenon
<1>7. QED
  BY <1>1, <1>2, <1>3, <1>4, <1>5, <1>6, Zenon

-----------------------------------------------------------------------------
(***************************************************************************)
(* The invariant of an object: the last statement it emitted is not newer than *)
(* the last one it has to emit, and mHeardFromQuorum is right about the latest  *)
(* envelopes.                                                                  *)
(***************************************************************************)
AtCounter(s) ==
    {m \in HeardFrom(s) : s.latest[m].type = PREPARE => s.b.counter <= s.latest[m].ballot.counter}

HeardRight(n, s) == s.heard => isQuorum(n, s, AtCounter(s))

EmitBehind(s) == s.emit = s.last \/ isNewerStatement(s.emit, s.last)

ObjectInv(n, s) == IsObject(s) /\ EmitBehind(s) /\ HeardRight(n, s)

\* What a step that takes the object from r to t may not do.
Follows(n, r, t) ==
    /\ ObjectInv(n, t)
    /\ t.emit # r.emit => isNewerStatement(r.emit, t.emit)
    /\ r.heard /\ t.b.counter = r.b.counter => t.heard

\* The same, at the same ballot.
Keeps(n, s, t) == Follows(n, s, t) /\ t.b = s.b

\* An object follows itself.
LEMMA KeepsSelf ==
    ASSUME NEW n, NEW s, ObjectInv(n, s)
    PROVE  Keeps(n, s, s)
BY Zenon DEF Keeps, Follows

\* One thing after another.
LEMMA FollowsThen ==
    ASSUME NEW n, NEW r, NEW s, NEW t, IsObject(r), Follows(n, r, s), Keeps(n, s, t)
    PROVE  Follows(n, r, t)
<1>1. r.emit \in OptionalStatement /\ s.emit \in OptionalStatement /\ t.emit \in OptionalStatement
  BY ObjectParts, Zenon DEF Follows, Keeps, ObjectInv
<1>2. t.emit # r.emit => isNewerStatement(r.emit, t.emit)
  BY <1>1, NewerTransitive, Zenon DEF Follows, Keeps
<1>3. QED
  BY <1>2, Zenon DEF Follows, Keeps

\* And at the same ballot.
LEMMA KeepsThen ==
    ASSUME NEW n, NEW r, NEW s, NEW t, IsObject(r), Keeps(n, r, s), Keeps(n, s, t)
    PROVE  Keeps(n, r, t)
BY FollowsThen, Zenon DEF Keeps

\* Whether a node heard from a quorum depends on the latest envelopes and on the counter.
LEMMA SameQuorum ==
    ASSUME NEW n, NEW s, NEW t, t.latest = s.latest, t.b.counter = s.b.counter
    PROVE  isQuorum(n, t, AtCounter(t)) <=> isQuorum(n, s, AtCounter(s))
<1>1. AtCounter(t) = AtCounter(s)
  BY Zenon DEF AtCounter, HeardFrom
<1>2. QED
  BY <1>1, Zenon DEF isQuorum

\* A move keeps the invariant.
LEMMA MovesFollow ==
    ASSUME NEW n, NEW s, NEW t, ObjectInv(n, s), Moves(s, t)
    PROVE  Follows(n, s, t)
<1>1. IsObject(t) /\ EmitBehind(t)
  BY Zenon DEF ObjectInv, Moves, EmitBehind
<1>2. HeardRight(n, t)
  <2>1. SUFFICES ASSUME t.heard PROVE isQuorum(n, t, AtCounter(t))
    BY Zenon DEF HeardRight
  <2>2. s.heard /\ t.b.counter = s.b.counter /\ t.latest = s.latest
    BY <2>1, Zenon DEF Moves
  <2>3. isQuorum(n, s, AtCounter(s))
    BY <2>2, Zenon DEF ObjectInv, HeardRight
  <2>4. QED
    BY <2>2, <2>3, SameQuorum, Zenon
<1>3. QED
  BY <1>1, <1>2, Zenon DEF Follows, ObjectInv, Moves

\* So does a change of the members it does not speak of.
LEMMA KeepsQuiet ==
    ASSUME NEW n, NEW s, NEW t, ObjectInv(n, s),
           Changes(s, t, Untyped \cup {"composite", "stack"}),
           t.composite \in AnyValue, t.stack \in Seq(AnyFrame)
    PROVE  Keeps(n, s, t)
<1> DEFINE F == Untyped \cup {"composite", "stack"}
<1>1. \A f \in F \ Untyped : t[f] \in FieldType[f]
  BY FieldTypes, Zenon
<1>2. IsObject(t)
  <2>1. Changes(s, t, F) /\ IsObject(s)
    BY Zenon DEF ObjectInv
  <2> HIDE DEF F
  <2>2. QED
    BY <1>1, <2>1, ObjectChanged, Zenon
<1>3. t.latest = s.latest /\ t.last = s.last /\ t.emit = s.emit /\ t.heard = s.heard /\ t.b = s.b
  BY Zenon DEF Changes, Fields, Untyped
<1>4. HeardRight(n, t)
  BY <1>3, SameQuorum, Zenon DEF HeardRight, ObjectInv
<1>5. EmitBehind(t)
  BY <1>3, Zenon DEF EmitBehind, ObjectInv
<1>6. QED
  BY <1>2, <1>3, <1>4, <1>5, Zenon DEF Keeps, Follows, ObjectInv

\* A newer statement takes away no quorum.
LEMMA RecordKeeps ==
    ASSUME NEW n \in Node, NEW s, ObjectInv(n, s), NEW m \in Node, NEW st \in AnyStatement,
           isNewerStatement(s.latest[m], st)
    PROVE  Keeps(n, s, recordEnvelope(s, m, st))
<1> DEFINE t == recordEnvelope(s, m, st)
           F == {"latest"}
<1>1. /\ IsObject(s) /\ DOMAIN s = Fields /\ s.latest \in [Node -> OptionalStatement]
      /\ s.b \in AnyBallot /\ s.heard \in BOOLEAN
  BY ObjectParts, Zenon DEF ObjectInv
<1>2. Changes(s, t, F) /\ t.latest = [s.latest EXCEPT ![m] = st]
  BY <1>1, Zenon DEF recordEnvelope, Changes, Fields
<1>3. st \in OptionalStatement
  BY Zenon DEF OptionalStatement
<1> HIDE DEF t
<1>4. t.latest \in [Node -> OptionalStatement]
  BY <1>1, <1>2, <1>3, Zenon
<1>5. IsObject(t)
  <2>1. \A f \in F \ Untyped : t[f] \in FieldType[f]
    BY <1>4, FieldTypes, Zenon
  <2> HIDE DEF F
  <2>2. QED
    BY <1>1, <1>2, <2>1, ObjectChanged, Zenon
<1>6. t.last = s.last /\ t.emit = s.emit /\ t.heard = s.heard /\ t.b = s.b
  BY <1>2, Zenon DEF Changes, Fields
<1>7. /\ \A k \in Node : k # m => t.latest[k] = s.latest[k]
      /\ t.latest[m] = st
  BY <1>1, <1>2, Zenon
<1>8. /\ st # NoStatement
      /\ s.latest[m].type = EXTERNALIZE => st.type = EXTERNALIZE
      /\ /\ s.latest[m] # NoStatement
         /\ s.latest[m].type = PREPARE => s.b.counter <= s.latest[m].ballot.counter
         => (st.type = PREPARE => s.b.counter <= st.ballot.counter)
  <2>1. s.latest[m] \in OptionalStatement /\ s.b.counter \in Nat
    BY <1>1, BallotParts, Zenon
  <2>2. QED
    BY <1>3, <2>1, NewerCounts, Zenon
<1>9. AtCounter(s) \subseteq AtCounter(t)
  BY <1>6, <1>7, <1>8, Zenon DEF AtCounter, HeardFrom
<1>10. \A k \in Node : s.latest[k].type = EXTERNALIZE => t.latest[k].type = EXTERNALIZE
  BY <1>7, <1>8, Zenon
<1>11. isQuorum(n, s, AtCounter(s)) => isQuorum(n, t, AtCounter(t))
  <2>1. \A Q \in Slices[n] : Q \subseteq Node
    BY SlicesAssumption, Zenon
  <2>2. QED
    BY <1>9, <1>10, <2>1, Zenon DEF isQuorum
<1>12. HeardRight(n, t)
  BY <1>6, <1>11, Zenon DEF HeardRight, ObjectInv
<1>13. EmitBehind(t)
  BY <1>6, Zenon DEF EmitBehind, ObjectInv
<1>14. QED
  BY <1>5, <1>6, <1>12, <1>13, Zenon DEF Keeps, Follows, ObjectInv, t

-----------------------------------------------------------------------------
(***************************************************************************)
(* Statements: the operations keep the invariant.                             *)
(***************************************************************************)

\* sendLatestEnvelope emits what is newer than what was emitted.
LEMMA SendKeeps ==
    ASSUME NEW n, NEW s, ObjectInv(n, s)
    PROVE  Keeps(n, s, sendLatestEnvelope(s))
<1> DEFINE t == [s EXCEPT !.emit = s.last]
           F == {"emit"}
<1>1. sendLatestEnvelope(s) \in {s, t}
  BY Zenon DEF sendLatestEnvelope
<1>2. IsObject(s) /\ DOMAIN s = Fields /\ s.last \in OptionalStatement /\ s.heard \in BOOLEAN
  BY ObjectParts, Zenon DEF ObjectInv
<1>3. Changes(s, t, F) /\ t.emit = s.last
  BY <1>2, Zenon DEF Changes, Fields
<1> HIDE DEF t
<1>4. \A f \in F \ Untyped : t[f] \in FieldType[f]
  BY <1>2, <1>3, FieldTypes, Zenon
<1>5. t.latest = s.latest /\ t.last = s.last /\ t.heard = s.heard /\ t.b = s.b
  BY <1>3, Zenon DEF Changes, Fields
<1>6. IsObject(t)
  <2> HIDE DEF F
  <2>1. QED
    BY <1>2, <1>3, <1>4, ObjectChanged, Zenon
<1>7. HeardRight(n, t)
  BY <1>5, SameQuorum, Zenon DEF HeardRight, ObjectInv
<1>8. EmitBehind(t)
  BY <1>3, <1>5, Zenon DEF EmitBehind
<1>9. t.emit # s.emit => isNewerStatement(s.emit, t.emit)
  BY <1>3, Zenon DEF ObjectInv, EmitBehind
<1>10. Keeps(n, s, t)
  BY <1>5, <1>6, <1>7, <1>8, <1>9, Zenon DEF Keeps, Follows, ObjectInv
<1>11. QED
  BY <1>1, <1>10, KeepsSelf, Zenon

\* So does the end of emitCurrentStateStatement: mLastEnvelope is replaced by what is
\* newer.
LEMMA AfterSelfKeeps ==
    ASSUME NEW n, NEW s, ObjectInv(n, s), NEW st \in OptionalStatement
    PROVE  Keeps(n, s, afterSelf(s, st))
<1> DEFINE t == [s EXCEPT !.last = st]
           F == {"last"}
<1>1. CASE ~ (st.ballot # NullBallot /\ isNewerStatement(s.last, st))
  <2>1. afterSelf(s, st) = s
    BY <1>1, Zenon DEF afterSelf
  <2>2. QED
    BY <2>1, KeepsSelf, Zenon
<1>2. CASE st.ballot # NullBallot /\ isNewerStatement(s.last, st)
  <2>1. afterSelf(s, st) = sendLatestEnvelope(t)
    BY <1>2, Zenon DEF afterSelf
  <2>2. /\ IsObject(s) /\ DOMAIN s = Fields /\ s.last \in OptionalStatement
        /\ s.emit \in OptionalStatement /\ s.heard \in BOOLEAN
    BY ObjectParts, Zenon DEF ObjectInv
  <2>3. Changes(s, t, F) /\ t.last = st
    BY <2>2, Zenon DEF Changes, Fields
  <2> HIDE DEF t
  <2>4. \A f \in F \ Untyped : t[f] \in FieldType[f]
    BY <2>3, FieldTypes, Zenon
  <2>5. t.latest = s.latest /\ t.emit = s.emit /\ t.heard = s.heard /\ t.b = s.b
    BY <2>3, Zenon DEF Changes, Fields
  <2>6. IsObject(t)
    <3> HIDE DEF F
    <3>1. QED
      BY <2>2, <2>3, <2>4, ObjectChanged, Zenon
  <2>7. HeardRight(n, t)
    BY <2>5, SameQuorum, Zenon DEF HeardRight, ObjectInv
  <2>8. EmitBehind(t)
    <3>1. s.emit = s.last \/ isNewerStatement(s.emit, s.last)
      BY Zenon DEF ObjectInv, EmitBehind
    <3>2. isNewerStatement(s.emit, st)
      BY <1>2, <2>2, <3>1, NewerTransitive, Zenon
    <3>3. QED
      BY <2>3, <2>5, <3>2, Zenon DEF EmitBehind
  <2>9. Keeps(n, s, t)
    BY <2>5, <2>6, <2>7, <2>8, Zenon DEF Keeps, Follows, ObjectInv
  <2>10. Keeps(n, t, sendLatestEnvelope(t))
    BY <2>6, <2>7, <2>8, SendKeeps, Zenon DEF ObjectInv
  <2>11. QED
    BY <2>1, <2>2, <2>9, <2>10, KeepsThen, Zenon
<1>3. QED
  BY <1>1, <1>2, Zenon

\* checkHeardFromQuorum does not go back on what was heard.
LEMMA CheckHeardKeeps ==
    ASSUME NEW n, NEW s, ObjectInv(n, s)
    PROVE  Keeps(n, s, checkHeardFromQuorum(n, s))
<1> DEFINE t == checkHeardFromQuorum(n, s)
           F == {"heard", "timer"}
<1>1. CASE s.b = NullBallot
  BY <1>1, KeepsSelf, Zenon DEF checkHeardFromQuorum
<1>2. CASE s.b # NullBallot
  <2>1. IsObject(s) /\ DOMAIN s = Fields /\ s.heard \in BOOLEAN
    BY ObjectParts, Zenon DEF ObjectInv
  <2>2. /\ Changes(s, t, F) /\ t.heard = isQuorum(n, s, AtCounter(s))
    BY <1>2, <2>1, Zenon DEF Changes, Fields, checkHeardFromQuorum, AtCounter
  <2>3. isQuorum(n, s, AtCounter(s)) \in BOOLEAN
    BY Zenon DEF isQuorum
  <2> HIDE DEF t
  <2>4. \A f \in F \ Untyped : t[f] \in FieldType[f]
    BY <2>2, <2>3, FieldTypes, Zenon DEF Untyped
  <2>5. t.latest = s.latest /\ t.emit = s.emit /\ t.last = s.last /\ t.b = s.b
    BY <2>2, Zenon DEF Changes, Fields
  <2>6. IsObject(t)
    <3> HIDE DEF F
    <3>1. QED
      BY <2>1, <2>2, <2>4, ObjectChanged, Zenon
  <2>7. HeardRight(n, t)
    BY <2>2, <2>5, SameQuorum, Zenon DEF HeardRight
  <2>8. s.heard => t.heard
    BY <2>2, Zenon DEF ObjectInv, HeardRight
  <2>9. EmitBehind(t)
    BY <2>5, Zenon DEF ObjectInv, EmitBehind
  <2>10. QED
    BY <2>5, <2>6, <2>7, <2>8, <2>9, Zenon DEF Keeps, Follows, ObjectInv, t
<1>3. QED
  BY <1>1, <1>2, Zenon

\* What follows an activation of advanceSlot.
LEMMA FinishKeeps ==
    ASSUME NEW n, NEW s, ObjectInv(n, s), NEW st \in OptionalStatement,
           NEW kind \in {"receive", "emit", "bump"}
    PROVE  Keeps(n, s, finish(n, s, st, kind))
<1>1. CASE kind = "receive"
  BY <1>1, KeepsSelf, Zenon DEF finish
<1>2. CASE kind = "emit"
  <2>1. finish(n, s, st, kind) = afterSelf(s, st)
    BY <1>2, Zenon DEF finish
  <2>2. QED
    BY <2>1, AfterSelfKeeps, Zenon
<1>3. CASE kind = "bump"
  <2>1. finish(n, s, st, kind) = checkHeardFromQuorum(n, afterSelf(s, st))
    BY <1>3, Zenon DEF finish
  <2>2. Keeps(n, s, afterSelf(s, st))
    BY AfterSelfKeeps, Zenon
  <2>3. ObjectInv(n, afterSelf(s, st)) /\ IsObject(s)
    BY <2>2, Zenon DEF Keeps, Follows, ObjectInv
  <2>4. QED
    BY <2>1, <2>2, <2>3, CheckHeardKeeps, KeepsThen, Zenon
<1>4. QED
  BY <1>1, <1>2, <1>3, Zenon

\* createStatement makes a statement.
LEMMA Created ==
    ASSUME NEW s, IsObject(s)
    PROVE  createStatement(s) \in AnyStatement
<1>1. /\ s.phase \in {PREPARE, CONFIRM, EXTERNALIZE}
      /\ s.b \in AnyBallot /\ s.p \in AnyBallot /\ s.pp \in AnyBallot
      /\ s.h \in AnyBallot /\ s.c \in AnyBallot
  BY ObjectParts, Zenon
<1>2. /\ s.p.counter \in AnyCounter /\ s.b.value \in AnyValue
      /\ s.c.counter \in AnyCounter /\ s.h.counter \in AnyCounter
  BY <1>1, BallotParts, Zenon
<1>3. [counter |-> s.p.counter, value |-> s.b.value] \in AnyBallot
  BY <1>2, Zenon DEF AnyBallot
<1> DEFINE x == CASE s.phase = PREPARE -> s.p
                  [] s.phase = CONFIRM -> [counter |-> s.p.counter, value |-> s.b.value]
                  [] OTHER -> NullBallot
           y == IF s.phase = EXTERNALIZE THEN s.c ELSE s.b
           z == IF s.phase = PREPARE THEN s.pp ELSE NullBallot
<1>4. PREPARE # CONFIRM /\ EXTERNALIZE # PREPARE /\ EXTERNALIZE # CONFIRM
  BY SMT DEF PREPARE, CONFIRM, EXTERNALIZE
<1>5. x \in AnyBallot /\ y \in AnyBallot /\ z \in AnyBallot
  BY <1>1, <1>3, <1>4, Types, Zenon
<1>6. createStatement(s) =
        [type |-> s.phase, ballot |-> y, prepared |-> x, preparedPrime |-> z,
         nC |-> s.c.counter, nH |-> s.h.counter]
  BY Zenon DEF createStatement
<1> HIDE DEF x, y, z
<1>7. [type |-> s.phase, ballot |-> y, prepared |-> x, preparedPrime |-> z,
       nC |-> s.c.counter, nH |-> s.h.counter] \in AnyStatement
  <2> DEFINE a == s.phase
             k == s.c.counter
             l == s.h.counter
  <2>1. a \in {PREPARE, CONFIRM, EXTERNALIZE} /\ k \in AnyCounter /\ l \in AnyCounter
    BY <1>1, <1>2, Zenon
  <2> HIDE DEF a, k, l
  <2>2. [type |-> a, ballot |-> y, prepared |-> x, preparedPrime |-> z, nC |-> k, nH |-> l]
          \in AnyStatement
    BY <1>5, <2>1, Zenon DEF AnyStatement
  <2>3. QED
    BY <2>2, Zenon DEF a, k, l
<1>8. QED
  BY <1>6, <1>7, Zenon

\* processEnvelope records the statement and starts an activation.
LEMMA ProcessKeeps ==
    ASSUME NEW n \in Node, NEW s, ObjectInv(n, s), NEW m \in Node, NEW st \in AnyStatement,
           isNewerStatement(s.latest[m], st), NEW kind \in {"receive", "emit", "bump"}
    PROVE  Keeps(n, s, processEnvelope(n, s, m, st, kind))
<1> DEFINE t == recordEnvelope(s, m, st)
           f == [hint |-> st, pc |-> 1, work |-> FALSE, kind |-> kind]
           u == [t EXCEPT !.valid = @ /\ validateValues(n, st) # kMaybeValidValue,
                          !.stack = <<f>> \o @,
                          !.threw = @ \/ Len(s.stack) + 1 >= MAX_ADVANCE_SLOT_RECURSION]
<1>1. processEnvelope(n, s, m, st, kind) \in {t, u}
  BY Zenon DEF processEnvelope
<1>2. Keeps(n, s, t)
  BY RecordKeeps, Zenon
<1>3. f \in AnyFrame
  <2>1. 1 \in 1 .. 5
    BY SMT
  <2>2. QED
    BY <2>1, Zenon DEF AnyFrame
<1> HIDE DEF t, f
<1>4. ObjectInv(n, t) /\ IsObject(t) /\ IsObject(s)
  BY <1>2, Zenon DEF Keeps, Follows, ObjectInv
<1>5. DOMAIN t = Fields /\ t.composite \in AnyValue /\ t.stack \in Seq(AnyFrame)
  BY <1>4, ObjectParts, Zenon
<1>6. <<f>> \o t.stack \in Seq(AnyFrame)
  BY <1>3, <1>5, SMT
<1>7. /\ Changes(t, u, Untyped \cup {"composite", "stack"})
      /\ u.composite = t.composite /\ u.stack = <<f>> \o t.stack
  BY <1>5, Zenon DEF Changes, Fields, Untyped
<1> HIDE DEF u
<1>8. Keeps(n, t, u)
  BY <1>4, <1>5, <1>6, <1>7, KeepsQuiet, Zenon
<1>9. QED
  BY <1>1, <1>2, <1>4, <1>8, KeepsThen, Zenon

\* emitCurrentStateStatement, whatever it does with its statement.
LEMMA EmitKeeps ==
    ASSUME NEW n \in Node, NEW s, ObjectInv(n, s), NEW kind \in {"receive", "emit", "bump"}
    PROVE  Keeps(n, s, emitCurrentStateStatement(n, s, kind))
<1> DEFINE st == createStatement(s)
           t == [s EXCEPT !.said = @ \cup {st}]
           u == processEnvelope(n, t, n, st, kind)
           w == [s EXCEPT !.threw = TRUE]
<1>1. \/ emitCurrentStateStatement(n, s, kind) = finish(n, s, NoStatement, kind)
      \/ emitCurrentStateStatement(n, s, kind) = w
      \/ /\ isAcceptable(n, s, n, st, TRUE)
         /\ emitCurrentStateStatement(n, s, kind) \in {u, finish(n, u, st, kind)}
  <2>1. CASE st = s.latest[n]
    BY <2>1, Zenon DEF emitCurrentStateStatement
  <2>2. CASE st # s.latest[n] /\ ~ isAcceptable(n, s, n, st, TRUE)
    BY <2>2, Zenon DEF emitCurrentStateStatement
  <2>3. CASE st # s.latest[n] /\ isAcceptable(n, s, n, st, TRUE)
    BY <2>3, Zenon DEF emitCurrentStateStatement
  <2>4. QED
    BY <2>1, <2>2, <2>3, Zenon
<1>2. /\ IsObject(s) /\ DOMAIN s = Fields /\ s.composite \in AnyValue /\ s.stack \in Seq(AnyFrame)
      /\ st \in AnyStatement
  BY ObjectParts, Created, Zenon DEF ObjectInv
<1> HIDE DEF st
<1>3. Keeps(n, s, t) /\ t.latest = s.latest
  <2>1. /\ Changes(s, t, Untyped \cup {"composite", "stack"})
        /\ t.composite = s.composite /\ t.stack = s.stack /\ t.latest = s.latest
    BY <1>2, Zenon DEF Changes, Fields, Untyped
  <2> HIDE DEF t
  <2>2. QED
    BY <1>2, <2>1, KeepsQuiet, Zenon
<1>4. Keeps(n, s, w)
  <2>1. /\ Changes(s, w, Untyped \cup {"composite", "stack"})
        /\ w.composite = s.composite /\ w.stack = s.stack
    BY <1>2, Zenon DEF Changes, Fields, Untyped
  <2> HIDE DEF w
  <2>2. QED
    BY <1>2, <2>1, KeepsQuiet, Zenon
<1>5. NoStatement \in OptionalStatement /\ st \in OptionalStatement
  BY <1>2, Zenon DEF OptionalStatement
<1>6. Keeps(n, s, finish(n, s, NoStatement, kind))
  BY <1>5, FinishKeeps, Zenon
<1> HIDE DEF t, w
<1>7. ASSUME isAcceptable(n, s, n, st, TRUE)
      PROVE  Keeps(n, s, u) /\ Keeps(n, s, finish(n, u, st, kind))
  <2>1. isNewerStatement(t.latest[n], st)
    BY <1>3, <1>7, Zenon DEF isAcceptable
  <2>2. ObjectInv(n, t)
    BY <1>3, Zenon DEF Keeps, Follows
  <2>3. Keeps(n, t, u)
    BY <1>2, <2>1, <2>2, ProcessKeeps, Zenon
  <2> HIDE DEF u
  <2>4. Keeps(n, s, u)
    BY <1>2, <1>3, <2>3, KeepsThen, Zenon
  <2>5. ObjectInv(n, u)
    BY <2>4, Zenon DEF Keeps, Follows
  <2>6. Keeps(n, u, finish(n, u, st, kind))
    BY <1>5, <2>5, FinishKeeps, Zenon
  <2>7. QED
    BY <1>2, <2>4, <2>6, KeepsThen, Zenon
<1> HIDE DEF u
<1>8. QED
  BY <1>1, <1>4, <1>6, <1>7, Zenon

\* A move and the statement it makes.
LEMMA MoveAndEmit ==
    ASSUME NEW n \in Node, NEW s, ObjectInv(n, s), NEW t, Moves(s, t),
           NEW kind \in {"receive", "emit", "bump"}
    PROVE  Follows(n, s, t) /\ Follows(n, s, emitCurrentStateStatement(n, t, kind))
<1>1. Follows(n, s, t) /\ ObjectInv(n, t) /\ IsObject(s)
  BY MovesFollow, Zenon DEF Follows, ObjectInv
<1>2. Keeps(n, t, emitCurrentStateStatement(n, t, kind))
  BY <1>1, EmitKeeps, Zenon
<1>3. QED
  BY <1>1, <1>2, FollowsThen, Zenon

-----------------------------------------------------------------------------
(***************************************************************************)
(* The invariant, and what a step does.                                       *)
(***************************************************************************)
NodesInv ==
    /\ DOMAIN node = Intact /\ DOMAIN sent = Intact
    /\ \A n \in Intact : ObjectInv(n, node[n]) /\ sent[n] \subseteq AnyStatement

\* What a step of node n does to its object.
Steps(n) ==
    \/ Follows(n, node[n], node'[n])
    \/ Restart(n) /\ ObjectInv(n, node'[n]) /\ node'[n].emit = node[n].emit

\* Update with an object that follows the old one.
LEMMA UpdateStep ==
    ASSUME NodesInv, NEW n \in Intact, NEW s, Follows(n, node[n], s), Update(n, s)
    PROVE  NodesInv' /\ \A m \in Intact : Steps(m)
<1>1. /\ DOMAIN node' = Intact /\ node'[n] = s
      /\ \A m \in Intact : m # n => node'[m] = node[m]
  BY Zenon DEF NodesInv, Update
<1>2. /\ DOMAIN sent' = Intact
      /\ \A m \in Intact : m # n => sent'[m] = sent[m]
      /\ sent'[n] = sent[n] \/ (s.emit # NoStatement /\ sent'[n] = sent[n] \cup {s.emit})
  <2>1. CASE s.emit \in {node[n].emit, NoStatement}
    BY <2>1, Zenon DEF NodesInv, Update
  <2>2. CASE ~ (s.emit \in {node[n].emit, NoStatement})
    <3>1. sent' = [sent EXCEPT ![n] = @ \cup {s.emit}] /\ s.emit # NoStatement
      BY <2>2, Zenon DEF Update
    <3>2. QED
      BY <3>1, Zenon DEF NodesInv
  <2>3. QED
    BY <2>1, <2>2, Zenon
<1>3. s.emit \in OptionalStatement /\ ObjectInv(n, s)
  BY ObjectParts, Zenon DEF Follows, ObjectInv
<1>4. \A m \in Intact : ObjectInv(m, node'[m])
  BY <1>1, <1>3, Zenon DEF NodesInv
<1>5. \A m \in Intact : sent'[m] \subseteq AnyStatement
  BY <1>2, <1>3, Zenon DEF NodesInv, OptionalStatement
<1>6. NodesInv'
  BY <1>1, <1>2, <1>4, <1>5, Zenon DEF NodesInv
<1>7. ASSUME NEW m \in Intact, m # n PROVE Follows(m, node[m], node'[m])
  <2>1. Keeps(m, node[m], node[m])
    BY KeepsSelf, Zenon DEF NodesInv
  <2>2. QED
    BY <1>1, <1>7, <2>1, Zenon DEF Keeps
<1>8. QED
  BY <1>1, <1>6, <1>7, Zenon DEF Steps

\* An envelope from another node.
LEMMA ReceiveStep ==
    ASSUME NodesInv, NEW n \in Intact, NEW m \in Node, NEW st \in AnyStatement,
           ReceiveEnvelope(n, m, st)
    PROVE  NodesInv' /\ \A k \in Intact : Steps(k)
<1> DEFINE s == processEnvelope(n, node[n], m, st, "receive")
<1>1. n \in Node /\ ObjectInv(n, node[n])
  BY SlicesAssumption, Zenon DEF NodesInv
<1>2. isNewerStatement(node[n].latest[m], st) /\ Update(n, s)
  BY Zenon DEF ReceiveEnvelope, isAcceptable
<1>3. Keeps(n, node[n], s)
  BY <1>1, <1>2, ProcessKeeps, Zenon
<1> HIDE DEF s
<1>4. Follows(n, node[n], s)
  BY <1>3, Zenon DEF Keeps
<1>5. QED
  BY <1>2, <1>4, UpdateStep, Zenon

\* A quiet change, a move and the statement it makes.
LEMMA QuietMove ==
    ASSUME NEW n \in Node, NEW r, ObjectInv(n, r), NEW s, Keeps(n, r, s), NEW t, Moves(s, t)
    PROVE  /\ Follows(n, r, s)
           /\ Follows(n, r, emitCurrentStateStatement(n, t, "bump"))
<1> DEFINE u == emitCurrentStateStatement(n, t, "bump")
<1>1. ObjectInv(n, s) /\ IsObject(r) /\ Follows(n, r, s)
  BY Zenon DEF Keeps, Follows, ObjectInv
<1>2. Follows(n, s, u)
  BY <1>1, MoveAndEmit, Zenon
<1> HIDE DEF u
<1>3. r.emit \in OptionalStatement /\ s.emit \in OptionalStatement /\ u.emit \in OptionalStatement
  BY <1>1, <1>2, ObjectParts, Zenon DEF Follows, ObjectInv
<1>4. u.emit # r.emit => isNewerStatement(r.emit, u.emit)
  BY <1>1, <1>2, <1>3, NewerTransitive, Zenon DEF Follows
<1>5. r.heard /\ u.b.counter = r.b.counter => u.heard
  BY <1>2, Zenon DEF Keeps, Follows
<1>6. Follows(n, r, u)
  BY <1>2, <1>4, <1>5, Zenon DEF Follows
<1>7. QED
  BY <1>1, <1>6, Zenon DEF u

\* The timer.
LEMMA TimerStep ==
    ASSUME NodesInv, NEW n \in Intact, TimerExpired(n)
    PROVE  NodesInv' /\ \A k \in Intact : Steps(k)
<1> DEFINE r == node[n]
           s == [r EXCEPT !.timer = FALSE]
           t == abandonBallot(s, 0)
           u == IF t = s THEN s ELSE emitCurrentStateStatement(n, t, "bump")
<1>1. n \in Node /\ ObjectInv(n, r)
  BY SlicesAssumption, Zenon DEF NodesInv
<1>2. Update(n, u)
  BY Zenon DEF TimerExpired
<1> HIDE DEF r
<1>3. IsObject(r) /\ DOMAIN r = Fields /\ r.composite \in AnyValue /\ r.stack \in Seq(AnyFrame)
  BY <1>1, ObjectParts, Zenon DEF ObjectInv
<1>4. /\ Changes(r, s, Untyped \cup {"composite", "stack"})
      /\ s.composite = r.composite /\ s.stack = r.stack
  BY <1>3, Zenon DEF Changes, Fields, Untyped
<1> HIDE DEF s
<1>5. Keeps(n, r, s)
  BY <1>1, <1>3, <1>4, KeepsQuiet, Zenon
<1>6. IsObject(s)
  BY <1>5, Zenon DEF Keeps, Follows, ObjectInv
<1>7. Moves(s, t)
  BY <1>6, AbandonBallot, Types, Zenon
<1> HIDE DEF t
<1>8. Follows(n, r, u)
  BY <1>1, <1>5, <1>7, QuietMove, Zenon
<1> HIDE DEF u
<1>9. QED
  BY <1>2, <1>8, UpdateStep, Zenon DEF r

\* A new composite candidate.
LEMMA CandidateStep ==
    ASSUME NodesInv, NEW n \in Intact, NEW x \in Candidate[n], CandidateUpdated(n, x)
    PROVE  NodesInv' /\ \A k \in Intact : Steps(k)
<1> DEFINE r == node[n]
           s == [r EXCEPT !.composite = x]
           t == bumpState(s, x, FALSE)
           u == IF t = s THEN s ELSE emitCurrentStateStatement(n, t, "bump")
<1>1. n \in Node /\ ObjectInv(n, r) /\ x \in AnyValue
  BY SlicesAssumption, DriverAssumption, Zenon DEF NodesInv, AnyValue
<1>2. Update(n, u)
  BY Zenon DEF CandidateUpdated
<1> HIDE DEF r
<1>3. IsObject(r) /\ DOMAIN r = Fields /\ r.composite \in AnyValue /\ r.stack \in Seq(AnyFrame)
  BY <1>1, ObjectParts, Zenon DEF ObjectInv
<1>4. /\ Changes(r, s, Untyped \cup {"composite", "stack"})
      /\ s.composite = x /\ s.stack = r.stack
  BY <1>3, Zenon DEF Changes, Fields, Untyped
<1> HIDE DEF s
<1>5. Keeps(n, r, s)
  BY <1>1, <1>3, <1>4, KeepsQuiet, Zenon
<1>6. IsObject(s)
  BY <1>5, Zenon DEF Keeps, Follows, ObjectInv
<1>7. Moves(s, t)
  BY <1>1, <1>6, BumpState, Zenon
<1> HIDE DEF t
<1>8. Follows(n, r, u)
  BY <1>1, <1>5, <1>7, QuietMove, Zenon
<1> HIDE DEF u
<1>9. QED
  BY <1>2, <1>8, UpdateStep, Zenon DEF r

\* The running activation of advanceSlot has a statement for a hint.
LEMMA RunningFrame ==
    ASSUME NEW q \in Seq(AnyFrame), q # << >>
    PROVE  /\ Head(q) \in AnyFrame /\ Tail(q) \in Seq(AnyFrame) /\ Head(q) = q[1]
           /\ \A f \in AnyFrame : [q EXCEPT ![1] = f] \in Seq(AnyFrame)
           /\ Head(q).hint \in AnyStatement /\ Head(q).pc \in 1 .. 5
           /\ Head(q).kind \in {"receive", "emit", "bump"}
<1>1. /\ Head(q) \in AnyFrame /\ Tail(q) \in Seq(AnyFrame) /\ Head(q) = q[1]
  BY SMT
<1>2. \A f \in AnyFrame : [q EXCEPT ![1] = f] \in Seq(AnyFrame)
  BY SMT
<1>3. QED
  BY <1>1, <1>2, Zenon DEF AnyFrame

\* advanceSlot has nothing left to attempt.
LEMMA ReturnStep ==
    ASSUME NodesInv, NEW n \in Intact, node[n].stack # << >>, Return(n)
    PROVE  NodesInv' /\ \A k \in Intact : Steps(k)
<1> DEFINE s == node[n]
           frame == Head(s.stack)
           t == IF Len(s.stack) = 1 THEN checkHeardFromQuorum(n, s) ELSE s
           u == [t EXCEPT !.stack = Tail(@)]
           v == IF frame.work THEN sendLatestEnvelope(u) ELSE u
           w == finish(n, v, frame.hint, frame.kind)
<1>1. Update(n, w)
  BY Zenon DEF Return
<1>2. ObjectInv(n, s) /\ s.stack # << >>
  BY Zenon DEF NodesInv
<1> HIDE DEF s
<1>3. IsObject(s) /\ s.stack \in Seq(AnyFrame)
  BY <1>2, ObjectParts, Zenon DEF ObjectInv
<1>4. /\ frame.hint \in OptionalStatement /\ frame.kind \in {"receive", "emit", "bump"}
      /\ Tail(s.stack) \in Seq(AnyFrame)
  BY <1>2, <1>3, RunningFrame, Zenon DEF OptionalStatement
<1> HIDE DEF frame
<1>5. Keeps(n, s, t) /\ t.stack = s.stack
  <2>1. checkHeardFromQuorum(n, s).stack = s.stack
    BY <1>3, ObjectParts, Zenon DEF checkHeardFromQuorum, Fields
  <2>2. QED
    BY <1>2, <2>1, KeepsSelf, CheckHeardKeeps, Zenon
<1> HIDE DEF t
<1>6. Keeps(n, s, u) /\ ObjectInv(n, u)
  <2>1. ObjectInv(n, t) /\ DOMAIN t = Fields /\ t.composite \in AnyValue
    BY <1>5, ObjectParts, Zenon DEF Keeps, Follows, ObjectInv
  <2>2. /\ Changes(t, u, Untyped \cup {"composite", "stack"})
        /\ u.composite = t.composite /\ u.stack = Tail(t.stack)
    BY <2>1, Zenon DEF Changes, Fields, Untyped
  <2> HIDE DEF u
  <2>3. Keeps(n, t, u)
    BY <1>4, <1>5, <2>1, <2>2, KeepsQuiet, Zenon
  <2>4. Keeps(n, s, u)
    BY <1>3, <1>5, <2>3, KeepsThen, Zenon
  <2>5. QED
    BY <2>4, Zenon DEF Keeps, Follows
<1> HIDE DEF u
<1>7. Keeps(n, s, v)
  BY <1>3, <1>6, SendKeeps, KeepsThen, Zenon
<1> HIDE DEF v
<1>8. ObjectInv(n, v)
  BY <1>7, Zenon DEF Keeps, Follows
<1>9. Keeps(n, v, w)
  BY <1>4, <1>8, FinishKeeps, Zenon
<1> HIDE DEF w
<1>10. Follows(n, s, w)
  BY <1>3, <1>7, <1>9, KeepsThen, Zenon DEF Keeps
<1>11. QED
  BY <1>1, <1>10, UpdateStep, Zenon DEF s

\* A frame whose program counter and mark change.
LEMMA FrameChanged ==
    ASSUME NEW f \in AnyFrame, NEW pc \in 1 .. 5, NEW work \in BOOLEAN
    PROVE  [[f EXCEPT !.pc = pc] EXCEPT !.work = work] \in AnyFrame
<1> DEFINE g == [[f EXCEPT !.pc = pc] EXCEPT !.work = work]
<1>1. /\ f.hint \in AnyStatement /\ f.kind \in {"receive", "emit", "bump"}
      /\ DOMAIN f = {"hint", "pc", "work", "kind"}
  BY Zenon DEF AnyFrame
<1>2. /\ DOMAIN g = {"hint", "pc", "work", "kind"}
      /\ g.hint = f.hint /\ g.pc = pc /\ g.work = work /\ g.kind = f.kind
      /\ g = [x \in {"hint", "pc", "work", "kind"} |-> g[x]]
  BY <1>1, Zenon
<1> HIDE DEF g
<1>3. g \in AnyFrame
  BY <1>1, <1>2, Zenon DEF AnyFrame
<1>4. QED
  BY <1>3, Zenon DEF g

\* advanceSlot makes an attempt.
LEMMA AdvanceStep ==
    ASSUME NodesInv, NEW n \in Intact, node[n].stack # << >>, NEW k \in 1 .. 5, Advance(n, k)
    PROVE  NodesInv' /\ \A m \in Intact : Steps(m)
<1> DEFINE s == node[n]
           t == attempt(n, s, k)
           didWork == [t EXCEPT !.override = s.override] # s
           pc == IF k = 5 THEN 5 ELSE k + 1
           u == [t EXCEPT !.stack[1].pc = pc,
                          !.stack[1].work = @ \/ didWork]
           kind == IF k = 5 THEN "bump" ELSE "emit"
           w == IF didWork THEN emitCurrentStateStatement(n, u, kind) ELSE u
<1>1. Update(n, w)
  BY Zenon DEF Advance
<1>2. ObjectInv(n, s) /\ s.stack # << >> /\ n \in Node
  BY SlicesAssumption, Zenon DEF NodesInv
<1> HIDE DEF s
<1>3. IsObject(s) /\ s.stack \in Seq(AnyFrame)
  BY <1>2, ObjectParts, Zenon DEF ObjectInv
<1>4. Moves(s, t)
  <2>1. Head(s.stack).hint \in AnyStatement
    BY <1>2, <1>3, RunningFrame, Zenon
  <2>2. QED
    BY <1>3, <2>1, Attempts, Zenon
<1> HIDE DEF t
<1>5. /\ IsObject(t) /\ Follows(n, s, t) /\ ObjectInv(n, t)
      /\ t.stack \in Seq(AnyFrame) /\ t.stack # << >>
  BY <1>2, <1>3, <1>4, MovesFollow, Zenon DEF Moves, Follows
<1>6. didWork \in BOOLEAN /\ kind \in {"receive", "emit", "bump"}
  BY Zenon
<1>7. pc \in 1 .. 5
  BY SMT
<1> HIDE DEF didWork, pc, kind
<1>8. /\ Changes(t, u, Untyped \cup {"composite", "stack"})
      /\ u.composite = t.composite
      /\ \E f \in AnyFrame : u.stack = [t.stack EXCEPT ![1] = f]
  <2> DEFINE f == t.stack[1]
             g == [[f EXCEPT !.pc = pc] EXCEPT !.work = @ \/ didWork]
  <2>1. f \in AnyFrame /\ 1 \in DOMAIN t.stack
    <3>1. 1 \in DOMAIN t.stack
      BY <1>5, SMT
    <3>2. QED
      BY <1>5, <3>1, RunningFrame, Zenon
  <2>2. g \in AnyFrame
    <3> HIDE DEF f
    <3>1. [f EXCEPT !.pc = pc].work = f.work
      BY <2>1, Zenon DEF AnyFrame
    <3>2. (f.work \/ didWork) \in BOOLEAN
      BY Zenon
    <3>3. g = [[f EXCEPT !.pc = pc] EXCEPT !.work = (f.work \/ didWork)]
      BY <3>1, Zenon
    <3> DEFINE e == f.work \/ didWork
    <3> HIDE DEF e, g
    <3>4. QED
      BY <1>7, <2>1, <3>2, <3>3, FrameChanged, Zenon DEF e
  <2>3. DOMAIN t = Fields
    BY <1>5, ObjectParts, Zenon
  <2>4. u.stack = [t.stack EXCEPT ![1] = g]
    BY <2>1, <2>3, Zenon DEF Fields
  <2>5. Changes(t, u, Untyped \cup {"composite", "stack"}) /\ u.composite = t.composite
    BY <2>3, Zenon DEF Changes, Fields, Untyped
  <2> HIDE DEF g, u
  <2>6. QED
    BY <2>2, <2>4, <2>5, Zenon
<1> HIDE DEF u
<1>9. u.stack \in Seq(AnyFrame) /\ t.composite \in AnyValue
  BY <1>5, <1>8, RunningFrame, ObjectParts, Zenon
<1>10. Keeps(n, t, u)
  BY <1>5, <1>8, <1>9, KeepsQuiet, Zenon
<1>11. Follows(n, s, u) /\ ObjectInv(n, u)
  <2>1. Follows(n, s, u)
    BY <1>3, <1>5, <1>10, FollowsThen, Zenon
  <2>2. QED
    BY <2>1, Zenon DEF Follows
<1>12. Keeps(n, u, emitCurrentStateStatement(n, u, kind))
  BY <1>2, <1>6, <1>11, EmitKeeps, Zenon
<1>13. Follows(n, s, w)
  BY <1>3, <1>11, <1>12, FollowsThen, Zenon
<1> HIDE DEF w
<1>14. QED
  BY <1>1, <1>13, UpdateStep, Zenon DEF s

\* A step of advanceSlot.
LEMMA AdvanceSlotStep ==
    ASSUME NodesInv, NEW n \in Intact, advanceSlot(n)
    PROVE  NodesInv' /\ \A m \in Intact : Steps(m)
<1> DEFINE left == attemptsLeft(n, node[n])
<1>1. node[n].stack # << >> /\ ((left = {} /\ Return(n)) \/ (left # {} /\ Advance(n, Min(left))))
  BY Zenon DEF advanceSlot
<1>2. CASE left = {} /\ Return(n)
  BY <1>1, <1>2, ReturnStep, Zenon
<1>3. CASE left # {} /\ Advance(n, Min(left))
  <2>1. node[n].stack \in Seq(AnyFrame)
    BY ObjectParts, Zenon DEF NodesInv, ObjectInv
  <2>2. Head(node[n].stack).pc \in 1 .. 5
    BY <1>1, <2>1, RunningFrame, Zenon
  <2>3. Head(node[n].stack).pc .. 5 \subseteq 1 .. 5
    BY <2>2, SMT
  <2>4. left \subseteq 1 .. 5
    BY <2>3, Zenon DEF attemptsLeft
  <2> HIDE DEF left
  <2>5. left \in SUBSET Nat
    BY <2>4, SMT
  <2>6. Min(left) \in left
    BY <1>3, <2>5, LeastNat, Zenon DEF Min
  <2>7. Min(left) \in 1 .. 5
    BY <2>4, <2>6, Zenon
  <2>8. QED
    BY <1>1, <1>3, <2>7, AdvanceStep, Zenon
<1>4. QED
  BY <1>1, <1>2, <1>3, Zenon

\* An object, from what its members are.
LEMMA ObjectMade ==
    ASSUME NEW s, DOMAIN s = Fields,
           s.phase \in {PREPARE, CONFIRM, EXTERNALIZE},
           s.b \in AnyBallot, s.p \in AnyBallot, s.pp \in AnyBallot,
           s.h \in AnyBallot, s.c \in AnyBallot,
           s.override \in AnyValue, s.composite \in AnyValue,
           s.latest \in [Node -> OptionalStatement],
           s.last \in OptionalStatement, s.emit \in OptionalStatement,
           s.heard \in BOOLEAN, s.stack \in Seq(AnyFrame)
    PROVE  IsObject(s)
<1>1. /\ s.phase \in FieldType.phase
      /\ s.b \in FieldType.b /\ s.p \in FieldType.p /\ s.pp \in FieldType.pp
      /\ s.h \in FieldType.h /\ s.c \in FieldType.c
      /\ s.override \in FieldType.override /\ s.composite \in FieldType.composite
      /\ s.latest \in FieldType.latest
      /\ s.last \in FieldType.last /\ s.emit \in FieldType.emit
      /\ s.heard \in FieldType.heard /\ s.stack \in FieldType.stack
  BY FieldTypes, Zenon
<1>2. DOMAIN FieldType =
        {"phase", "b", "p", "pp", "h", "c", "override", "composite", "latest", "last", "emit",
         "heard", "stack"}
  BY Zenon DEF FieldType
<1>3. \A f \in DOMAIN FieldType : s[f] \in FieldType[f]
  BY <1>1, <1>2, Zenon
<1>4. QED
  BY <1>3, Zenon DEF IsObject

\* A new object is in order.
LEMMA NewObjectInv ==
    ASSUME NEW said
    PROVE  LET s == [NewObject EXCEPT !.said = said]
           IN  IsObject(s) /\ s.emit = NoStatement /\ s.last = NoStatement /\ s.heard = FALSE
<1> DEFINE s == [NewObject EXCEPT !.said = said]
<1>1. DOMAIN NewObject = Fields
  BY Zenon DEF NewObject, Fields
<1>2. /\ DOMAIN s = Fields
      /\ s.phase = PREPARE
      /\ s.b = NullBallot /\ s.p = NullBallot /\ s.pp = NullBallot /\ s.h = NullBallot
      /\ s.c = NullBallot /\ s.override = NoValue /\ s.composite = NoValue
      /\ s.latest = [m \in Node |-> NoStatement]
      /\ s.last = NoStatement /\ s.emit = NoStatement /\ s.heard = FALSE
      /\ s.stack = << >>
  BY Zenon DEF NewObject, Fields
<1>3. NoStatement \in OptionalStatement /\ [m \in Node |-> NoStatement] \in [Node -> OptionalStatement]
  BY Zenon DEF OptionalStatement
<1>4. << >> \in Seq(AnyFrame)
  BY SMT
<1> HIDE DEF s
<1>5. IsObject(s)
  BY <1>2, <1>3, <1>4, ObjectMade, Types, Zenon
<1>6. QED
  BY <1>2, <1>5, Zenon DEF s

\* setStateFromEnvelope on a new object.
LEMMA RestoredInv ==
    ASSUME NEW n \in Node, NEW s, IsObject(s), s.heard = FALSE, NEW st \in AnyStatement
    PROVE  ObjectInv(n, setStateFromEnvelope(s, n, st)) /\ setStateFromEnvelope(s, n, st).emit = st
<1> DEFINE v == st.ballot.value
           r == recordEnvelope(s, n, st)
           atCounter(k) == IF k = 0 THEN NullBallot ELSE [counter |-> k, value |-> v]
           b == IF st.type = EXTERNALIZE THEN atCounter(UINT32_MAX) ELSE st.ballot
           p == IF st.type = EXTERNALIZE THEN atCounter(UINT32_MAX) ELSE st.prepared
           h == atCounter(st.nH)
           c == atCounter(st.nC)
           t == [r EXCEPT !.last = st, !.emit = st, !.phase = st.type]
           u == [t EXCEPT !.b = b, !.p = p, !.pp = st.preparedPrime, !.h = h, !.c = c]
<1>1. setStateFromEnvelope(s, n, st) = u
  BY Zenon DEF setStateFromEnvelope
<1>2. /\ st \in OptionalStatement /\ st.type \in {PREPARE, CONFIRM, EXTERNALIZE}
      /\ v \in AnyValue /\ st.ballot \in AnyBallot /\ st.prepared \in AnyBallot
      /\ st.preparedPrime \in AnyBallot /\ st.nC \in AnyCounter /\ st.nH \in AnyCounter
  <2>1. st \in OptionalStatement /\ st.type \in {PREPARE, CONFIRM, EXTERNALIZE}
    BY Zenon DEF OptionalStatement, AnyStatement
  <2>2. QED
    BY <2>1, StatementParts, BallotParts, Zenon
<1>3. ASSUME NEW k \in AnyCounter PROVE atCounter(k) \in AnyBallot
  <2> HIDE DEF v
  <2>1. [counter |-> k, value |-> v] \in AnyBallot
    BY <1>2, Zenon DEF AnyBallot
  <2>2. QED
    BY <2>1, Types, Zenon
<1> HIDE DEF atCounter
<1>4. b \in AnyBallot /\ p \in AnyBallot /\ h \in AnyBallot /\ c \in AnyBallot
  BY <1>2, <1>3, Types, Zenon
<1> HIDE DEF b, p, h, c
<1>5. /\ DOMAIN s = Fields /\ s.override \in AnyValue /\ s.composite \in AnyValue
      /\ s.latest \in [Node -> OptionalStatement] /\ s.stack \in Seq(AnyFrame)
  BY ObjectParts, Zenon
<1>6. [s.latest EXCEPT ![n] = st] \in [Node -> OptionalStatement]
  BY <1>2, <1>5, Zenon
<1>7. /\ DOMAIN r = Fields /\ r.override = s.override /\ r.composite = s.composite
      /\ r.latest = [s.latest EXCEPT ![n] = st] /\ r.stack = s.stack /\ r.heard = FALSE
  BY <1>5, Zenon DEF recordEnvelope, Fields
<1> HIDE DEF r
<1>8. /\ DOMAIN u = Fields /\ u.phase = st.type
      /\ u.b = b /\ u.p = p /\ u.pp = st.preparedPrime /\ u.h = h /\ u.c = c
      /\ u.override = r.override /\ u.composite = r.composite /\ u.latest = r.latest
      /\ u.last = st /\ u.emit = st /\ u.heard = r.heard /\ u.stack = r.stack
  BY <1>7, Zenon DEF Fields
<1> HIDE DEF u
<1>9. IsObject(u)
  <2>1. u.heard \in BOOLEAN
    BY <1>7, <1>8, Zenon
  <2>2. QED
    BY <1>2, <1>4, <1>5, <1>6, <1>7, <1>8, <2>1, ObjectMade, Zenon
<1>10. EmitBehind(u) /\ HeardRight(n, u)
  BY <1>7, <1>8, Zenon DEF EmitBehind, HeardRight
<1>11. QED
  BY <1>1, <1>8, <1>9, <1>10, Zenon DEF ObjectInv

\* A restart.
LEMMA RestartStep ==
    ASSUME NodesInv, NEW n \in Intact, Restart(n)
    PROVE  NodesInv' /\ \A k \in Intact : Steps(k)
<1> DEFINE s == [NewObject EXCEPT !.said = node[n].said]
           st == node[n].emit
           t == IF st = NoStatement THEN s ELSE setStateFromEnvelope(s, n, st)
<1>1. node' = [node EXCEPT ![n] = t] /\ sent' = sent
  BY Zenon DEF Restart
<1>2. IsObject(s) /\ s.emit = NoStatement /\ s.last = NoStatement /\ s.heard = FALSE
  BY NewObjectInv, Zenon
<1> HIDE DEF s
<1>3. n \in Node /\ st \in OptionalStatement
  BY SlicesAssumption, ObjectParts, Zenon DEF NodesInv, ObjectInv
<1> HIDE DEF st
<1>4. ObjectInv(n, t) /\ t.emit = st
  <2>1. CASE st = NoStatement
    BY <1>2, <2>1, Zenon DEF ObjectInv, EmitBehind, HeardRight
  <2>2. CASE st # NoStatement
    <3>1. st \in AnyStatement
      BY <1>3, <2>2, Zenon DEF OptionalStatement
    <3>2. QED
      BY <1>2, <1>3, <2>2, <3>1, RestoredInv, Zenon
  <2>3. QED
    BY <2>1, <2>2, Zenon
<1> HIDE DEF t
<1>5. /\ DOMAIN node' = Intact /\ node'[n] = t
      /\ \A m \in Intact : m # n => node'[m] = node[m]
  BY <1>1, Zenon DEF NodesInv
<1>6. NodesInv'
  BY <1>1, <1>4, <1>5, Zenon DEF NodesInv
<1>7. ASSUME NEW m \in Intact, m # n PROVE Steps(m)
  <2>1. Keeps(m, node[m], node[m])
    BY KeepsSelf, Zenon DEF NodesInv
  <2>2. QED
    BY <1>5, <1>7, <2>1, Zenon DEF Keeps, Steps
<1>8. Steps(n)
  BY <1>4, <1>5, Zenon DEF Steps, st
<1>9. QED
  BY <1>6, <1>7, <1>8, Zenon

\* Initially nothing was heard or said.
LEMMA InitInv == Init => NodesInv
<1> SUFFICES ASSUME Init PROVE NodesInv
  BY Zenon
<1> DEFINE s == [NewObject EXCEPT !.said = NewObject.said]
<1>1. s = NewObject
  BY Zenon DEF NewObject
<1>2. IsObject(s) /\ s.emit = NoStatement /\ s.last = NoStatement /\ s.heard = FALSE
  BY NewObjectInv, Zenon
<1>3. \A n \in Intact : ObjectInv(n, NewObject)
  <2> HIDE DEF s
  <2>1. QED
    BY <1>1, <1>2, Zenon DEF ObjectInv, EmitBehind, HeardRight
<1>4. QED
  BY <1>3, Zenon DEF Init, NodesInv

\* Every step keeps the invariant.
LEMMA NextStep ==
    ASSUME NodesInv, [Next]_vars
    PROVE  NodesInv' /\ \A n \in Intact : Steps(n)
<1>1. CASE UNCHANGED vars
  <2>1. node' = node /\ sent' = sent
    BY <1>1, Zenon DEF vars
  <2>2. ASSUME NEW n \in Intact PROVE Steps(n)
    <3>1. Keeps(n, node[n], node[n])
      BY KeepsSelf, Zenon DEF NodesInv
    <3>2. QED
      BY <2>1, <3>1, Zenon DEF Keeps, Steps
  <2>3. QED
    BY <2>1, <2>2, Zenon DEF NodesInv
<1>2. ASSUME NEW n \in Intact, NEW m \in Intact \ {n}, NEW st \in sent[m], ReceiveEnvelope(n, m, st)
      PROVE  NodesInv' /\ \A k \in Intact : Steps(k)
  <2>1. m \in Node /\ st \in AnyStatement
    BY SlicesAssumption, Zenon DEF NodesInv
  <2>2. QED
    BY <1>2, <2>1, ReceiveStep, Zenon
<1>3. ASSUME NEW n \in Intact, NEW m \in Node \ Intact, NEW st \in FaultyStatement,
             ReceiveEnvelope(n, m, st)
      PROVE  NodesInv' /\ \A k \in Intact : Steps(k)
  <2>1. st \in AnyStatement
    BY DriverAssumption, StatementsTyped, Zenon
  <2>2. QED
    BY <1>3, <2>1, ReceiveStep, Zenon
<1>4. QED
  BY <1>1, <1>2, <1>3, CandidateStep, TimerStep, AdvanceSlotStep, RestartStep, Zenon DEF Next

\* Invariance: what a node emitted is never newer than what it has to say, and a node that
\* believes it heard from a quorum has envelopes of one, at its counter or beyond.
THEOREM Invariance == Spec => []NodesInv
<1>1. NodesInv /\ [Next]_vars => NodesInv'
  BY NextStep, Zenon
<1>2. QED
  BY <1>1, InitInv, PTL DEF Spec

\* Every statement a node emits is newer than the one before, also across a restart, whatever
\* the others send (BallotProtocol::sendLatestEnvelope, setStateFromEnvelope).
THEOREM EmitsNewerHolds == Spec => EmitsNewer
<1> DEFINE A == \A n \in Intact :
                  node'[n].emit # node[n].emit => isNewerStatement(node[n].emit, node'[n].emit)
<1>1. NodesInv /\ [Next]_vars => [A]_vars
  <2> SUFFICES ASSUME NodesInv, [Next]_vars PROVE A
    BY Zenon
  <2>1. \A n \in Intact : Steps(n)
    BY NextStep, Zenon
  <2>2. QED
    BY <2>1, Zenon DEF Steps, Follows
<1>2. EmitsNewer <=> [][A]_vars
  BY Zenon DEF EmitsNewer
<1> HIDE DEF A
<1>3. QED
  BY <1>1, <1>2, Invariance, PTL DEF Spec

\* A node that heard from a quorum at its counter does not take it back, however the latest
\* envelopes change (BallotProtocol::checkHeardFromQuorum).
THEOREM HeardStableHolds == Spec => HeardStable
<1> DEFINE A == \A n \in Intact :
                  /\ node[n].heard
                  /\ ~ Restart(n)
                  /\ node'[n].b.counter = node[n].b.counter
                  => node'[n].heard
<1>1. NodesInv /\ [Next]_vars => [A]_vars
  <2> SUFFICES ASSUME NodesInv, [Next]_vars PROVE A
    BY Zenon
  <2>1. \A n \in Intact : Steps(n)
    BY NextStep, Zenon
  <2>2. QED
    BY <2>1, Zenon DEF Steps, Follows
<1>2. HeardStable <=> [][A]_vars
  BY Zenon DEF HeardStable
<1> HIDE DEF A
<1>3. QED
  BY <1>1, <1>2, Invariance, PTL DEF Spec
=============================================================================
