---------------------- MODULE TransactionQueueProofs ----------------------
(***************************************************************************)
(* The books of the transaction queue are right, nothing banned is in it,  *)
(* and it can be proposed, whatever the transactions, the accounts, the    *)
(* limits and the depths of the queue and of the bans.                     *)
(***************************************************************************)
EXTENDS TransactionQueue, SequenceTheorems, FiniteSetTheorems,
        WellFoundedInduction, TLAPS

-----------------------------------------------------------------------------
(* Totals of sets of transactions and chains of consecutive sequence       *)
(* numbers: what the books of the queue rest on.  The sum over a finite    *)
(* set is a recursion on an element that is picked; that it has one        *)
(* solution, and that its order does not matter, follows from the least    *)
(* size of a set for which it would not.                                   *)

pick(s) == CHOOSE x \in s : TRUE

sumStep(w, S, f) ==
    [s \in SUBSET S |-> IF s = {} THEN 0 ELSE w[pick(s)] + f[s \ {pick(s)}]]

sums(w, S) == CHOOSE f : f = sumStep(w, S, f)

-----------------------------------------------------------------------------
\* A set of naturals has a least element.
LEMMA LeastNat ==
    ASSUME NEW S \in SUBSET Nat, S # {}
    PROVE  \E m \in S : \A n \in S : m <= n
<1>1. PICK d \in S : \A e \in S : ~ (<<e, d>> \in OpToRel(<, Nat))
  BY NatLessThanWellFounded, WFMin, Zenon
<1>2. \A e \in S : ~ (e < d)
  BY <1>1, Zenon DEF OpToRel
<1>3. QED
  BY <1>2

\* A set that is not empty has the element picked from it.
LEMMA PickIn ==
    ASSUME NEW s, s # {}
    PROVE  pick(s) \in s
BY Zenon DEF pick

\* The recursion, one step.
LEMMA Unfold ==
    ASSUME NEW w, NEW S
    PROVE  SumFunctionOnSet(w, S) = sums(w, S)[S]
BY Zenon DEF SumFunctionOnSet, FoldFunctionOnSet, MapThenFoldSet, sums, sumStep, pick

\* A subset of a finite set without the element that is picked is smaller.
LEMMA Smaller ==
    ASSUME NEW S, IsFiniteSet(S), NEW s \in SUBSET S
    PROVE  /\ IsFiniteSet(s)
           /\ Cardinality(s) \in Nat
           /\ \A x \in s : /\ s \ {x} \in SUBSET S
                           /\ Cardinality(s \ {x}) = Cardinality(s) - 1
           /\ Cardinality(s) = 0 <=> s = {}
<1>1. IsFiniteSet(s)
  BY FS_Subset, Zenon
<1>2. Cardinality(s) \in Nat
  BY <1>1, FS_CardinalityType, Zenon
<1>3. ASSUME NEW x \in s
      PROVE  s \ {x} \in SUBSET S /\ Cardinality(s \ {x}) = Cardinality(s) - 1
  BY <1>1, FS_RemoveElement, Zenon
<1>4. QED
  BY <1>1, <1>2, <1>3, FS_EmptySet, SMTT(30)

\* The recursion has a solution.
LEMMA SumsExist ==
    ASSUME NEW w, NEW S, IsFiniteSet(S)
    PROVE  \E f : f = sumStep(w, S, f)
<1> DEFINE upTo(n, g) ==
             /\ g = [s \in SUBSET S |-> g[s]]
             /\ \A s \in SUBSET S : Cardinality(s) <= n => g[s] = sumStep(w, S, g)[s]
           Bad == {n \in Nat : ~ \E g : upTo(n, g)}
<1>1. \E g : upTo(0, g)
  <2> DEFINE g == [s \in SUBSET S |-> 0]
  <2>1. \A s \in SUBSET S : Cardinality(s) <= 0 => s = {}
    BY Smaller
  <2>2. upTo(0, g)
    BY <2>1, Zenon DEF sumStep
  <2> HIDE DEF upTo, g
  <2>3. QED
    BY <2>2, Zenon
<1>2. ASSUME NEW n \in Nat, NEW g, upTo(n, g)
      PROVE  \E h : upTo(n + 1, h)
  <2> DEFINE h == [s \in SUBSET S |-> IF Cardinality(s) <= n THEN g[s]
                                      ELSE sumStep(w, S, g)[s]]
  <2>1. ASSUME NEW s \in SUBSET S, s # {}, Cardinality(s) <= n + 1
        PROVE  /\ s \ {pick(s)} \in SUBSET S
               /\ h[s \ {pick(s)}] = g[s \ {pick(s)}]
    <3>1. pick(s) \in s
      BY <2>1, PickIn, Zenon
    <3>2. s \ {pick(s)} \in SUBSET S /\ Cardinality(s \ {pick(s)}) = Cardinality(s) - 1
          /\ Cardinality(s) \in Nat
      BY <3>1, Smaller, SMTT(30)
    <3>3. Cardinality(s \ {pick(s)}) <= n
      BY <3>2, <2>1, SMTT(30)
    <3>4. QED
      BY <3>2, <3>3, Zenon
  <2>2. ASSUME NEW s \in SUBSET S, Cardinality(s) <= n + 1
        PROVE  sumStep(w, S, h)[s] = sumStep(w, S, g)[s]
    BY <2>1, <2>2, Zenon DEF sumStep
  <2>3. ASSUME NEW s \in SUBSET S, Cardinality(s) <= n + 1
        PROVE  h[s] = sumStep(w, S, g)[s]
    BY <1>2, <2>3, Zenon
  <2>4. upTo(n + 1, h)
    BY <2>2, <2>3, Zenon
  <2> HIDE DEF upTo, h
  <2>5. QED
    BY <2>4, Zenon
<1>3. Bad = {}
  <2> SUFFICES ASSUME Bad # {} PROVE FALSE
    BY Zenon
  <2>1. PICK m \in Bad : \A k \in Bad : m <= k
    <3> HIDE DEF Bad
    <3>1. Bad \in SUBSET Nat
      BY Zenon DEF Bad
    <3>2. QED
      BY <3>1, LeastNat, Zenon
  <2> HIDE DEF upTo
  <2>2. m \in Nat /\ ~ \E g : upTo(m, g)
    BY <2>1, Zenon
  <2>3. m # 0
    BY <2>2, <1>1, Zenon
  <2>4. m - 1 \in Nat /\ ~ (m <= m - 1) /\ (m - 1) + 1 = m
    BY <2>2, <2>3, SMTT(30)
  <2>5. \E g : upTo(m - 1, g)
    BY <2>1, <2>4, Zenon
  <2>6. \E g : upTo((m - 1) + 1, g)
    BY <2>5, <2>4, <1>2, Zenon
  <2>7. QED
    BY <2>6, <2>4, <2>2, Zenon
<1>4. Cardinality(S) \in Nat /\ \A s \in SUBSET S : Cardinality(s) <= Cardinality(S)
  BY FS_CardinalityType, FS_Subset, Zenon
<1>5. PICK g : upTo(Cardinality(S), g)
  <2> HIDE DEF upTo
  <2>1. QED
    BY <1>3, <1>4, Zenon
<1>6. g = sumStep(w, S, g)
  <2>1. \A s \in SUBSET S : g[s] = sumStep(w, S, g)[s]
    BY <1>4, <1>5, Zenon
  <2>2. QED
    BY <2>1, <1>5, Zenon DEF sumStep
<1>7. QED
  BY <1>6, Zenon

\* ... and only one.
LEMMA SumsUnique ==
    ASSUME NEW w, NEW S, IsFiniteSet(S), NEW f, NEW g,
           f = sumStep(w, S, f), g = sumStep(w, S, g)
    PROVE  f = g
<1> DEFINE Bad == {n \in Nat : \E s \in SUBSET S : Cardinality(s) = n /\ f[s] # g[s]}
<1>1. ASSUME Bad # {} PROVE FALSE
  <2>1. PICK m \in Bad : \A k \in Bad : m <= k
    <3>1. Bad \in SUBSET Nat
      BY Zenon
    <3> HIDE DEF Bad
    <3>2. QED
      BY <1>1, <3>1, LeastNat, Zenon
  <2>2. PICK s \in SUBSET S : Cardinality(s) = m /\ f[s] # g[s]
    BY <2>1, Zenon
  <2>3. s # {}
    BY <2>2, Zenon DEF sumStep
  <2>4. pick(s) \in s
    BY <2>3, PickIn, Zenon
  <2> DEFINE r == s \ {pick(s)}
  <2>5. r \in SUBSET S /\ Cardinality(r) = Cardinality(s) - 1 /\ Cardinality(s) \in Nat
        /\ Cardinality(s) # 0
    BY <2>3, <2>4, Smaller, SMTT(30)
  <2>6. f[s] = w[pick(s)] + f[r] /\ g[s] = w[pick(s)] + g[r]
    BY <2>3, Zenon DEF sumStep
  <2> HIDE DEF r
  <2>7. f[r] # g[r]
    BY <2>6, <2>2, Zenon
  <2>8. Cardinality(r) \in Bad
    BY <2>5, <2>7
  <2>9. QED
    BY <2>8, <2>1, <2>2, <2>5, SMTT(30)
<1>2. \A s \in SUBSET S : f[s] = g[s]
  BY <1>1, Smaller, Zenon
<1>3. QED
  BY <1>2, Zenon DEF sumStep

\* The solution that is chosen is one.
LEMMA SumsSolve ==
    ASSUME NEW w, NEW S, IsFiniteSet(S)
    PROVE  sums(w, S) = sumStep(w, S, sums(w, S))
BY SumsExist, Zenon DEF sums

\* The sum over a subset does not depend on the set it is a subset of.
LEMMA SumsOfSubset ==
    ASSUME NEW w, NEW S, IsFiniteSet(S), NEW T \in SUBSET S
    PROVE  sums(w, S)[T] = sums(w, T)[T]
<1> DEFINE f == sums(w, S)
           g == [s \in SUBSET T |-> f[s]]
<1>1. f = sumStep(w, S, f)
  BY SumsSolve, Zenon
<1> HIDE DEF f
<1>2. g = sumStep(w, T, g)
  <2>1. ASSUME NEW s \in SUBSET T
        PROVE  g[s] = sumStep(w, T, g)[s]
    <3>1. s \in SUBSET S
      BY Zenon
    <3>2. f[s] = IF s = {} THEN 0 ELSE w[pick(s)] + f[s \ {pick(s)}]
      BY <1>1, <3>1, Zenon DEF sumStep
    <3>3. QED
      BY <3>2, Zenon DEF sumStep
  <2>2. QED
    BY <2>1, Zenon DEF sumStep
<1>3. IsFiniteSet(T)
  BY FS_Subset, Zenon
<1>4. sums(w, T) = sumStep(w, T, sums(w, T))
  BY <1>3, SumsSolve, Zenon
<1>5. sums(w, T) = g
  <2> HIDE DEF g
  <2>1. QED
    BY <1>2, <1>3, <1>4, SumsUnique, Zenon
<1>6. QED
  BY <1>5, Zenon DEF f

\* Nothing adds up to 0.
LEMMA SumEmpty ==
    ASSUME NEW w
    PROVE  SumFunctionOnSet(w, {}) = 0
<1>1. sums(w, {}) = sumStep(w, {}, sums(w, {}))
  BY FS_EmptySet, SumsSolve, Zenon
<1>2. sums(w, {})[{}] = 0
  BY <1>1, Zenon DEF sumStep
<1>3. QED
  BY <1>2, Unfold, Zenon

\* The sum over a set, by the element that is picked.
LEMMA SumPick ==
    ASSUME NEW w, NEW S, IsFiniteSet(S), S # {}
    PROVE  SumFunctionOnSet(w, S) = w[pick(S)] + SumFunctionOnSet(w, S \ {pick(S)})
<1> DEFINE f == sums(w, S)
           T == S \ {pick(S)}
<1>1. f = sumStep(w, S, f)
  BY SumsSolve, Zenon
<1>2. f[S] = w[pick(S)] + f[T]
  <2> HIDE DEF f
  <2>1. QED
    BY <1>1, Zenon DEF sumStep
<1>3. T \in SUBSET S
  BY Zenon
<1> HIDE DEF T
<1>4. f[T] = sums(w, T)[T]
  BY <1>3, SumsOfSubset, Zenon
<1> HIDE DEF f
<1>5. SumFunctionOnSet(w, S) = f[S] /\ SumFunctionOnSet(w, T) = sums(w, T)[T]
  BY Unfold, Zenon DEF f
<1>6. QED
  BY <1>2, <1>4, <1>5, Zenon DEF T

\* Sums of naturals are naturals, and do not depend on the order.
LEMMA SumNatAdd ==
    ASSUME NEW U, IsFiniteSet(U), NEW w \in [U -> Nat]
    PROVE  \A S \in SUBSET U :
              /\ SumFunctionOnSet(w, S) \in Nat
              /\ \A x \in U \ S :
                    SumFunctionOnSet(w, S \cup {x}) = SumFunctionOnSet(w, S) + w[x]
<1> DEFINE sum(S) == SumFunctionOnSet(w, S)
           Right(S) == /\ sum(S) \in Nat
                       /\ \A x \in U \ S : sum(S \cup {x}) = sum(S) + w[x]
           Bad == {n \in Nat : \E S \in SUBSET U : Cardinality(S) = n /\ ~Right(S)}
<1>1. ASSUME NEW S \in SUBSET U, S # {}
      PROVE  sum(S) = w[pick(S)] + sum(S \ {pick(S)})
  BY <1>1, FS_Subset, SumPick, Zenon
<1>2. sum({}) = 0
  BY SumEmpty, Zenon
<1> HIDE DEF sum
<1>3. ASSUME NEW S \in SUBSET U,
             \A T \in SUBSET U : Cardinality(T) < Cardinality(S) => Right(T)
      PROVE  Right(S)
  <2> DEFINE y == pick(S)
             T == S \ {y}
  <2>1. ASSUME S # {}
        PROVE  /\ y \in S /\ T \in SUBSET U /\ Right(T)
               /\ sum(S) = sum(T) + w[y] /\ w[y] \in Nat
    <3>1. y \in S
      BY <2>1, PickIn, Zenon
    <3>2. T \in SUBSET U /\ Cardinality(T) < Cardinality(S)
      BY <3>1, Smaller, SMTT(30)
    <3>3. sum(T) \in Nat
      BY <3>2, <1>3, Zenon
    <3>4. sum(S) = w[y] + sum(T)
      BY <2>1, <1>1, Zenon
    <3>5. w[y] \in Nat
      BY <3>1, Zenon
    <3>6. Right(T)
      BY <3>2, <1>3, Zenon
    <3> HIDE DEF y, T, Right
    <3>7. QED
      BY <3>1, <3>2, <3>3, <3>4, <3>5, <3>6, SMTT(30)
  <2>2. sum(S) \in Nat
    BY <2>1, <1>2, SMTT(30)
  <2>3. ASSUME NEW x \in U \ S
        PROVE  sum(S \cup {x}) = sum(S) + w[x]
    <3> DEFINE V == S \cup {x}
               z == pick(V)
    <3>1. V \in SUBSET U /\ V # {} /\ z \in V
      BY PickIn, Zenon
    <3>2. sum(V) = w[z] + sum(V \ {z})
      BY <3>1, <1>1, Zenon
    <3>w. w[x] \in Nat
      BY Zenon
    <3> HIDE DEF z, T, y, Right
    <3>3. CASE z = x
      <4>1. V \ {z} = S
        BY <3>3, Zenon
      <4>2. QED
        <5>1. sum(V \ {z}) = sum(S)
          BY <4>1, Zenon
        <5> HIDE DEF V
        <5>2. sum(V) = sum(S) + w[x]
          BY <5>1, <3>2, <3>3, <2>2, <3>w, SMTT(30)
        <5>3. QED
          BY <5>2, Zenon DEF V
    <3>4. CASE z # x
      <4> DEFINE R == S \ {z}
      <4>1. z \in S
        BY <3>1, <3>4, Zenon
      <4>2. R \in SUBSET U /\ Cardinality(R) < Cardinality(S)
        BY <4>1, Smaller, SMTT(30)
      <4>3. Right(R)
        BY <4>2, <1>3, Zenon
      <4>4. x \in U \ R /\ z \in U \ R
        BY <4>1, Zenon
      <4>5. sum(R \cup {x}) = sum(R) + w[x] /\ sum(R \cup {z}) = sum(R) + w[z]
            /\ sum(R) \in Nat
        BY <4>3, <4>4, Zenon DEF Right
      <4>6. V \ {z} = R \cup {x} /\ R \cup {z} = S
        BY <4>1, <3>4, Zenon
      <4>7. w[x] \in Nat /\ w[z] \in Nat
        BY <4>1, Zenon
      <4> HIDE DEF V, R
      <4>9. sum(V) = sum(S) + w[x]
        <5>1. sum(V \ {z}) = sum(R \cup {x}) /\ sum(R \cup {z}) = sum(S)
          BY <4>6, Zenon
        <5>2. QED
          BY <5>1, <4>5, <4>7, <3>2, SMTT(30)
      <4>8. QED
        BY <4>9, Zenon DEF V
    <3>5. QED
      BY <3>3, <3>4, Zenon
  <2>4. QED
    BY <2>2, <2>3, Zenon DEF Right
<1>4. ASSUME Bad # {} PROVE FALSE
  <2>1. Bad \in SUBSET Nat
    BY Zenon
  <2>2. PICK m \in Bad : \A k \in Bad : m <= k
    <3> HIDE DEF Bad
    <3>1. QED
      BY <1>4, <2>1, LeastNat, Zenon
  <2> HIDE DEF Right
  <2>3. PICK S \in SUBSET U : Cardinality(S) = m /\ ~Right(S)
    BY <2>2, Zenon
  <2>4. ASSUME NEW T \in SUBSET U, Cardinality(T) < Cardinality(S)
        PROVE  Right(T)
    <3>1. Cardinality(T) \in Nat /\ m \in Nat
      BY <2>2, Smaller, Zenon
    <3>2. Cardinality(T) \notin Bad
      BY <3>1, <2>2, <2>3, <2>4, SMTT(30)
    <3>3. QED
      BY <3>1, <3>2, Zenon
  <2>5. QED
    BY <2>3, <2>4, <1>3, Zenon
<1>5. ASSUME NEW S \in SUBSET U PROVE Right(S)
  <2>1. Cardinality(S) \in Nat
    BY Smaller, Zenon
  <2> HIDE DEF Right
  <2>2. QED
    BY <1>4, <2>1, Zenon
<1>6. QED
  BY <1>5, Zenon DEF sum

\* The sum over a set is that over a part of it and that over the rest.
LEMMA SumSplit ==
    ASSUME NEW U, IsFiniteSet(U), NEW w \in [U -> Nat], NEW S \in SUBSET U
    PROVE  \A T \in SUBSET S :
              /\ SumFunctionOnSet(w, S) \in Nat
              /\ SumFunctionOnSet(w, T) \in Nat
              /\ SumFunctionOnSet(w, S \ T) \in Nat
              /\ SumFunctionOnSet(w, S)
                    = SumFunctionOnSet(w, T) + SumFunctionOnSet(w, S \ T)
<1> DEFINE sum(X) == SumFunctionOnSet(w, X)
           Right(T) == sum(S) = sum(T) + sum(S \ T)
           Bad == {n \in Nat : \E T \in SUBSET S : Cardinality(T) = n /\ ~Right(T)}
<1>1. \A X \in SUBSET U : sum(X) \in Nat
                          /\ \A x \in U \ X : sum(X \cup {x}) = sum(X) + w[x]
  BY SumNatAdd, Zenon
<1>2. sum({}) = 0
  BY SumEmpty, Zenon
<1>3. IsFiniteSet(S)
  BY FS_Subset, Zenon
<1> HIDE DEF sum
<1>4. ASSUME NEW T \in SUBSET S,
             \A R \in SUBSET S : Cardinality(R) < Cardinality(T) => Right(R)
      PROVE  Right(T)
  <2>1. CASE T = {}
    <3>1. S \ T = S
      BY <2>1, Zenon
    <3>2. QED
      BY <3>1, <2>1, <1>1, <1>2, SMTT(30)
  <2>2. CASE T # {}
    <3>1. PICK x \in T : TRUE
      BY <2>2, Zenon
    <3> DEFINE R == T \ {x}
    <3>2. R \in SUBSET S /\ Cardinality(R) < Cardinality(T)
      BY <1>3, Smaller, SMTT(30)
    <3>3. sum(S) = sum(R) + sum(S \ R)
      BY <3>2, <1>4, Zenon
    <3>4. x \in U \ R /\ x \in U \ (S \ T) /\ R \in SUBSET U /\ S \ T \in SUBSET U
      BY Zenon
    <3>5. R \cup {x} = T /\ (S \ T) \cup {x} = S \ R
      BY Zenon
    <3>6. w[x] \in Nat
      BY Zenon
    <3> HIDE DEF R
    <3>7. sum(T) = sum(R) + w[x] /\ sum(S \ R) = sum(S \ T) + w[x]
          /\ sum(R) \in Nat /\ sum(S \ T) \in Nat
      BY <3>4, <3>5, <1>1, Zenon
    <3>8. QED
      BY <3>3, <3>6, <3>7, SMTT(30)
  <2>3. QED
    BY <2>1, <2>2, Zenon
<1>5. ASSUME Bad # {} PROVE FALSE
  <2>1. Bad \in SUBSET Nat
    BY Zenon
  <2>2. PICK m \in Bad : \A k \in Bad : m <= k
    <3> HIDE DEF Bad
    <3>1. QED
      BY <1>5, <2>1, LeastNat, Zenon
  <2> HIDE DEF Right
  <2>3. PICK T \in SUBSET S : Cardinality(T) = m /\ ~Right(T)
    BY <2>2, Zenon
  <2>4. ASSUME NEW R \in SUBSET S, Cardinality(R) < Cardinality(T)
        PROVE  Right(R)
    <3>1. Cardinality(R) \in Nat /\ m \in Nat
      BY <2>2, <1>3, Smaller, Zenon
    <3>2. Cardinality(R) \notin Bad
      BY <3>1, <2>2, <2>3, <2>4, SMTT(30)
    <3>3. QED
      BY <3>1, <3>2, Zenon
  <2>5. QED
    BY <2>3, <2>4, <1>4, Zenon
<1>6. ASSUME NEW T \in SUBSET S
      PROVE  Right(T) /\ sum(S) \in Nat /\ sum(T) \in Nat /\ sum(S \ T) \in Nat
  <2>1. Cardinality(T) \in Nat
    BY <1>3, Smaller, Zenon
  <2>2. Right(T)
    <3> HIDE DEF Right
    <3>1. QED
      BY <1>5, <2>1, Zenon
  <2>3. QED
    BY <2>2, <1>1, Zenon
<1>7. QED
  BY <1>6, Zenon DEF sum

-----------------------------------------------------------------------------
(* Totals of sets of transactions.                                             *)

\* What a transaction consists of.
LEMMA TxFields ==
    ASSUME NEW t \in Tx
    PROVE  /\ t.source \in Account /\ t.feeSource \in Account
           /\ t.seqNum \in Nat /\ t.seqNum # 0 /\ t.fee \in Nat /\ t.ops \in Nat
BY TxAssumption, Zenon

\* The operations of a set are those of a part and those of the rest.
LEMMA OpsSplit ==
    ASSUME NEW S \in SUBSET Tx, NEW T \in SUBSET S
    PROVE  /\ totalOps(S) \in Nat /\ totalOps(T) \in Nat /\ totalOps(S \ T) \in Nat
           /\ totalOps(S) = totalOps(T) + totalOps(S \ T)
<1> DEFINE w == [t \in Tx |-> t.ops]
<1>1. w \in [Tx -> Nat]
  BY TxFields, Zenon
<1>2. totalOps(S) = SumFunctionOnSet(w, S) /\ totalOps(T) = SumFunctionOnSet(w, T)
      /\ totalOps(S \ T) = SumFunctionOnSet(w, S \ T)
  BY Zenon DEF totalOps
<1> HIDE DEF w
<1>3. QED
  BY <1>1, <1>2, SumSplit, TxAssumption, SMTT(30)

\* The fees of a set are those of a part and those of the rest.
LEMMA FeeSplit ==
    ASSUME NEW S \in SUBSET Tx, NEW T \in SUBSET S
    PROVE  /\ totalFee(S) \in Nat /\ totalFee(T) \in Nat /\ totalFee(S \ T) \in Nat
           /\ totalFee(S) = totalFee(T) + totalFee(S \ T)
<1> DEFINE w == [t \in Tx |-> t.fee]
<1>1. w \in [Tx -> Nat]
  BY TxFields, Zenon
<1>2. totalFee(S) = SumFunctionOnSet(w, S) /\ totalFee(T) = SumFunctionOnSet(w, T)
      /\ totalFee(S \ T) = SumFunctionOnSet(w, S \ T)
  BY Zenon DEF totalFee
<1> HIDE DEF w
<1>3. QED
  BY <1>1, <1>2, SumSplit, TxAssumption, SMTT(30)

\* The same for the fees an account pays.
LEMMA FeesFromSplit ==
    ASSUME NEW S \in SUBSET Tx, NEW T \in SUBSET S
    PROVE  \A a : /\ feesFrom(a, S) \in Nat /\ feesFrom(a, T) \in Nat
                 /\ feesFrom(a, S \ T) \in Nat
                 /\ feesFrom(a, S) = feesFrom(a, T) + feesFrom(a, S \ T)
<1> TAKE a
<1> DEFINE of(X) == {t \in X : t.feeSource = a}
<1>1. of(S) \in SUBSET Tx /\ of(T) \in SUBSET of(S) /\ of(S) \ of(T) = of(S \ T)
  BY Zenon
<1>2. totalFee(of(S) \ of(T)) = totalFee(of(S \ T))
  BY <1>1, Zenon
<1> HIDE DEF of
<1>3. /\ totalFee(of(S)) \in Nat /\ totalFee(of(T)) \in Nat
      /\ totalFee(of(S) \ of(T)) \in Nat
      /\ totalFee(of(S)) = totalFee(of(T)) + totalFee(of(S) \ of(T))
  BY <1>1, FeeSplit, Zenon
<1>4. /\ feesFrom(a, S) = totalFee(of(S)) /\ feesFrom(a, T) = totalFee(of(T))
      /\ feesFrom(a, S \ T) = totalFee(of(S \ T))
  BY Zenon DEF feesFrom, of
<1>5. QED
  BY <1>2, <1>3, <1>4, Zenon

\* The totals of no transactions.
LEMMA TotalsEmpty ==
    /\ totalOps({}) = 0
    /\ totalFee({}) = 0
    /\ \A a : feesFrom(a, {}) = 0
<1>1. totalOps({}) = 0 /\ totalFee({}) = 0
  BY SumEmpty, Zenon DEF totalOps, totalFee
<1>2. \A a : {t \in {} : t.feeSource = a} = {}
  BY Zenon
<1>3. QED
  BY <1>1, <1>2, Zenon DEF feesFrom

\* The totals of one transaction.
LEMMA TotalsOne ==
    ASSUME NEW t \in Tx
    PROVE  /\ totalOps({t}) = t.ops
           /\ totalFee({t}) = t.fee
<1>1. {} \in SUBSET Tx /\ t \in Tx \ {} /\ {} \cup {t} = {t}
  BY Zenon
<1>2. ASSUME NEW w \in [Tx -> Nat]
      PROVE  SumFunctionOnSet(w, {t}) = w[t]
  <2>1. SumFunctionOnSet(w, {} \cup {t}) = SumFunctionOnSet(w, {}) + w[t]
    BY <1>1, SumNatAdd, TxAssumption, SMTT(30)
  <2>2. SumFunctionOnSet(w, {}) = 0 /\ w[t] \in Nat
    BY SumEmpty, Zenon
  <2>3. SumFunctionOnSet(w, {} \cup {t}) = SumFunctionOnSet(w, {t})
    BY <1>1, Zenon
  <2>4. QED
    BY <2>1, <2>2, <2>3, SMTT(30)
<1>3. [u \in Tx |-> u.ops] \in [Tx -> Nat] /\ [u \in Tx |-> u.fee] \in [Tx -> Nat]
  BY TxFields, Zenon
<1>4. QED
  BY <1>2, <1>3, Zenon DEF totalOps, totalFee

\* Its fee is paid by its fee source alone.
LEMMA FeesFromOne ==
    ASSUME NEW a, NEW t \in Tx
    PROVE  feesFrom(a, {t}) = IF t.feeSource = a THEN t.fee ELSE 0
<1>1. CASE t.feeSource = a
  <2>1. {u \in {t} : u.feeSource = a} = {t}
    BY <1>1, Zenon
  <2>2. QED
    BY <2>1, <1>1, TotalsOne, Zenon DEF feesFrom
<1>2. CASE t.feeSource # a
  <2>1. {u \in {t} : u.feeSource = a} = {}
    BY <1>2, Zenon
  <2>2. QED
    BY <2>1, <1>2, TotalsEmpty, Zenon DEF feesFrom
<1>3. QED
  BY <1>1, <1>2, Zenon

\* One transaction more.
LEMMA TotalsAdd ==
    ASSUME NEW S \in SUBSET Tx, NEW t \in Tx \ S
    PROVE  /\ totalOps(S \cup {t}) = totalOps(S) + t.ops
           /\ totalOps(S) \in Nat
           /\ \A a : /\ feesFrom(a, S \cup {t}) = feesFrom(a, S) + feesFrom(a, {t})
                     /\ feesFrom(a, S) \in Nat
                     /\ feesFrom(a, {t}) \in Nat
<1> DEFINE U == S \cup {t}
<1>1. U \in SUBSET Tx /\ S \in SUBSET U /\ U \ S = {t} /\ t \in Tx
  BY Zenon
<1>2. totalOps(U \ S) = totalOps({t}) /\ \A a : feesFrom(a, U \ S) = feesFrom(a, {t})
  BY <1>1, Zenon
<1> HIDE DEF U
<1>3. totalOps(U) = totalOps(S) + t.ops /\ totalOps(S) \in Nat
  <2>1. /\ totalOps(S) \in Nat
        /\ totalOps(U) = totalOps(S) + totalOps(U \ S)
    BY <1>1, OpsSplit, Zenon
  <2>2. totalOps(U \ S) = t.ops
    BY <1>1, <1>2, TotalsOne, Zenon
  <2>3. QED
    BY <2>1, <2>2, Zenon
<1>4. ASSUME NEW a
      PROVE  /\ feesFrom(a, U) = feesFrom(a, S) + feesFrom(a, {t})
             /\ feesFrom(a, S) \in Nat
             /\ feesFrom(a, {t}) \in Nat
  <2>1. /\ feesFrom(a, S) \in Nat /\ feesFrom(a, U \ S) \in Nat
        /\ feesFrom(a, U) = feesFrom(a, S) + feesFrom(a, U \ S)
    BY <1>1, FeesFromSplit, Zenon
  <2>2. QED
    BY <2>1, <1>2, Zenon
<1>5. QED
  BY <1>3, <1>4, Zenon DEF U

\* One transaction less.
LEMMA TotalsRemove ==
    ASSUME NEW S \in SUBSET Tx, NEW T \in SUBSET S
    PROVE  /\ totalOps(S \ T) = totalOps(S) - totalOps(T)
           /\ totalOps(S) \in Nat /\ totalOps(T) \in Nat
           /\ \A a : /\ feesFrom(a, S \ T) = feesFrom(a, S) - feesFrom(a, T)
                     /\ feesFrom(a, S) \in Nat
                     /\ feesFrom(a, T) \in Nat
<1>1. totalOps(S \ T) = totalOps(S) - totalOps(T)
      /\ totalOps(S) \in Nat /\ totalOps(T) \in Nat
  <2>1. /\ totalOps(S) \in Nat /\ totalOps(T) \in Nat /\ totalOps(S \ T) \in Nat
        /\ totalOps(S) = totalOps(T) + totalOps(S \ T)
    BY OpsSplit, Zenon
  <2> DEFINE r == totalOps(S \ T)
  <2> HIDE DEF r
  <2>2. /\ totalOps(S) \in Nat /\ totalOps(T) \in Nat /\ r \in Nat
        /\ totalOps(S) = totalOps(T) + r
    BY <2>1, Zenon DEF r
  <2>3. r = totalOps(S) - totalOps(T)
    BY <2>2
  <2>4. QED
    BY <2>2, <2>3, Zenon DEF r
<1>2. ASSUME NEW a
      PROVE  /\ feesFrom(a, S \ T) = feesFrom(a, S) - feesFrom(a, T)
             /\ feesFrom(a, S) \in Nat /\ feesFrom(a, T) \in Nat
  <2> DEFINE r == feesFrom(a, S \ T)
  <2>2. /\ feesFrom(a, S) \in Nat /\ feesFrom(a, T) \in Nat /\ r \in Nat
        /\ feesFrom(a, S) = feesFrom(a, T) + r
    BY FeesFromSplit, Zenon
  <2> HIDE DEF r
  <2>3. r = feesFrom(a, S) - feesFrom(a, T)
    BY <2>2
  <2>4. QED
    BY <2>2, <2>3, Zenon DEF r
<1>3. QED
  BY <1>1, <1>2, Zenon

-----------------------------------------------------------------------------
(* The transactions of an account: consecutive sequence numbers.               *)

Chain(a, s) ==
    /\ s \in Seq(Tx)
    /\ \A i \in 1 .. Len(s) : s[i].source = a
    /\ \A i \in 1 .. Len(s) - 1 : s[i + 1].seqNum = s[i].seqNum + 1

\* The transactions of a chain.
LEMMA ChainFacts ==
    ASSUME NEW a, NEW s, Chain(a, s)
    PROVE  /\ s \in Seq(Tx) /\ Len(s) \in Nat /\ DOMAIN s = 1 .. Len(s)
           /\ \A i \in 1 .. Len(s) : s[i] \in Tx /\ s[i].source = a /\ s[i].seqNum \in Nat
                                     /\ s[i].seqNum # 0
           /\ s = <<>> <=> Len(s) = 0
           /\ Range(s) = {s[i] : i \in 1 .. Len(s)}
           /\ Range(s) \in SUBSET Tx
<1>1. s \in Seq(Tx) /\ Len(s) \in Nat /\ DOMAIN s = 1 .. Len(s)
  BY DEF Chain
<1>2. \A i \in 1 .. Len(s) : s[i] \in Tx /\ s[i].source = a
  BY <1>1 DEF Chain
<1>3. \A i \in 1 .. Len(s) : s[i].seqNum \in Nat /\ s[i].seqNum # 0
  BY <1>2, TxFields, Zenon
<1>4. s = <<>> <=> Len(s) = 0
  BY <1>1
<1>5. Range(s) = {s[i] : i \in 1 .. Len(s)}
  BY <1>1, Zenon DEF Range
<1>6. Range(s) \in SUBSET Tx
  BY <1>5, <1>2, Zenon
<1>7. QED
  BY <1>1, <1>2, <1>3, <1>4, <1>5, <1>6, SMTT(30)

\* The sequence number at a position.
LEMMA ChainNumber ==
    ASSUME NEW a, NEW s, Chain(a, s)
    PROVE  \A i \in 1 .. Len(s) : s[i].seqNum = s[1].seqNum + i - 1
<1> DEFINE Bad == {i \in 1 .. Len(s) : s[i].seqNum # s[1].seqNum + i - 1}
<1>1. ASSUME Bad # {} PROVE FALSE
  <2>1. Len(s) \in Nat /\ Bad \in SUBSET Nat
    BY ChainFacts
  <2>2. PICK m \in Bad : \A k \in Bad : m <= k
    <3> HIDE DEF Bad
    <3>1. QED
      BY <1>1, <2>1, LeastNat, Zenon
  <2>3. s[1].seqNum \in Nat
    BY <2>1, <2>2, ChainFacts, SMTT(30)
  <2>4. m # 1
    BY <2>2, <2>3, SMTT(30)
  <2>5. m - 1 \in 1 .. Len(s) - 1 /\ m - 1 \notin Bad
    BY <2>1, <2>2, <2>4, SMTT(30)
  <2>6. s[(m - 1) + 1].seqNum = s[m - 1].seqNum + 1
    BY <2>5, Zenon DEF Chain
  <2>7. s[m - 1].seqNum = s[1].seqNum + (m - 1) - 1
    BY <2>5, <2>1, SMTT(30)
  <2>8. (m - 1) + 1 = m /\ m \in Nat
    BY <2>1, <2>2, SMTT(30)
  <2>9. s[m].seqNum = s[1].seqNum + m - 1
    BY <2>3, <2>6, <2>7, <2>8, SMTT(30)
  <2>10. QED
    BY <2>2, <2>9, Zenon
<1>2. QED
  BY <1>1, Zenon

\* The sequence number tells the position.
LEMMA ChainInjective ==
    ASSUME NEW a, NEW s, Chain(a, s), NEW i \in 1 .. Len(s), NEW j \in 1 .. Len(s)
    PROVE  /\ s[i].seqNum = s[j].seqNum => i = j
           /\ i < j <=> s[i].seqNum < s[j].seqNum
<1>1. s[i].seqNum = s[1].seqNum + i - 1 /\ s[j].seqNum = s[1].seqNum + j - 1
  BY ChainNumber, Zenon
<1>2. Len(s) \in Nat /\ s[1].seqNum \in Nat
  BY ChainFacts
<1>3. QED
  BY <1>1, <1>2, SMTT(30)

\* A consecutive part of a chain is a chain.
LEMMA ChainPart ==
    ASSUME NEW a, NEW s, Chain(a, s), NEW m \in Nat \ {0}, NEW n \in 0 .. Len(s)
    PROVE  /\ Chain(a, SubSeq(s, m, n))
           /\ Range(SubSeq(s, m, n)) = {s[i] : i \in m .. n}
<1> DEFINE u == SubSeq(s, m, n)
<1>1. Len(s) \in Nat /\ \A i \in m .. n : s[i] \in Tx /\ s[i].source = a
  BY ChainFacts
<1>2. /\ u \in Seq(Tx)
      /\ Len(u) = IF m <= n THEN n - m + 1 ELSE 0
      /\ \A i \in 1 .. n - m + 1 : u[i] = s[m + i - 1]
  BY <1>1, SubSeqProperties, SMTT(30)
<1> HIDE DEF u
<1>3. \A i \in 1 .. Len(u) : u[i] = s[m + i - 1] /\ m + i - 1 \in m .. n
  BY <1>1, <1>2, SMTT(30)
<1>4. \A i \in 1 .. Len(u) : u[i].source = a
  BY <1>1, <1>3, Zenon
<1>5. ASSUME NEW i \in 1 .. Len(u) - 1
      PROVE  u[i + 1].seqNum = u[i].seqNum + 1
  <2>1. u[i] = s[m + i - 1] /\ u[i + 1] = s[m + i] /\ m + i - 1 \in 1 .. Len(s) - 1
        /\ (m + i - 1) + 1 = m + i
    BY <1>1, <1>2, <1>3, SMTT(30)
  <2>2. s[(m + i - 1) + 1].seqNum = s[m + i - 1].seqNum + 1
    BY <2>1, Zenon DEF Chain
  <2>3. QED
    BY <2>1, <2>2, Zenon
<1>6. Chain(a, u)
  BY <1>2, <1>4, <1>5, Zenon DEF Chain
<1>7. Range(u) = {s[i] : i \in m .. n}
  <2>1. Range(u) = {u[i] : i \in 1 .. Len(u)}
    BY <1>6, ChainFacts, SMTT(30)
  <2>2. \A i \in m .. n : i - m + 1 \in 1 .. Len(u) /\ s[i] = u[i - m + 1]
    <3> SUFFICES ASSUME NEW i \in m .. n
                 PROVE  i - m + 1 \in 1 .. Len(u) /\ s[i] = u[i - m + 1]
      BY Zenon
    <3>1. i \in Int /\ m <= i /\ i <= n /\ m <= n
      BY <1>1
    <3> DEFINE j == i - m + 1
    <3>2. j \in 1 .. n - m + 1 /\ j \in 1 .. Len(u) /\ m + j - 1 = i
      BY <1>1, <1>2, <3>1, SMTT(30)
    <3>3. u[j] = s[m + j - 1]
      BY <3>2, <1>2, Zenon
    <3>4. QED
      BY <3>2, <3>3, Zenon
  <2>3. \A x : x \in {u[i] : i \in 1 .. Len(u)} => x \in {s[i] : i \in m .. n}
    BY <1>3, Zenon
  <2>4. \A x : x \in {s[i] : i \in m .. n} => x \in {u[i] : i \in 1 .. Len(u)}
    BY <2>2, Zenon
  <2>5. QED
    BY <2>1, <2>3, <2>4, ZenonT(30)
<1>8. QED
  BY <1>6, <1>7, Zenon DEF u

\* No transactions are a chain.
LEMMA ChainEmpty ==
    ASSUME NEW a
    PROVE  Chain(a, <<>>) /\ Range(<<>>) = {}
<1>1. <<>> \in Seq(Tx) /\ Len(<<>>) = 0
  OBVIOUS
<1>2. Chain(a, <<>>)
  BY <1>1 DEF Chain
<1>3. QED
  BY <1>1, <1>2, ChainFacts, SMTT(30)

\* The next number can be appended.
LEMMA ChainAppend ==
    ASSUME NEW a, NEW s, Chain(a, s), NEW t \in Tx, t.source = a,
           s # <<>> => t.seqNum = s[Len(s)].seqNum + 1
    PROVE  Chain(a, Append(s, t)) /\ Range(Append(s, t)) = Range(s) \cup {t}
<1> DEFINE u == Append(s, t)
<1>1. s \in Seq(Tx) /\ Len(s) \in Nat /\ \A i \in 1 .. Len(s) : s[i].source = a
  BY ChainFacts
<1>2. /\ u \in Seq(Tx)
      /\ Len(u) = Len(s) + 1
      /\ \A i \in 1 .. Len(s) : u[i] = s[i]
      /\ u[Len(s) + 1] = t
  BY <1>1, AppendProperties, SMTT(30)
<1> HIDE DEF u
<1>3. \A i \in 1 .. Len(u) : u[i].source = a
  BY <1>1, <1>2, SMTT(30)
<1>4. ASSUME NEW i \in 1 .. Len(u) - 1
      PROVE  u[i + 1].seqNum = u[i].seqNum + 1
  <2>1. i \in 1 .. Len(s) /\ s # <<>> /\ u[i] = s[i]
    BY <1>1, <1>2, ChainFacts, SMTT(30)
  <2>2. CASE i = Len(s)
    BY <2>1, <2>2, <1>2, Zenon
  <2>3. CASE i # Len(s)
    <3>1. i \in 1 .. Len(s) - 1 /\ i + 1 \in 1 .. Len(s)
      BY <2>1, <2>3, <1>1, SMTT(30)
    <3>2. QED
      BY <3>1, <2>1, <1>2, ZenonT(30) DEF Chain
  <2>4. QED
    BY <2>2, <2>3, Zenon
<1>5. Chain(a, u)
  BY <1>2, <1>3, <1>4, ZenonT(30) DEF Chain
<1>6. Range(u) = Range(s) \cup {t}
  <2>1. Range(u) = {u[i] : i \in 1 .. Len(u)} /\ Range(s) = {s[i] : i \in 1 .. Len(s)}
    BY <1>5, ChainFacts
  <2>2. QED
    BY <2>1, <1>1, <1>2, SMTT(30)
<1>7. QED
  BY <1>5, <1>6, Zenon DEF u

put(s, at, t) == [s EXCEPT ![at] = t]

\* A transaction can be replaced by one of the same number.
LEMMA ChainReplace ==
    ASSUME NEW a, NEW s, Chain(a, s)
    PROVE  \A at \in 1 .. Len(s), t \in Tx :
              t.source = a /\ t.seqNum = s[at].seqNum =>
                  /\ Chain(a, put(s, at, t))
                  /\ Range(put(s, at, t)) = (Range(s) \ {s[at]}) \cup {t}
                  /\ put(s, at, t) # <<>>
<1> SUFFICES ASSUME NEW at \in 1 .. Len(s), NEW t \in Tx,
                    t.source = a, t.seqNum = s[at].seqNum
             PROVE  /\ Chain(a, put(s, at, t))
                    /\ Range(put(s, at, t)) = (Range(s) \ {s[at]}) \cup {t}
                    /\ put(s, at, t) # <<>>
  BY Zenon
<1> DEFINE u == put(s, at, t)
<1>1. s \in Seq(Tx) /\ Len(s) \in Nat /\ \A i \in 1 .. Len(s) : s[i].source = a
  BY ChainFacts, ZenonT(30)
<1>2. /\ u \in Seq(Tx)
      /\ Len(u) = Len(s)
      /\ \A i \in 1 .. Len(s) : u[i] = IF i = at THEN t ELSE s[i]
  BY <1>1, ExceptSeq DEF put
<1> HIDE DEF u
<1>3. \A i \in 1 .. Len(u) : u[i].source = a /\ u[i].seqNum = s[i].seqNum
  BY <1>1, <1>2, Zenon
<1>4. Chain(a, u)
  BY <1>1, <1>2, <1>3, SMTT(30) DEF Chain
<1>5. Range(u) = (Range(s) \ {s[at]}) \cup {t}
  <2>1. Range(u) = {u[i] : i \in 1 .. Len(u)} /\ Range(s) = {s[i] : i \in 1 .. Len(s)}
    BY <1>4, ChainFacts, SMTT(30)
  <2>2. \A i \in 1 .. Len(s) : s[i] = s[at] => i = at
    BY ChainInjective, Zenon
  <2>3. \A x : x \in Range(u) <=> x \in (Range(s) \ {s[at]}) \cup {t}
    BY <2>1, <2>2, <1>2, Zenon
  <2>4. QED
    BY <2>3, Zenon
<1>6. u # <<>>
  BY <1>1, <1>2
<1>7. QED
  BY <1>4, <1>5, <1>6, Zenon DEF u

\* What findBySeq returns.
LEMMA FindBySeq ==
    ASSUME NEW a, NEW s, Chain(a, s), NEW n \in Nat
    PROVE  /\ findBySeq(n, s) \in 0 .. Len(s) + 1
           /\ s = <<>> => findBySeq(n, s) = 0
           /\ findBySeq(n, s) \in 1 .. Len(s) => s[findBySeq(n, s)].seqNum = n
           /\ findBySeq(n, s) = Len(s) + 1 => s # <<>> /\ n = s[Len(s)].seqNum + 1
           /\ \A i \in 1 .. Len(s) : s[i].seqNum = n => findBySeq(n, s) = i
<1>1. CASE s = <<>>
  <2>1. Len(s) = 0 /\ findBySeq(n, s) = 0
    BY <1>1, Zenon DEF findBySeq
  <2>2. QED
    BY <2>1, <1>1, SMTT(30)
<1>2. CASE s # <<>>
  <2>1. Len(s) \in Nat /\ 1 \in 1 .. Len(s) /\ Len(s) \in 1 .. Len(s)
    BY <1>2, ChainFacts, SMTT(30)
  <2>2. s[1].seqNum \in Nat /\ \A i \in 1 .. Len(s) : s[i].seqNum = s[1].seqNum + i - 1
    BY <2>1, ChainFacts, ChainNumber, SMTT(30)
  <2>3. s[Len(s)].seqNum = s[1].seqNum + Len(s) - 1
    BY <2>1, <2>2, Zenon
  <2> DEFINE first == s[1].seqNum
             at == findBySeq(n, s)
  <2>4. at = IF n < first \/ n > s[Len(s)].seqNum + 1 THEN 0 ELSE n - first + 1
    BY <1>2, Zenon DEF findBySeq
  <2> HIDE DEF first, at
  <2>5. /\ first \in Nat /\ at = IF n < first \/ n > first + Len(s) THEN 0 ELSE n - first + 1
        /\ \A i \in 1 .. Len(s) : s[i].seqNum = first + i - 1
    BY <2>1, <2>2, <2>3, <2>4, SMTT(30) DEF first
  <2>6. /\ at \in 0 .. Len(s) + 1
        /\ at \in 1 .. Len(s) => s[at].seqNum = n
        /\ at = Len(s) + 1 => n = s[Len(s)].seqNum + 1
        /\ \A i \in 1 .. Len(s) : s[i].seqNum = n => at = i
    <3>1. CASE n < first \/ n > first + Len(s)
      BY <3>1, <2>1, <2>5, SMTT(30)
    <3>2. CASE ~ (n < first \/ n > first + Len(s))
      <4>1. at = n - first + 1 /\ at \in 1 .. Len(s) + 1 /\ n = first + at - 1
        BY <3>2, <2>1, <2>5, SMTT(30)
      <4>2. at \in 1 .. Len(s) => s[at].seqNum = n
        BY <4>1, <2>5, Zenon
      <4>3. at = Len(s) + 1 => n = s[Len(s)].seqNum + 1
        BY <4>1, <2>1, <2>5, SMTT(30)
      <4>4. \A i \in 1 .. Len(s) : s[i].seqNum = n => at = i
        BY <4>1, <2>1, <2>5, SMTT(30)
      <4>5. QED
        BY <4>1, <4>2, <4>3, <4>4, SMTT(30)
    <3>3. QED
      BY <3>1, <3>2, Zenon
  <2>7. QED
    BY <2>6, <1>2, Zenon DEF at
<1>3. QED
  BY <1>1, <1>2, Zenon

-----------------------------------------------------------------------------
(* A queue whose books are right.                                          *)

Row == [txs : Seq(Tx), fees : Int, ops : Int, age : Nat]

Queue == [accounts : [Account -> Row], ops : Int, banned : [1 .. BanDepth -> SUBSET Tx]]

Ordered(q) == \A a \in Account : Chain(a, q.accounts[a].txs)

Books(q) ==
    /\ q.ops = totalOps(queued(q))
    /\ q.ops <= MaxQueueOps
    /\ \A a \in Account :
          /\ q.accounts[a].fees = feesFrom(a, queued(q))
          /\ q.accounts[a].ops = totalOps(Range(q.accounts[a].txs))
          /\ q.accounts[a].age < PendingDepth
          /\ q.accounts[a].txs = <<>> => q.accounts[a].age = 0

QueueRight(q) == q \in Queue /\ Ordered(q) /\ Books(q)

\* Transactions that differ have different accounts or numbers.
Distinct(S) == \A t, u \in S : t.source = u.source /\ t.seqNum = u.seqNum => t = u

\* The transactions of a queue whose accounts have chains.
LEMMA QueuedFacts ==
    ASSUME NEW q, Ordered(q)
    PROVE  /\ queued(q) \in SUBSET Tx
           /\ \A a \in Account : Range(q.accounts[a].txs) \in SUBSET queued(q)
           /\ \A t \in queued(q) :
                 t.source \in Account /\ t \in Range(q.accounts[t.source].txs)
           /\ \A a \in Account : \A t \in Range(q.accounts[a].txs) : t.source = a
           /\ Distinct(queued(q))
<1>1. ASSUME NEW a \in Account
      PROVE  /\ Chain(a, q.accounts[a].txs)
             /\ Range(q.accounts[a].txs) \in SUBSET Tx
             /\ \A t \in Range(q.accounts[a].txs) : t.source = a
  <2>1. Chain(a, q.accounts[a].txs)
    BY Zenon DEF Ordered
  <2> DEFINE s == q.accounts[a].txs
  <2>c. Chain(a, s)
    BY <2>1, Zenon
  <2> HIDE DEF s
  <2>2. /\ Range(s) = {s[i] : i \in 1 .. Len(s)} /\ Range(s) \in SUBSET Tx
        /\ \A i \in 1 .. Len(s) : s[i].source = a
    BY <2>c, ChainFacts, SMTT(30)
  <2>3. \A t \in Range(s) : t.source = a
    BY <2>2, Zenon
  <2>4. QED
    BY <2>1, <2>2, <2>3, Zenon DEF s
<1>2. queued(q) \in SUBSET Tx
  BY <1>1, Zenon DEF queued
<1>3. \A a \in Account : Range(q.accounts[a].txs) \in SUBSET queued(q)
  BY Zenon DEF queued
<1>4. ASSUME NEW t \in queued(q)
      PROVE  t.source \in Account /\ t \in Range(q.accounts[t.source].txs)
  <2>1. PICK a \in Account : t \in Range(q.accounts[a].txs)
    BY Zenon DEF queued
  <2>2. t.source = a
    BY <2>1, <1>1, Zenon
  <2>3. QED
    BY <2>1, <2>2, Zenon
<1>5. ASSUME NEW t \in queued(q), NEW u \in queued(q),
             t.source = u.source, t.seqNum = u.seqNum
      PROVE  t = u
  <2> DEFINE s == q.accounts[t.source].txs
  <2>1. t \in Range(s) /\ u \in Range(s) /\ Chain(t.source, s)
    BY <1>1, <1>4, <1>5, ZenonT(30)
  <2> HIDE DEF s
  <2>2. PICK i \in 1 .. Len(s), j \in 1 .. Len(s) : t = s[i] /\ u = s[j]
    <3>1. Range(s) = {s[i] : i \in 1 .. Len(s)}
      BY <2>1, ChainFacts, SMTT(30)
    <3>2. QED
      BY <2>1, <3>1, SMTT(30)
  <2>3. s[i].seqNum = s[j].seqNum
    BY <2>2, <1>5, Zenon
  <2>4. i = j
    BY <2>1, <2>3, ChainInjective, Zenon
  <2>5. QED
    BY <2>2, <2>4, Zenon
<1>6. Distinct(queued(q))
  BY <1>5, Zenon DEF Distinct
<1>7. QED
  BY <1>1, <1>2, <1>3, <1>4, <1>6, ZenonT(30)

\* A state that could be erased is the empty one already.
LEMMA EraseIdle ==
    ASSUME NEW r \in Row, r.txs = <<>> => r.ops = 0 /\ r.age = 0
    PROVE  maybeErase(r) = r
<1>1. r = [txs |-> r.txs, fees |-> r.fees, ops |-> r.ops, age |-> r.age]
  BY Zenon DEF Row
<1>2. CASE r.txs = <<>> /\ r.fees = 0
  <2>1. r = AccountState
    BY <1>1, <1>2, Zenon DEF AccountState
  <2>2. QED
    BY <2>1, <1>2, Zenon DEF maybeErase
<1>3. CASE ~ (r.txs = <<>> /\ r.fees = 0)
  BY <1>3, Zenon DEF maybeErase
<1>4. QED
  BY <1>2, <1>3, Zenon

\* What dropTransactions is given: the transactions that stay.
Leaves(q, left, age) ==
    /\ left = [a \in Account |-> left[a]]
    /\ age \in [Account -> Nat]
    /\ \A a \in Account : /\ Chain(a, left[a])
                          /\ Range(left[a]) \in SUBSET Range(q.accounts[a].txs)
                          /\ left[a] # <<>> => age[a] < PendingDepth

staying(left) == UNION {Range(left[a]) : a \in Account}

going(q, left) ==
    UNION {Range(q.accounts[a].txs) \ Range(left[a]) : a \in Account}

rowLeft(q, left, age, a) ==
    [txs |-> left[a],
     fees |-> q.accounts[a].fees - feesFrom(a, going(q, left)),
     ops |-> q.accounts[a].ops - totalOps(Range(q.accounts[a].txs) \ Range(left[a])),
     age |-> IF left[a] = <<>> THEN 0 ELSE age[a]]

\* Those that stay are the queued ones without those that go.
LEMMA Staying ==
    ASSUME NEW q, Ordered(q), NEW left, NEW age, Leaves(q, left, age)
    PROVE  /\ going(q, left) \in SUBSET queued(q)
           /\ staying(left) \in SUBSET queued(q)
           /\ queued(q) \ going(q, left) = staying(left)
<1>1. going(q, left) \in SUBSET queued(q)
  BY Zenon DEF going, queued
<1>2. staying(left) \in SUBSET queued(q)
  BY ZenonT(30) DEF Leaves, staying, queued
<1>3. ASSUME NEW t \in queued(q), t \notin going(q, left)
      PROVE  t \in staying(left)
  <2>1. PICK a \in Account : t \in Range(q.accounts[a].txs)
    BY Zenon DEF queued
  <2>2. t \in Range(left[a])
    <3>1. ASSUME t \notin Range(left[a]) PROVE t \in going(q, left)
      <4>1. t \in Range(q.accounts[a].txs) \ Range(left[a])
        BY <2>1, <3>1, Zenon
      <4>2. QED
        BY <4>1, Zenon DEF going
    <3>2. QED
      BY <3>1, <1>3, Zenon
  <2>3. QED
    BY <2>2, Zenon DEF staying
<1>4. ASSUME NEW t \in staying(left)
      PROVE  t \notin going(q, left)
  <2>1. PICK a \in Account : t \in Range(left[a])
    BY Zenon DEF staying
  <2>2. t \in Range(q.accounts[a].txs)
    BY <2>1, Zenon DEF Leaves
  <2>3. ASSUME NEW b \in Account, t \in Range(q.accounts[b].txs) \ Range(left[b])
        PROVE  FALSE
    <3>1. t.source = a /\ t.source = b
      BY <2>2, <2>3, QueuedFacts, Zenon
    <3>2. QED
      BY <3>1, <2>1, <2>3, ZenonT(30)
  <2>4. QED
    BY <2>3, Zenon DEF going
<1>5. QED
  BY <1>1, <1>2, <1>3, <1>4, SMTT(30)

\* The row of an account after dropTransactions.
LEMMA RowLeft ==
    ASSUME NEW q, QueueRight(q), NEW left, NEW age, Leaves(q, left, age),
           NEW a \in Account
    PROVE  /\ rowLeft(q, left, age, a) \in Row
           /\ maybeErase(rowLeft(q, left, age, a)) = rowLeft(q, left, age, a)
           /\ rowLeft(q, left, age, a).txs = left[a]
           /\ rowLeft(q, left, age, a).fees = feesFrom(a, staying(left))
           /\ rowLeft(q, left, age, a).ops = totalOps(Range(left[a]))
           /\ rowLeft(q, left, age, a).age < PendingDepth
           /\ left[a] = <<>> => rowLeft(q, left, age, a).age = 0
<1> DEFINE txs == q.accounts[a].txs
           r == rowLeft(q, left, age, a)
           gone == going(q, left)
<1>1. Ordered(q) /\ Books(q) /\ q \in Queue
  BY Zenon DEF QueueRight
<1>2. /\ q.accounts[a].fees = feesFrom(a, queued(q))
      /\ q.accounts[a].ops = totalOps(Range(txs))
  BY <1>1, Zenon DEF Books
<1>3. /\ Chain(a, left[a]) /\ Range(left[a]) \in SUBSET Range(txs)
      /\ age[a] \in Nat
      /\ left[a] # <<>> => age[a] < PendingDepth
  BY Zenon DEF Leaves
<1>4. queued(q) \in SUBSET Tx /\ Range(txs) \in SUBSET Tx
  BY <1>1, QueuedFacts, Zenon
<1>5. gone \in SUBSET queued(q) /\ queued(q) \ gone = staying(left)
  BY <1>1, Staying, Zenon
<1>6. feesFrom(a, staying(left)) = feesFrom(a, queued(q)) - feesFrom(a, gone)
      /\ feesFrom(a, queued(q)) \in Nat /\ feesFrom(a, gone) \in Nat
  <2>1. feesFrom(a, queued(q) \ gone) = feesFrom(a, queued(q)) - feesFrom(a, gone)
        /\ feesFrom(a, queued(q)) \in Nat /\ feesFrom(a, gone) \in Nat
    BY <1>4, <1>5, TotalsRemove, ZenonT(30)
  <2>2. QED
    BY <2>1, <1>5, Zenon
<1>7. /\ totalOps(Range(txs))
            = totalOps(Range(left[a])) + totalOps(Range(txs) \ Range(left[a]))
      /\ totalOps(Range(left[a])) \in Nat
      /\ totalOps(Range(txs) \ Range(left[a])) \in Nat
  BY <1>3, <1>4, OpsSplit, ZenonT(30)
<1>8. left[a] = <<>> => totalOps(Range(left[a])) = 0
  BY ChainEmpty, TotalsEmpty, Zenon
<1>9. left[a] \in Seq(Tx)
  BY <1>3, Zenon DEF Chain
<1>10. /\ r.txs = left[a]
       /\ r.fees = feesFrom(a, queued(q)) - feesFrom(a, gone)
       /\ r.ops = totalOps(Range(txs)) - totalOps(Range(txs) \ Range(left[a]))
       /\ r.age = IF left[a] = <<>> THEN 0 ELSE age[a]
       /\ r = [txs |-> r.txs, fees |-> r.fees, ops |-> r.ops, age |-> r.age]
  BY <1>2, Zenon DEF rowLeft
<1> HIDE DEF r, txs, gone
<1>11. r.fees = feesFrom(a, staying(left)) /\ r.ops = totalOps(Range(left[a]))
  <2>1. ASSUME NEW x \in Nat, NEW y \in Nat, NEW z, z = x + y
        PROVE  z - y = x
    BY <2>1, SMTT(30)
  <2>2. QED
    BY <2>1, <1>6, <1>7, <1>10, ZenonT(30)
<1>12. r.age \in Nat /\ r.age < PendingDepth
  BY <1>3, <1>10, DepthAssumption, SMTT(30)
<1>13. r.fees \in Int /\ r.ops \in Int
  BY <1>6, <1>7, <1>11, <1>10, SMTT(30)
<1>14. r \in Row
  BY <1>9, <1>10, <1>12, <1>13, SMTT(30) DEF Row
<1>15. r.txs = <<>> => r.ops = 0 /\ r.age = 0
  BY <1>8, <1>10, <1>11, ZenonT(30)
<1>16. maybeErase(r) = r
  BY <1>14, <1>15, EraseIdle, Zenon
<1>17. QED
  BY <1>10, <1>11, <1>12, <1>14, <1>15, <1>16, SMTT(30) DEF r

\* Dropping transactions keeps the books right.
LEMMA Dropped ==
    ASSUME NEW q, QueueRight(q), NEW left, NEW age, Leaves(q, left, age)
    PROVE  /\ QueueRight(dropTransactions(q, left, age))
           /\ queued(dropTransactions(q, left, age)) = staying(left)
           /\ dropTransactions(q, left, age).banned = q.banned
           /\ \A a \in Account : dropTransactions(q, left, age).accounts[a].txs = left[a]
<1> DEFINE d == dropTransactions(q, left, age)
           row(a) == rowLeft(q, left, age, a)
<1>1. q \in Queue /\ Ordered(q) /\ Books(q)
  BY Zenon DEF QueueRight
<1>2. d = [q EXCEPT !.accounts = [a \in Account |-> maybeErase(row(a))],
                    !.ops = @ - totalOps(going(q, left))]
  BY Zenon DEF dropTransactions, rowLeft, going
<1>3. \A a \in Account : maybeErase(row(a)) = row(a) /\ row(a) \in Row
  BY RowLeft, Zenon
<1> HIDE DEF row, d
<1>4. /\ d.accounts = [a \in Account |-> maybeErase(row(a))]
      /\ d.ops = q.ops - totalOps(going(q, left))
      /\ d.banned = q.banned
      /\ d = [accounts |-> d.accounts, ops |-> d.ops, banned |-> d.banned]
  BY <1>1, <1>2, ZenonT(30) DEF Queue
<1>5. \A a \in Account : d.accounts[a] = row(a) /\ row(a) \in Row
  BY <1>3, <1>4, Zenon
<1>6. ASSUME NEW a \in Account
      PROVE  /\ d.accounts[a].txs = left[a]
             /\ d.accounts[a].fees = feesFrom(a, staying(left))
             /\ d.accounts[a].ops = totalOps(Range(left[a]))
             /\ d.accounts[a].age < PendingDepth
             /\ left[a] = <<>> => d.accounts[a].age = 0
  <2>1. d.accounts[a] = rowLeft(q, left, age, a)
    BY <1>5, Zenon DEF row
  <2> DEFINE r == rowLeft(q, left, age, a)
  <2>2. /\ r.txs = left[a]
        /\ r.fees = feesFrom(a, staying(left))
        /\ r.ops = totalOps(Range(left[a]))
        /\ r.age < PendingDepth
        /\ left[a] = <<>> => r.age = 0
    BY RowLeft
  <2>3. d.accounts[a] = r
    BY <2>1, Zenon
  <2> HIDE DEF r
  <2>4. QED
    BY <2>2, <2>3, Zenon
<1>7. queued(d) = staying(left)
  BY <1>6, Zenon DEF queued, staying
<1>8. Ordered(d)
  BY <1>6, Zenon DEF Ordered, Leaves
<1>9. d.ops = totalOps(queued(d)) /\ d.ops \in Int /\ d.ops <= MaxQueueOps
  <2>1. queued(q) \in SUBSET Tx
    BY <1>1, QueuedFacts, Zenon
  <2>2. going(q, left) \in SUBSET queued(q) /\ queued(q) \ going(q, left) = staying(left)
    BY <1>1, Staying, Zenon
  <2>3. totalOps(queued(q) \ going(q, left)) = totalOps(queued(q)) - totalOps(going(q, left))
        /\ totalOps(queued(q)) \in Nat /\ totalOps(going(q, left)) \in Nat
    BY <2>1, <2>2, TotalsRemove, Zenon
  <2>4. totalOps(queued(d)) = totalOps(queued(q) \ going(q, left))
    BY <2>2, <1>7, Zenon
  <2>5. q.ops = totalOps(queued(q)) /\ q.ops <= MaxQueueOps
    BY <1>1, Zenon DEF Books
  <2>6. d.ops = totalOps(queued(d))
    BY <2>3, <2>4, <2>5, <1>4, ZenonT(30)
  <2>7. d.ops \in Int /\ d.ops <= MaxQueueOps
    BY <2>3, <2>5, <1>4, DepthAssumption, SMTT(30)
  <2>8. QED
    BY <2>6, <2>7, Zenon
<1>10. Books(d)
  <2>1. ASSUME NEW a \in Account
        PROVE  /\ d.accounts[a].fees = feesFrom(a, queued(d))
               /\ d.accounts[a].ops = totalOps(Range(d.accounts[a].txs))
               /\ d.accounts[a].age < PendingDepth
               /\ d.accounts[a].txs = <<>> => d.accounts[a].age = 0
    BY <1>6, <1>7, Zenon
  <2>2. QED
    BY <2>1, <1>9, Zenon DEF Books
<1>11. d \in Queue
  <2>1. d.accounts \in [Account -> Row]
    BY <1>4, <1>3, Zenon
  <2>2. d.banned \in [1 .. BanDepth -> SUBSET Tx]
    BY <1>1, <1>4, Zenon DEF Queue
  <2>3. QED
    BY <2>1, <2>2, <1>4, <1>9, SMTT(30) DEF Queue
<1>12. QueueRight(d)
  BY <1>8, <1>10, <1>11, Zenon DEF QueueRight
<1>13. QED
  BY <1>4, <1>6, <1>7, <1>12, ZenonT(30) DEF d

withBans(q, b) == [q EXCEPT !.banned = b]

\* The books do not depend on the bans.
LEMMA WithBans ==
    ASSUME NEW q, QueueRight(q), NEW b \in [1 .. BanDepth -> SUBSET Tx]
    PROVE  /\ QueueRight(withBans(q, b))
           /\ queued(withBans(q, b)) = queued(q)
           /\ withBans(q, b).banned = b
           /\ withBans(q, b).accounts = q.accounts
<1> DEFINE r == withBans(q, b)
<1>1. q \in Queue /\ Ordered(q) /\ Books(q)
  BY Zenon DEF QueueRight
<1>2. r.accounts = q.accounts /\ r.ops = q.ops /\ r.banned = b /\ r \in Queue
  BY <1>1, Zenon DEF Queue, withBans
<1> HIDE DEF r
<1>3. queued(r) = queued(q)
  BY <1>2, Zenon DEF queued
<1>4. Ordered(r) /\ Books(r)
  BY <1>1, <1>2, <1>3, Zenon DEF Ordered, Books
<1>5. QED
  BY <1>2, <1>3, <1>4, Zenon DEF r, QueueRight

-----------------------------------------------------------------------------
(* Bans.                                                                       *)

\* With a transaction, all those before it.
Prefix(P, S) ==
    /\ P \in SUBSET S
    /\ \A t \in P, u \in S : u.source = t.source /\ u.seqNum < t.seqNum => u \in P

Clean(q) == \A i \in 1 .. BanDepth : q.banned[i] \cap queued(q) = {}

before(s, B) ==
    LET hit == {i \in DOMAIN s : s[i] \in B}
    IN  IF hit = {} THEN s ELSE SubSeq(s, 1, Min(hit) - 1)

\* What is before the first banned transaction of a chain (ban erases the rest).
LEMMA Before ==
    ASSUME NEW a, NEW s, Chain(a, s), NEW B
    PROVE  /\ Chain(a, before(s, B))
           /\ Prefix(Range(before(s, B)), Range(s))
           /\ Range(before(s, B)) \cap B = {}
           /\ before(s, B) # <<>> => s # <<>>
<1> DEFINE hit == {i \in DOMAIN s : s[i] \in B}
           l == before(s, B)
<1>1. /\ Len(s) \in Nat /\ DOMAIN s = 1 .. Len(s) /\ Range(s) = {s[i] : i \in 1 .. Len(s)}
      /\ s = <<>> <=> Len(s) = 0
  BY ChainFacts
<1>2. PICK k \in 0 .. Len(s) : /\ Chain(a, l)
                               /\ Range(l) = {s[i] : i \in 1 .. k}
                               /\ \A i \in 1 .. k : s[i] \notin B
                               /\ l # <<>> => k # 0
  <2>1. CASE hit = {}
    <3>1. l = s
      BY <2>1, Zenon DEF before
    <3> HIDE DEF l
    <3>2. /\ Chain(a, l) /\ Range(l) = {s[i] : i \in 1 .. Len(s)}
          /\ \A i \in 1 .. Len(s) : s[i] \notin B
          /\ l # <<>> => Len(s) # 0
      BY <3>1, <2>1, <1>1, ZenonT(30)
    <3>3. Len(s) \in 0 .. Len(s)
      BY <1>1, SMTT(30)
    <3>4. QED
      BY <3>2, <3>3, Zenon
  <2>2. CASE hit # {}
    <3> DEFINE m == Min(hit)
    <3>1. hit \in SUBSET Nat
      BY <1>1, SMTT(30)
    <3>2. l = SubSeq(s, 1, m - 1)
      BY <2>2, Zenon DEF before
    <3>3. m \in hit /\ \A i \in hit : m <= i
      <4> HIDE DEF hit
      <4>1. \E x \in hit : \A y \in hit : x <= y
        BY <2>2, <3>1, LeastNat, ZenonT(30)
      <4>2. QED
        BY <4>1, Zenon DEF Min
    <3> HIDE DEF m, l
    <3>4. m \in 1 .. Len(s) /\ \A i \in 1 .. m - 1 : s[i] \notin B
      BY <3>3, <1>1, SMTT(30)
    <3>5. m - 1 \in 0 .. Len(s) /\ 1 \in Nat \ {0}
      BY <3>4, <1>1, SMTT(30)
    <3>6. Chain(a, l) /\ Range(l) = {s[i] : i \in 1 .. m - 1}
      BY <3>2, <3>5, ChainPart, SMTT(30)
    <3>7. l # <<>> => m - 1 # 0
      <4>1. ASSUME m - 1 = 0 PROVE l = <<>>
        BY <4>1, <3>2, SubSeqEmpty, SMTT(30)
      <4>2. QED
        BY <4>1, Zenon
    <3>8. QED
      BY <3>4, <3>5, <3>6, <3>7, ZenonT(30)
  <2>3. QED
    BY <2>1, <2>2, Zenon
<1> HIDE DEF l
<1>3. Range(l) \in SUBSET Range(s)
  BY <1>1, <1>2, SMTT(30)
<1>4. ASSUME NEW t \in Range(l), NEW u \in Range(s), u.seqNum < t.seqNum
      PROVE  u \in Range(l)
  <2>1. PICK i \in 1 .. k : t = s[i]
    BY <1>2, Zenon
  <2>2. PICK j \in 1 .. Len(s) : u = s[j]
    BY <1>1, Zenon
  <2>3. i \in 1 .. Len(s)
    BY <1>1, SMTT(30)
  <2>4. j < i
    BY <2>1, <2>2, <2>3, <1>4, ChainInjective, ZenonT(30)
  <2>5. j \in 1 .. k
    BY <2>4, <1>1, SMTT(30)
  <2>6. QED
    BY <2>5, <2>2, <1>2, ZenonT(30)
<1>5. Prefix(Range(l), Range(s))
  BY <1>3, <1>4, ZenonT(30) DEF Prefix
<1>6. Range(l) \cap B = {}
  BY <1>2, Zenon
<1>7. l # <<>> => s # <<>>
  BY <1>1, <1>2, SMTT(30)
<1>8. QED
  BY <1>2, <1>5, <1>6, <1>7, ZenonT(30) DEF l

banLeft(q, B) == [a \in Account |-> before(q.accounts[a].txs, B)]

\* ban drops transactions and bans them.
LEMMA BanUnfold ==
    ASSUME NEW q, NEW B, dropTransactions(q, banLeft(q, B), ages(q)) \in Queue
    PROVE  ban(q, B) = withBans(dropTransactions(q, banLeft(q, B), ages(q)),
                         [dropTransactions(q, banLeft(q, B), ages(q)).banned EXCEPT
                            ![1] = @ \cup B \cup going(q, banLeft(q, B))])
<1> DEFINE d == dropTransactions(q, banLeft(q, B), ages(q))
           g == going(q, banLeft(q, B))
<1>1. ban(q, B) = [d EXCEPT !.banned[1] = @ \cup B \cup g]
  BY Zenon DEF ban, banLeft, before, going
<1> HIDE DEF d, g
<1>2. ban(q, B) = [d EXCEPT !.banned = [d.banned EXCEPT ![1] = d.banned[1] \cup B \cup g]]
  BY <1>1, Zenon DEF d, Queue
<1>3. QED
  BY <1>2, Zenon DEF withBans, d, g

\* What ban leaves and bans.
BansRight(q, B, r) ==
    /\ QueueRight(r)
    /\ Prefix(queued(r), queued(q))
    /\ queued(r) \cap B = {}
    /\ Clean(q) => Clean(r)

\* What ban gives to dropTransactions.
LEMMA BanLeaves ==
    ASSUME NEW q, QueueRight(q), NEW B
    PROVE  /\ Leaves(q, banLeft(q, B), ages(q))
           /\ Prefix(staying(banLeft(q, B)), queued(q))
           /\ staying(banLeft(q, B)) \cap B = {}
<1> DEFINE left == banLeft(q, B)
           age == ages(q)
<1>1. q \in Queue /\ Ordered(q) /\ Books(q)
  BY Zenon DEF QueueRight
<1>2. ASSUME NEW a \in Account
      PROVE  /\ Chain(a, left[a])
             /\ Prefix(Range(left[a]), Range(q.accounts[a].txs))
             /\ Range(left[a]) \cap B = {}
             /\ left[a] # <<>> => age[a] < PendingDepth
  <2>1. left[a] = before(q.accounts[a].txs, B) /\ age[a] = q.accounts[a].age
    BY Zenon DEF banLeft, ages
  <2>2. Chain(a, q.accounts[a].txs)
    BY <1>1, Zenon DEF Ordered
  <2>3. /\ Chain(a, before(q.accounts[a].txs, B))
        /\ Prefix(Range(before(q.accounts[a].txs, B)), Range(q.accounts[a].txs))
        /\ Range(before(q.accounts[a].txs, B)) \cap B = {}
    BY <2>2, Before, Zenon
  <2>4. age[a] < PendingDepth
    BY <1>1, <2>1, Zenon DEF Books
  <2>5. QED
    BY <2>1, <2>3, <2>4, Zenon
<1>3. age \in [Account -> Nat]
  BY <1>1, Zenon DEF ages, Queue, Row
<1>4. left = [a \in Account |-> left[a]]
  BY Zenon DEF banLeft
<1> HIDE DEF left, age
<1>5. Leaves(q, left, age)
  BY <1>2, <1>3, <1>4, ZenonT(30) DEF Leaves, Prefix
<1>6. staying(left) \cap B = {}
  <2> SUFFICES ASSUME NEW t \in staying(left), t \in B PROVE FALSE
    BY Zenon
  <2>1. PICK a \in Account : t \in Range(left[a])
    BY Zenon DEF staying
  <2>2. QED
    BY <1>2, <2>1, SMTT(30)
<1>7. Prefix(staying(left), queued(q))
  <2>1. staying(left) \in SUBSET queued(q)
    BY <1>1, <1>5, Staying, ZenonT(30)
  <2>2. ASSUME NEW t \in staying(left), NEW u \in queued(q),
               u.source = t.source, u.seqNum < t.seqNum
        PROVE  u \in staying(left)
    <3>1. PICK a \in Account : t \in Range(left[a])
      BY Zenon DEF staying
    <3>2. t \in Range(q.accounts[a].txs)
      BY <3>1, <1>2, ZenonT(30) DEF Prefix
    <3>3. t.source = a
      BY <3>2, <1>1, QueuedFacts, Zenon
    <3>4. u \in Range(q.accounts[a].txs)
      BY <3>3, <2>2, <1>1, QueuedFacts, ZenonT(30)
    <3>5. u \in Range(left[a])
      BY <3>1, <3>4, <2>2, <1>2, ZenonT(30) DEF Prefix
    <3>6. QED
      BY <3>5, Zenon DEF staying
  <2>3. QED
    BY <2>1, <2>2, Zenon DEF Prefix
<1>8. QED
  BY <1>5, <1>6, <1>7, SMTT(30) DEF left, age

\* ban keeps the books right and takes the transactions after a banned one along.
LEMMA Banning ==
    ASSUME NEW q, QueueRight(q), NEW B \in SUBSET Tx
    PROVE  BansRight(q, B, ban(q, B))
<1> DEFINE left == banLeft(q, B)
           d == dropTransactions(q, left, ages(q))
           g == going(q, left)
           b == [d.banned EXCEPT ![1] = @ \cup B \cup g]
           r == ban(q, B)
<1>1. Leaves(q, left, ages(q)) /\ Prefix(staying(left), queued(q))
      /\ staying(left) \cap B = {}
  BY BanLeaves, Zenon
<1>2. QueueRight(d) /\ queued(d) = staying(left) /\ d.banned = q.banned
  BY <1>1, Dropped, ZenonT(30)
<1>3. r = withBans(d, b)
  BY <1>2, BanUnfold, Zenon DEF QueueRight
<1>4. q \in Queue /\ Ordered(q)
  BY Zenon DEF QueueRight
<1>5. q.banned \in [1 .. BanDepth -> SUBSET Tx] /\ 1 \in 1 .. BanDepth
  BY <1>4, DepthAssumption, SMTT(30) DEF Queue
<1>6. g \in SUBSET queued(q) /\ queued(q) \ g = staying(left) /\ queued(q) \in SUBSET Tx
  BY <1>1, <1>4, Staying, QueuedFacts, ZenonT(30)
<1> HIDE DEF left, d, g, r
<1>7. /\ b \in [1 .. BanDepth -> SUBSET Tx]
      /\ b[1] = q.banned[1] \cup B \cup g
      /\ \A i \in 1 .. BanDepth : i # 1 => b[i] = q.banned[i]
  BY <1>2, <1>5, <1>6, Zenon
<1> HIDE DEF b
<1>8. QueueRight(r) /\ queued(r) = staying(left) /\ r.banned = b
  BY <1>2, <1>3, <1>7, WithBans, ZenonT(30)
<1>9. ASSUME Clean(q) PROVE Clean(r)
  <2>1. ASSUME NEW i \in 1 .. BanDepth
        PROVE  b[i] \cap staying(left) = {}
    <3>1. q.banned[i] \cap queued(q) = {}
      BY <1>9, Zenon DEF Clean
    <3>2. staying(left) \in SUBSET queued(q) /\ g \cap staying(left) = {}
      BY <1>6, Zenon
    <3>3. QED
      BY <3>1, <3>2, <1>1, <1>7, SMTT(30)
  <2>2. QED
    BY <2>1, <1>8, Zenon DEF Clean
<1>10. QED
  BY <1>1, <1>8, <1>9, ZenonT(30) DEF BansRight, r

-----------------------------------------------------------------------------
(* Shifts and applied transactions.                                            *)

older(q, a) == IF q.accounts[a].txs = <<>> THEN q.accounts[a].age
               ELSE q.accounts[a].age + 1

shiftLeft(q) == [a \in Account |-> IF older(q, a) = PendingDepth THEN <<>>
                                   ELSE q.accounts[a].txs]

shiftAge(q) == [a \in Account |-> older(q, a)]

\* What shift gives to dropTransactions.
LEMMA ShiftLeaves ==
    ASSUME NEW q, QueueRight(q)
    PROVE  Leaves(q, shiftLeft(q), shiftAge(q))
<1> DEFINE left == shiftLeft(q)
           age == shiftAge(q)
<1>1. q \in Queue /\ Ordered(q) /\ Books(q)
  BY Zenon DEF QueueRight
<1>2. ASSUME NEW a \in Account
      PROVE  /\ Chain(a, left[a])
             /\ Range(left[a]) \in SUBSET Range(q.accounts[a].txs)
             /\ age[a] \in Nat
             /\ left[a] # <<>> => age[a] < PendingDepth
  <2> DEFINE s == q.accounts[a].txs
             n == q.accounts[a].age
  <2>1. left[a] = (IF older(q, a) = PendingDepth THEN <<>> ELSE s) /\ age[a] = older(q, a)
    BY Zenon DEF shiftLeft, shiftAge
  <2>2. Chain(a, s) /\ Chain(a, <<>>) /\ Range(<<>>) = {}
    BY <1>1, ChainEmpty, Zenon DEF Ordered
  <2>3. n \in Nat
    BY <1>1, Zenon DEF Queue, Row
  <2>4. n < PendingDepth
    BY <1>1, Zenon DEF Books
  <2>5. older(q, a) = IF s = <<>> THEN n ELSE n + 1
    BY Zenon DEF older
  <2> HIDE DEF s, n
  <2>6. older(q, a) \in Nat /\ (s # <<>> /\ older(q, a) # PendingDepth => older(q, a) < PendingDepth)
    BY <2>3, <2>4, <2>5, DepthAssumption, SMTT(30)
  <2>7. QED
    BY <2>1, <2>2, <2>6, ZenonT(30) DEF s
<1>3. age \in [Account -> Nat]
  BY <1>2, Zenon DEF shiftAge
<1>4. left = [a \in Account |-> left[a]]
  BY Zenon DEF shiftLeft
<1>5. QED
  BY <1>2, <1>3, <1>4, ZenonT(30) DEF Leaves

\* shift keeps the books right and bans what it drops.
LEMMA Shifting ==
    ASSUME NEW q, QueueRight(q)
    PROVE  /\ QueueRight(shift(q))
           /\ queued(shift(q)) \in SUBSET queued(q)
           /\ Clean(q) => Clean(shift(q))
<1> DEFINE left == shiftLeft(q)
           d == dropTransactions(q, left, shiftAge(q))
           g == going(q, left)
           b == <<g>> \o SubSeq(d.banned, 1, BanDepth - 1)
           r == shift(q)
<1>1. Leaves(q, left, shiftAge(q))
  BY ShiftLeaves, Zenon
<1>2. QueueRight(d) /\ queued(d) = staying(left) /\ d.banned = q.banned
  BY <1>1, Dropped, Zenon
<1>3. r = withBans(d, b)
  BY Zenon DEF shift, withBans, shiftLeft, shiftAge, older, going
<1>4. q \in Queue /\ Ordered(q)
  BY Zenon DEF QueueRight
<1>5. q.banned \in [1 .. BanDepth -> SUBSET Tx] /\ BanDepth \in Nat \ {0}
  BY <1>4, DepthAssumption, Zenon DEF Queue
<1>6. g \in SUBSET queued(q) /\ queued(q) \ g = staying(left) /\ queued(q) \in SUBSET Tx
  BY <1>1, <1>4, Staying, QueuedFacts, ZenonT(30)
<1> HIDE DEF left, d, g, r
<1>7. /\ b \in [1 .. BanDepth -> SUBSET Tx]
      /\ b[1] = g
      /\ \A i \in 1 .. BanDepth : i # 1 => b[i] = q.banned[i - 1]
  <2> DEFINE u == SubSeq(q.banned, 1, BanDepth - 1)
             T == SUBSET Tx
  <2>1. \A i \in 1 .. BanDepth - 1 : q.banned[i] \in T
    BY <1>5, SMTT(30)
  <2> HIDE DEF T
  <2>2. BanDepth - 1 \in Int /\ 1 \in Int
    BY <1>5, SMTT(30)
  <2>3. /\ u \in Seq(T)
        /\ Len(u) = IF 1 <= BanDepth - 1 THEN BanDepth - 1 - 1 + 1 ELSE 0
        /\ \A i \in 1 .. BanDepth - 1 - 1 + 1 : u[i] = q.banned[1 + i - 1]
    BY <2>1, <2>2, SubSeqProperties, SMTT(30)
  <2> HIDE DEF u
  <2>4. Len(u) = BanDepth - 1 /\ \A i \in 1 .. BanDepth - 1 : u[i] = q.banned[i]
    BY <2>3, <1>5, SMTT(30)
  <2>5. <<g>> \in Seq(T) /\ Len(<<g>>) = 1 /\ <<g>>[1] = g
    BY <1>6, SMTT(30) DEF T
  <2> DEFINE v == <<g>>
  <2> HIDE DEF v
  <2>6. /\ v \o u \in Seq(T) /\ Len(v \o u) = Len(v) + Len(u)
        /\ \A i \in 1 .. Len(v) + Len(u) :
              (v \o u)[i] = IF i <= Len(v) THEN v[i] ELSE u[i - Len(v)]
    BY <2>3, <2>5, ConcatProperties, SMTT(30) DEF v
  <2>7. b = v \o u
    BY <1>2, Zenon DEF u, v
  <2> HIDE DEF b
  <2>8. b \in Seq(T) /\ Len(b) = BanDepth /\ b[1] = g
        /\ \A i \in 1 .. BanDepth : i # 1 => b[i] = u[i - 1]
    BY <2>4, <2>5, <2>6, <2>7, <1>5, SMTT(30) DEF v
  <2>9. b \in [1 .. BanDepth -> T]
    BY <2>8, LenProperties, ZenonT(30)
  <2>10. \A i \in 1 .. BanDepth : i # 1 => b[i] = q.banned[i - 1]
    <3> SUFFICES ASSUME NEW i \in 1 .. BanDepth, i # 1
                 PROVE  b[i] = q.banned[i - 1]
      BY Zenon
    <3>1. i - 1 \in 1 .. BanDepth - 1
      BY <1>5, SMTT(30)
    <3>2. QED
      BY <3>1, <2>4, <2>8, ZenonT(30)
  <2>11. QED
    BY <2>8, <2>9, <2>10, SMTT(30) DEF T
<1> HIDE DEF b
<1>8. QueueRight(r) /\ queued(r) = staying(left) /\ r.banned = b
  BY <1>2, <1>3, <1>7, WithBans, ZenonT(30)
<1>9. ASSUME Clean(q) PROVE Clean(r)
  <2>1. ASSUME NEW i \in 1 .. BanDepth
        PROVE  b[i] \cap staying(left) = {}
    <3>1. staying(left) \in SUBSET queued(q) /\ g \cap staying(left) = {}
      BY <1>6, ZenonT(30)
    <3>2. CASE i = 1
      BY <3>1, <3>2, <1>7, ZenonT(30)
    <3>3. CASE i # 1
      <4>1. i - 1 \in 1 .. BanDepth
        BY <3>3, <1>5, SMTT(30)
      <4>2. q.banned[i - 1] \cap queued(q) = {}
        BY <4>1, <1>9, ZenonT(30) DEF Clean
      <4>3. b[i] = q.banned[i - 1]
        BY <3>3, <1>7, ZenonT(30)
      <4>4. QED
        BY <4>2, <4>3, <3>1, ZenonT(30)
    <3>4. QED
      BY <3>2, <3>3, ZenonT(30)
  <2>2. QED
    BY <2>1, <1>8, ZenonT(30) DEF Clean
<1>10. staying(left) \in SUBSET queued(q)
  BY <1>6, Zenon
<1>11. QED
  BY <1>8, <1>9, <1>10, Zenon DEF r

\* A bounded set of numbers has a greatest one.
LEMMA MaxRight ==
    ASSUME NEW S \in SUBSET Nat, S # {}, NEW m \in Nat, \A n \in S : n <= m
    PROVE  Max(S) \in S /\ \A n \in S : Max(S) >= n
<1> DEFINE Up == {k \in Nat : \A n \in S : n <= k}
<1>1. Up \in SUBSET Nat /\ Up # {}
  BY Zenon
<1>2. PICK k \in Up : \A j \in Up : k <= j
  <2> HIDE DEF Up
  <2>1. QED
    BY <1>1, LeastNat, ZenonT(30)
<1>3. k \in S
  <2>1. CASE k = 0
    <3>1. PICK n \in S : TRUE
      BY Zenon
    <3>2. n \in Nat /\ n <= k
      BY <1>2, Zenon
    <3>3. n = 0
      BY <3>2, <2>1, SMTT(30)
    <3>4. QED
      BY <3>3, <2>1, ZenonT(30)
  <2>2. CASE k # 0
    <3> SUFFICES ASSUME k \notin S PROVE FALSE
      BY Zenon
    <3>1. k - 1 \in Nat /\ \A n \in S : n <= k - 1
      BY <1>2, <2>2, SMTT(30)
    <3>2. k - 1 \in Up
      BY <3>1, Zenon
    <3>3. k <= k - 1
      BY <3>2, <1>2, ZenonT(30)
    <3>4. QED
      BY <3>3, <1>1, <1>2, SMTT(30)
  <2>3. QED
    BY <2>1, <2>2, ZenonT(30)
<1>4. \E x \in S : \A y \in S : x >= y
  BY <1>2, <1>3, Zenon
<1>5. QED
  BY <1>4, Zenon DEF Max

\* Some number is above all sequence numbers.
LEMMA NumberBound == \E m \in Nat : \A t \in Tx : t.seqNum <= m
<1> DEFINE w == [t \in Tx |-> t.seqNum]
           m == SumFunctionOnSet(w, Tx)
<1>1. w \in [Tx -> Nat] /\ \A t \in Tx : w[t] = t.seqNum
  BY TxFields, Zenon
<1> HIDE DEF w
<1>2. ASSUME NEW t \in Tx PROVE w[t] <= m /\ m \in Nat
  <2> DEFINE S == Tx \ {t}
  <2>1. S \in SUBSET Tx /\ t \in Tx \ S /\ S \cup {t} = Tx
    BY Zenon
  <2> HIDE DEF S
  <2>2. SumFunctionOnSet(w, S \cup {t}) = SumFunctionOnSet(w, S) + w[t]
        /\ SumFunctionOnSet(w, S) \in Nat
    BY <2>1, <1>1, TxAssumption, SumNatAdd, SMTT(30)
  <2>3. m = SumFunctionOnSet(w, S) + w[t]
    BY <2>1, <2>2, ZenonT(30)
  <2>4. w[t] \in Nat
    BY <1>1, Zenon
  <2> HIDE DEF m
  <2>5. QED
    BY <2>2, <2>3, <2>4, SMTT(30)
<1>3. CASE Tx = {}
  BY <1>3, Zenon
<1>4. CASE Tx # {}
  <2>1. m \in Nat /\ \A t \in Tx : t.seqNum <= m
    BY <1>4, <1>1, <1>2, Zenon
  <2> HIDE DEF m
  <2>2. QED
    BY <2>1, Zenon
<1>5. QED
  BY <1>3, <1>4, ZenonT(30)

\* The highest sequence number of an account, from n on.
highestFrom(n, S, a) ==
    Max({n} \cup {t.seqNum : t \in {u \in S : u.source = a}})

\* It is a number.
LEMMA HighestFrom ==
    ASSUME NEW n \in Nat, NEW S \in SUBSET Tx, NEW a
    PROVE  highestFrom(n, S, a) \in Nat
<1> DEFINE N == {n} \cup {t.seqNum : t \in {u \in S : u.source = a}}
<1>1. PICK m \in Nat : \A t \in Tx : t.seqNum <= m
  BY NumberBound, Zenon
<1>2. N \in SUBSET Nat /\ N # {}
  BY TxFields, Zenon
<1>3. n + m \in Nat /\ \A k \in N : k <= n + m
  BY <1>1, TxFields, SMTT(30)
<1>4. highestFrom(n, S, a) = Max(N)
  BY Zenon DEF highestFrom
<1> HIDE DEF N
<1>5. Max(N) \in N
  BY <1>2, <1>3, MaxRight, ZenonT(30)
<1>6. QED
  BY <1>2, <1>4, <1>5, ZenonT(30)

appliedTouch(q, S, a) ==
    q.accounts[a].txs # <<>> /\ q.accounts[a].txs[1].seqNum <= highestFrom(0, S, a)

appliedLeft(q, S) ==
    [a \in Account |->
        IF ~appliedTouch(q, S, a) THEN q.accounts[a].txs
        ELSE IF findBySeq(highestFrom(0, S, a), q.accounts[a].txs) = 0 THEN <<>>
        ELSE SubSeq(q.accounts[a].txs,
                    findBySeq(highestFrom(0, S, a), q.accounts[a].txs) + 1,
                    Len(q.accounts[a].txs))]

appliedAge(q, S) ==
    [a \in Account |-> IF appliedTouch(q, S, a) THEN 0 ELSE q.accounts[a].age]

\* What removeApplied gives to dropTransactions.
LEMMA AppliedLeaves ==
    ASSUME NEW q, QueueRight(q), NEW S \in SUBSET Tx
    PROVE  Leaves(q, appliedLeft(q, S), appliedAge(q, S))
<1> DEFINE left == appliedLeft(q, S)
           age == appliedAge(q, S)
<1>1. q \in Queue /\ Ordered(q) /\ Books(q)
  BY Zenon DEF QueueRight
<1>2. ASSUME NEW a \in Account
      PROVE  /\ Chain(a, left[a])
             /\ Range(left[a]) \in SUBSET Range(q.accounts[a].txs)
             /\ age[a] \in Nat
             /\ age[a] < PendingDepth
  <2> DEFINE s == q.accounts[a].txs
             n == q.accounts[a].age
             k == findBySeq(highestFrom(0, S, a), s)
  <2>1. /\ left[a] = (IF ~appliedTouch(q, S, a) THEN s
                      ELSE IF k = 0 THEN <<>> ELSE SubSeq(s, k + 1, Len(s)))
        /\ age[a] = IF appliedTouch(q, S, a) THEN 0 ELSE n
    BY Zenon DEF appliedLeft, appliedAge
  <2>2. Chain(a, s) /\ Chain(a, <<>>) /\ Range(<<>>) = {}
    BY <1>1, ChainEmpty, ZenonT(30) DEF Ordered
  <2>3. n \in Nat
    BY <1>1, Zenon DEF Queue, Row
  <2>4. n < PendingDepth
    BY <1>1, Zenon DEF Books
  <2>5. highestFrom(0, S, a) \in Nat
    BY HighestFrom, Zenon
  <2> HIDE DEF s, n
  <2>6. k \in 0 .. Len(s) + 1
    BY <2>2, <2>5, FindBySeq, SMTT(30)
  <2>7. Len(s) \in Nat /\ Range(s) = {s[i] : i \in 1 .. Len(s)}
    BY <2>2, ChainFacts, SMTT(30)
  <2> HIDE DEF k
  <2>8. k + 1 \in Nat \ {0} /\ Len(s) \in 0 .. Len(s)
    BY <2>6, <2>7, SMTT(30)
  <2> DEFINE v == SubSeq(s, k + 1, Len(s))
  <2>9. Chain(a, v) /\ Range(v) = {s[i] : i \in k + 1 .. Len(s)}
    BY <2>2, <2>8, ChainPart, SMTT(30)
  <2> HIDE DEF v
  <2>10. Range(v) \in SUBSET Range(s)
    BY <2>9, <2>6, <2>7, SMTT(30)
  <2>11. Chain(a, left[a]) /\ Range(left[a]) \in SUBSET Range(s)
    BY <2>1, <2>2, <2>9, <2>10, ZenonT(30) DEF v
  <2>12. age[a] \in Nat /\ age[a] < PendingDepth
    BY <2>1, <2>3, <2>4, DepthAssumption, SMTT(30)
  <2>13. QED
    BY <2>11, <2>12, ZenonT(30) DEF s
<1>3. age \in [Account -> Nat]
  BY <1>2, Zenon DEF appliedAge
<1>4. left = [a \in Account |-> left[a]]
  BY Zenon DEF appliedLeft
<1>5. QED
  BY <1>2, <1>3, <1>4, ZenonT(30) DEF Leaves

\* removeApplied keeps the books right.
LEMMA Applying ==
    ASSUME NEW q, QueueRight(q), NEW S \in SUBSET Tx
    PROVE  /\ QueueRight(removeApplied(q, S))
           /\ queued(removeApplied(q, S)) \in SUBSET queued(q)
           /\ Clean(q) => Clean(removeApplied(q, S))
<1> DEFINE left == appliedLeft(q, S)
           age == appliedAge(q, S)
           r == removeApplied(q, S)
<1>1. Leaves(q, left, age)
  BY AppliedLeaves, Zenon
<1>2. r = dropTransactions(q, left, age)
  BY Zenon DEF removeApplied, appliedLeft, appliedAge, appliedTouch, highestFrom
<1> HIDE DEF left, age, r
<1>3. QueueRight(r) /\ queued(r) = staying(left) /\ r.banned = q.banned
  BY <1>1, <1>2, Dropped, ZenonT(30)
<1>4. staying(left) \in SUBSET queued(q)
  BY <1>1, Staying, ZenonT(30) DEF QueueRight
<1>5. ASSUME Clean(q) PROVE Clean(r)
  BY <1>3, <1>4, <1>5, ZenonT(30) DEF Clean
<1>6. QED
  BY <1>3, <1>4, <1>5, ZenonT(30) DEF r

-----------------------------------------------------------------------------
(* A transaction is added.                                                     *)

txsWith(q, t) ==
    IF replaced(q, t) = {} THEN Append(q.accounts[t.source].txs, t)
    ELSE [q.accounts[t.source].txs EXCEPT
             ![findBySeq(t.seqNum, q.accounts[t.source].txs)] = t]

currentOf(q, t) ==
    IF q.accounts[t.source].txs = <<>> THEN 0
    ELSE IF feeBump(t) THEN t.seqNum - 1
    ELSE q.accounts[t.source].txs[Len(q.accounts[t.source].txs)].seqNum

\* What canAdd has found out when it lets a transaction in.
LEMMA CanAdd ==
    ASSUME NEW q, NEW t, canAdd(q, t) = "PENDING"
    PROVE  /\ ~isBanned(q, t)
           /\ LET s == q.accounts[t.source].txs
                  at == findBySeq(t.seqNum, s)
              IN  /\ at \in DOMAIN s => ~isDuplicateTx(s[at], t)
                  /\ feeBump(t) /\ s # <<>> => at # 0
           /\ ~ (t.ops - totalOps(replaced(q, t)) + q.ops > MaxQueueOps)
           /\ checkValid(ledger, t, currentOf(q, t))
           /\ ~ (ledger.balance[t.feeSource] - (t.fee - feesFrom(t.feeSource, replaced(q, t)))
                   < q.accounts[t.feeSource].fees)
BY Zenon DEF canAdd, currentOf

\* Where the transaction goes, and what it replaces.
Admits(q, t) ==
    /\ t \notin queued(q)
    /\ Chain(t.source, txsWith(q, t))
    /\ txsWith(q, t) # <<>>
    /\ replaced(q, t) \in SUBSET Range(q.accounts[t.source].txs)
    /\ Range(txsWith(q, t)) = (Range(q.accounts[t.source].txs) \ replaced(q, t)) \cup {t}
    /\ \A o \in replaced(q, t) : o.seqNum = t.seqNum /\ o.source = t.source
    /\ replaced(q, t) = {} /\ q.accounts[t.source].txs # <<>> =>
          t.seqNum = q.accounts[t.source].txs[Len(q.accounts[t.source].txs)].seqNum + 1

\* Where a transaction goes that canAdd lets in.
LEMMA Admission ==
    ASSUME NEW q, Ordered(q), NEW t \in Tx, canAdd(q, t) = "PENDING"
    PROVE  Admits(q, t)
<1> DEFINE a == t.source
           s == q.accounts[a].txs
           at == findBySeq(t.seqNum, s)
           old == replaced(q, t)
           new == txsWith(q, t)
           last == s[Len(s)].seqNum
<1>1. a \in Account /\ t.seqNum \in Nat
  BY TxFields, Zenon
<1>2. Chain(a, s)
  BY <1>1, Zenon DEF Ordered
<1>3. /\ at \in DOMAIN s => ~isDuplicateTx(s[at], t)
      /\ feeBump(t) /\ s # <<>> => at # 0
      /\ checkValid(ledger, t, currentOf(q, t))
  BY CanAdd, Zenon
<1>4. old = IF feeBump(t) /\ at \in DOMAIN s THEN {s[at]} ELSE {}
  BY Zenon DEF replaced
<1>5. new = IF old = {} THEN Append(s, t) ELSE [s EXCEPT ![at] = t]
  BY Zenon DEF txsWith
<1>6. currentOf(q, t) = IF s = <<>> THEN 0 ELSE IF feeBump(t) THEN t.seqNum - 1 ELSE last
  BY Zenon DEF currentOf
<1>7. t \in queued(q) => t \in Range(s)
  BY QueuedFacts, Zenon
<1> HIDE DEF a, s, old, new
<1>8. /\ Len(s) \in Nat /\ DOMAIN s = 1 .. Len(s) /\ Range(s) = {s[i] : i \in 1 .. Len(s)}
      /\ \A i \in 1 .. Len(s) : s[i].source = a /\ s[i].seqNum \in Nat /\ s[i].seqNum # 0
      /\ s = <<>> <=> Len(s) = 0
  BY <1>2, ChainFacts, SMTT(30)
<1>9. /\ at \in 0 .. Len(s) + 1
      /\ at \in 1 .. Len(s) => s[at].seqNum = t.seqNum
      /\ at = Len(s) + 1 => t.seqNum = last + 1
      /\ \A i \in 1 .. Len(s) : s[i].seqNum = t.seqNum => at = i
  BY <1>1, <1>2, FindBySeq, ZenonT(30)
<1> HIDE DEF at
<1>10. t \notin queued(q)
  <2> SUFFICES ASSUME t \in Range(s) PROVE FALSE
    BY <1>7, Zenon
  <2>1. PICK i \in 1 .. Len(s) : t = s[i]
    BY <1>8, Zenon
  <2>2. at = i
    BY <2>1, <1>9, ZenonT(30)
  <2>3. ~isDuplicateTx(t, t)
    BY <2>1, <2>2, <1>3, <1>8, ZenonT(30)
  <2>4. QED
    BY <2>3, Zenon DEF isDuplicateTx
<1>11. CASE old # {}
  <2>1. at \in 1 .. Len(s) /\ old = {s[at]}
    BY <1>11, <1>4, <1>8, ZenonT(30)
  <2>2. new = put(s, at, t)
    BY <1>5, <1>11, ZenonT(30) DEF put
  <2>3. t.seqNum = s[at].seqNum /\ t.source = a
    BY <2>1, <1>9, ZenonT(30) DEF a
  <2>4. /\ Chain(a, new) /\ Range(new) = (Range(s) \ {s[at]}) \cup {t} /\ new # <<>>
    <3>1. \A i \in 1 .. Len(s), u \in Tx :
              u.source = a /\ u.seqNum = s[i].seqNum =>
                  /\ Chain(a, put(s, i, u))
                  /\ Range(put(s, i, u)) = (Range(s) \ {s[i]}) \cup {u}
                  /\ put(s, i, u) # <<>>
      BY <1>2, ChainReplace, ZenonT(30)
    <3>2. QED
      BY <3>1, <2>1, <2>2, <2>3, ZenonT(30)
  <2>5. s[at] \in Range(s) /\ s[at].source = a
    BY <2>1, <1>8, SMTT(30)
  <2>6. old \in SUBSET Range(s) /\ \A o \in old : o.seqNum = t.seqNum /\ o.source = a
    BY <2>1, <2>3, <2>5, SMTT(30)
  <2>7. Range(new) = (Range(s) \ old) \cup {t}
    BY <2>4, <2>1, ZenonT(30)
  <2>8. QED
    BY <2>4, <2>6, <2>7, <1>10, <1>11, ZenonT(30) DEF Admits, a, s, old, new
<1>12. CASE old = {}
  <2>1. new = Append(s, t)
    BY <1>5, <1>12, ZenonT(30)
  <2>2. ASSUME s # <<>> PROVE t.seqNum = last + 1
    <3>1. CASE feeBump(t)
      <4>1. at \notin 1 .. Len(s)
        BY <3>1, <1>4, <1>8, <1>12, SMTT(30)
      <4>2. at = Len(s) + 1
        BY <4>1, <3>1, <2>2, <1>3, <1>8, <1>9, SMTT(30)
      <4>3. QED
        BY <4>2, <1>9, SMTT(30)
    <3>2. CASE ~feeBump(t)
      <4>1. last \in Nat /\ last # 0 /\ currentOf(q, t) = last
        BY <3>2, <2>2, <1>6, <1>8, SMTT(30)
      <4>2. QED
        BY <4>1, <1>3, ZenonT(30) DEF checkValid
    <3>3. QED
      BY <3>1, <3>2, SMTT(30)
  <2>3. t.source = a
    BY Zenon DEF a
  <2>4. Chain(a, new) /\ Range(new) = Range(s) \cup {t}
    BY <2>1, <2>2, <2>3, <1>2, ChainAppend, SMTT(30)
  <2>5. new # <<>>
    BY <2>1, <1>2, AppendProperties, SMTT(30) DEF Chain
  <2>6. Range(s) \ old = Range(s) /\ old \in SUBSET Range(s)
    BY <1>12, ZenonT(30)
  <2>7. Range(new) = (Range(s) \ old) \cup {t}
    BY <2>4, <2>6, ZenonT(30)
  <2>8. \A o \in old : o.seqNum = t.seqNum /\ o.source = a
    BY <1>12, Zenon
  <2>9. QED
    BY <2>2, <2>4, <2>5, <2>6, <2>7, <2>8, <1>10, ZenonT(30) DEF Admits, a, s, old, new
<1>13. QED
  BY <1>11, <1>12, ZenonT(30)

\* The state of an account without what is replaced.
released(q, t, b) ==
    maybeErase([q.accounts[b] EXCEPT !.fees = @ - feesFrom(b, replaced(q, t))])

\* What addTx makes of the state of an account.
RowWith(q, t, b, r) ==
    /\ r \in Row
    /\ r.txs = IF b = t.source THEN txsWith(q, t) ELSE q.accounts[b].txs
    /\ r.fees = q.accounts[b].fees - feesFrom(b, replaced(q, t)) + feesFrom(b, {t})
    /\ r.ops = IF b = t.source
               THEN q.accounts[b].ops - totalOps(replaced(q, t)) + t.ops
               ELSE q.accounts[b].ops
    /\ r.age = q.accounts[b].age

\* The transaction that is replaced.
LEMMA OldFacts ==
    ASSUME NEW q, QueueRight(q), NEW t \in Tx, Admits(q, t)
    PROVE  /\ replaced(q, t) \in SUBSET queued(q)
           /\ replaced(q, t) \in SUBSET Tx
           /\ totalOps(replaced(q, t)) \in Nat
           /\ \A b : feesFrom(b, replaced(q, t)) \in Nat
<1> DEFINE old == replaced(q, t)
<1>1. t.source \in Account
  BY TxFields, Zenon
<1>2. Range(q.accounts[t.source].txs) \in SUBSET queued(q) /\ queued(q) \in SUBSET Tx
  BY <1>1, QueuedFacts, ZenonT(30) DEF QueueRight
<1>3. old \in SUBSET Range(q.accounts[t.source].txs)
  BY Zenon DEF Admits
<1> HIDE DEF old
<1>4. old \in SUBSET queued(q) /\ old \in SUBSET Tx /\ old \in SUBSET old
  BY <1>2, <1>3, SMTT(30)
<1>5. totalOps(old) \in Nat /\ \A b : feesFrom(b, old) \in Nat
  BY <1>4, TotalsRemove, Zenon
<1>6. QED
  BY <1>4, <1>5, SMTT(30) DEF old

\* The totals of an account once the replaced transaction is released.
LEMMA Released ==
    ASSUME NEW q, QueueRight(q), NEW t \in Tx, Admits(q, t), NEW b \in Account
    PROVE  /\ released(q, t, b) \in Row
           /\ released(q, t, b).txs = q.accounts[b].txs
           /\ released(q, t, b).fees = q.accounts[b].fees - feesFrom(b, replaced(q, t))
           /\ released(q, t, b).ops = q.accounts[b].ops
           /\ released(q, t, b).age = q.accounts[b].age
<1> DEFINE fees == feesFrom(b, replaced(q, t))
           row == [q.accounts[b] EXCEPT !.fees = @ - fees]
<1>1. q \in Queue /\ Books(q)
  BY Zenon DEF QueueRight
<1>2. q.accounts[b] \in Row
  BY <1>1, Zenon DEF Queue
<1>3. fees \in Nat
  BY OldFacts, Zenon
<1> HIDE DEF fees
<1>4. /\ row \in Row
      /\ row.txs = q.accounts[b].txs
      /\ row.fees = q.accounts[b].fees - fees
      /\ row.ops = q.accounts[b].ops
      /\ row.age = q.accounts[b].age
  BY <1>2, <1>3, SMTT(30) DEF Row
<1>5. q.accounts[b].txs = <<>> => q.accounts[b].ops = 0 /\ q.accounts[b].age = 0
  <2>1. /\ q.accounts[b].ops = totalOps(Range(q.accounts[b].txs))
        /\ q.accounts[b].txs = <<>> => q.accounts[b].age = 0
    BY <1>1, ZenonT(30) DEF Books
  <2>2. QED
    BY <2>1, ChainEmpty, TotalsEmpty, ZenonT(30)
<1>6. released(q, t, b) = maybeErase(row)
  BY Zenon DEF released, fees
<1> HIDE DEF row
<1>7. row.txs = <<>> => row.ops = 0 /\ row.age = 0
  BY <1>4, <1>5, ZenonT(30)
<1>8. maybeErase(row) = row
  BY <1>4, <1>7, EraseIdle, ZenonT(30)
<1>9. released(q, t, b) = row
  BY <1>6, <1>8, ZenonT(30)
<1>10. QED
  BY <1>4, <1>9, ZenonT(30) DEF fees

rowWith(q, t, b) ==
    [released(q, t, b) EXCEPT
        !.txs = IF b # t.source THEN @
                ELSE IF replaced(q, t) = {} THEN Append(@, t)
                ELSE [@ EXCEPT ![findBySeq(t.seqNum, q.accounts[t.source].txs)] = t],
        !.ops = IF b # t.source THEN @ ELSE @ - totalOps(replaced(q, t)) + t.ops,
        !.fees = IF b # t.feeSource THEN @ ELSE @ + t.fee]

\* The row addTx makes is the one described.
LEMMA RowWithRight ==
    ASSUME NEW q, QueueRight(q), NEW t \in Tx, Admits(q, t), NEW b \in Account
    PROVE  RowWith(q, t, b, rowWith(q, t, b))
<1> DEFINE p == released(q, t, b)
           old == replaced(q, t)
           new == txsWith(q, t)
           r == rowWith(q, t, b)
           at == findBySeq(t.seqNum, q.accounts[t.source].txs)
           txs == IF b # t.source THEN p.txs
                  ELSE IF old = {} THEN Append(p.txs, t) ELSE [p.txs EXCEPT ![at] = t]
           ops == IF b # t.source THEN p.ops ELSE p.ops - totalOps(old) + t.ops
           fees == IF b # t.feeSource THEN p.fees ELSE p.fees + t.fee
<1>1. /\ p \in Row
      /\ p.txs = q.accounts[b].txs
      /\ p.fees = q.accounts[b].fees - feesFrom(b, old)
      /\ p.ops = q.accounts[b].ops
      /\ p.age = q.accounts[b].age
  BY Released, Zenon
<1>2. r = [p EXCEPT !.txs = txs, !.ops = ops, !.fees = fees]
  BY Zenon DEF rowWith
<1>3. txs = IF b = t.source THEN new ELSE q.accounts[b].txs
  BY <1>1, Zenon DEF txsWith
<1>4. new \in Seq(Tx)
  BY Zenon DEF Admits, Chain
<1>5. t.fee \in Nat /\ t.ops \in Nat /\ totalOps(old) \in Nat
  BY TxFields, OldFacts, SMTT(30)
<1>6. feesFrom(b, {t}) = IF t.feeSource = b THEN t.fee ELSE 0
  BY FeesFromOne, ZenonT(30)
<1> HIDE DEF p, old, new, r, txs
<1>7. p.txs \in Seq(Tx) /\ p.ops \in Int /\ p.fees \in Int /\ p.age \in Nat
  BY <1>1, ZenonT(30) DEF Row
<1>8. txs \in Seq(Tx)
  BY <1>1, <1>3, <1>4, <1>7, SMTT(30)
<1>9. ops \in Int /\ fees \in Int
  BY <1>5, <1>7, SMTT(30)
<1>10. fees = p.fees + feesFrom(b, {t})
  BY <1>5, <1>6, <1>7, SMTT(30)
<1>11. ops = IF b = t.source THEN q.accounts[b].ops - totalOps(old) + t.ops
             ELSE q.accounts[b].ops
  BY <1>1, ZenonT(30)
<1> HIDE DEF ops, fees
<1>12. r \in Row /\ r.txs = txs /\ r.ops = ops /\ r.fees = fees /\ r.age = p.age
  BY <1>1, <1>2, <1>8, <1>9 DEF Row
<1>13. QED
  BY <1>1, <1>3, <1>10, <1>11, <1>12, ZenonT(30) DEF RowWith, r, old, new

\* What addTx changes.
LEMMA AddedFields ==
    ASSUME NEW q, QueueRight(q), NEW t \in Tx, Admits(q, t)
    PROVE  /\ addTx(q, t) \in Queue
           /\ addTx(q, t).banned = q.banned
           /\ addTx(q, t).ops = q.ops - totalOps(replaced(q, t)) + t.ops
           /\ \A b \in Account : RowWith(q, t, b, addTx(q, t).accounts[b])
<1> DEFINE old == replaced(q, t)
           r == addTx(q, t)
<1>1. r = [q EXCEPT !.accounts = [b \in Account |-> rowWith(q, t, b)],
                    !.ops = @ - totalOps(old) + t.ops]
  BY Zenon DEF addTx, rowWith, released
<1>2. q \in Queue
  BY Zenon DEF QueueRight
<1>3. \A b \in Account : RowWith(q, t, b, rowWith(q, t, b))
  BY RowWithRight, ZenonT(30)
<1>4. totalOps(old) \in Nat /\ t.ops \in Nat
  BY OldFacts, TxFields, SMTT(30)
<1> HIDE DEF old, r
<1>5. /\ r.accounts = [b \in Account |-> rowWith(q, t, b)]
      /\ r.ops = q.ops - totalOps(old) + t.ops
      /\ r.banned = q.banned
      /\ r = [accounts |-> r.accounts, ops |-> r.ops, banned |-> r.banned]
  BY <1>1, <1>2, ZenonT(30) DEF Queue
<1>6. \A b \in Account : rowWith(q, t, b) \in Row
  BY <1>3, Zenon DEF RowWith
<1>7. r.accounts \in [Account -> Row]
  BY <1>5, <1>6
<1>8. q.ops \in Int /\ q.banned \in [1 .. BanDepth -> SUBSET Tx]
  BY <1>2, Zenon DEF Queue
<1>9. r.ops \in Int
  BY <1>4, <1>5, <1>8
<1>10. r \in Queue
  BY <1>5, <1>7, <1>8, <1>9, Zenon DEF Queue
<1>11. \A b \in Account : r.accounts[b] = rowWith(q, t, b)
  BY <1>5, ZenonT(30)
<1>12. \A b \in Account : RowWith(q, t, b, r.accounts[b])
  BY <1>3, <1>11, ZenonT(30)
<1>13. QED
  BY <1>5, <1>10, <1>12, ZenonT(30) DEF r, old

\* Adding a transaction keeps the books right.
LEMMA AddedQueued ==
    ASSUME NEW q, QueueRight(q), NEW t \in Tx, Admits(q, t)
    PROVE  queued(addTx(q, t)) = (queued(q) \ replaced(q, t)) \cup {t}
<1> DEFINE old == replaced(q, t)
           r == addTx(q, t)
           a == t.source
           s == q.accounts[a].txs
           new == txsWith(q, t)
<1>1. Ordered(q) /\ a \in Account
  BY TxFields, Zenon DEF QueueRight
<1>2. \A b \in Account : r.accounts[b].txs = IF b = a THEN new ELSE q.accounts[b].txs
  <2>1. \A b \in Account : RowWith(q, t, b, r.accounts[b])
    BY AddedFields, Zenon
  <2>2. QED
    BY <2>1, Zenon DEF RowWith
<1>3. old \in SUBSET Range(s) /\ Range(new) = (Range(s) \ old) \cup {t}
  BY Zenon DEF Admits
<1> HIDE DEF r, old, new
<1>4. ASSUME NEW x \in queued(r)
      PROVE  x \in (queued(q) \ old) \cup {t}
  <2>1. PICK b \in Account : x \in Range(r.accounts[b].txs)
    BY Zenon DEF queued
  <2>2. CASE b = a
    <3>1. x \in (Range(s) \ old) \cup {t}
      BY <2>1, <2>2, <1>2, <1>3, ZenonT(30)
    <3>2. Range(s) \in SUBSET queued(q)
      BY <1>1, QueuedFacts, ZenonT(30)
    <3>3. QED
      BY <3>1, <3>2, SMTT(30)
  <2>3. CASE b # a
    <3>1. x \in Range(q.accounts[b].txs)
      BY <2>1, <2>3, <1>2, ZenonT(30)
    <3>2. x \in queued(q) /\ x.source = b
      BY <3>1, <1>1, QueuedFacts, ZenonT(30)
    <3>3. \A o \in Range(s) : o.source = a
      BY <1>1, QueuedFacts, ZenonT(30)
    <3>4. x \notin old
      BY <3>2, <3>3, <2>3, <1>3, SMTT(30)
    <3>5. QED
      BY <3>2, <3>4, SMTT(30)
  <2>4. QED
    BY <2>2, <2>3, ZenonT(30)
<1>5. ASSUME NEW x \in (queued(q) \ old) \cup {t}
      PROVE  x \in queued(r)
  <2>1. CASE x = t
    <3>1. x \in Range(r.accounts[a].txs)
      <4>1. x \in Range(new)
        BY <2>1, <1>3, SMTT(30)
      <4>2. r.accounts[a].txs = new
        BY <1>1, <1>2, ZenonT(30)
      <4>3. QED
        BY <4>1, <4>2, ZenonT(30)
    <3>2. QED
      BY <3>1, <1>1, ZenonT(30) DEF queued
  <2>2. CASE x \in queued(q) /\ x \notin old
    <3> DEFINE b == x.source
    <3>1. b \in Account /\ x \in Range(q.accounts[b].txs)
      BY <2>2, <1>1, QueuedFacts, ZenonT(30)
    <3> HIDE DEF b
    <3>2. x \in Range(r.accounts[b].txs)
      <4>1. CASE b = a
        <5>1. x \in Range(s)
          BY <3>1, <4>1, ZenonT(30)
        <5>2. x \in Range(new)
          BY <5>1, <2>2, <1>3, SMTT(30)
        <5>3. r.accounts[b].txs = new
          BY <4>1, <1>1, <1>2, ZenonT(30)
        <5>4. QED
          BY <5>2, <5>3, ZenonT(30)
      <4>2. CASE b # a
        BY <4>2, <3>1, <1>2, ZenonT(30)
      <4>3. QED
        BY <4>1, <4>2, ZenonT(30)
    <3>3. QED
      BY <3>1, <3>2, ZenonT(30) DEF queued
  <2>3. QED
    BY <2>1, <2>2, SMTT(30)
<1>6. QED
  BY <1>4, <1>5, SMTT(30) DEF r, old

\* addTx keeps the books right: the queue gains the transaction and loses the one
\* it replaces.
LEMMA Adding ==
    ASSUME NEW q, QueueRight(q), NEW t \in Tx, canAdd(q, t) = "PENDING"
    PROVE  /\ Admits(q, t)
           /\ QueueRight(addTx(q, t))
           /\ queued(addTx(q, t)) = (queued(q) \ replaced(q, t)) \cup {t}
           /\ Clean(q) => Clean(addTx(q, t))
<1> DEFINE old == replaced(q, t)
           r == addTx(q, t)
           a == t.source
           s == q.accounts[a].txs
           new == txsWith(q, t)
           Q == queued(q)
           R == Q \ old
<1>1. q \in Queue /\ Ordered(q) /\ Books(q)
  BY Zenon DEF QueueRight
<1>2. Admits(q, t)
  BY <1>1, Admission, ZenonT(30)
<1>3. /\ r \in Queue /\ r.banned = q.banned /\ r.ops = q.ops - totalOps(old) + t.ops
      /\ \A b \in Account : RowWith(q, t, b, r.accounts[b])
  BY <1>2, AddedFields, Zenon
<1>4. queued(r) = R \cup {t}
  BY <1>2, AddedQueued, Zenon
<1>5. a \in Account /\ t.ops \in Nat
  BY TxFields, Zenon
<1>6. old \in SUBSET Q /\ Q \in SUBSET Tx /\ t \notin Q
  BY <1>1, <1>2, OldFacts, QueuedFacts, ZenonT(30) DEF Admits
<1>7. R \in SUBSET Tx /\ t \in Tx \ R
  BY <1>6, Zenon
<1>8. /\ totalOps(R) = totalOps(Q) - totalOps(old) /\ totalOps(Q) \in Nat /\ totalOps(old) \in Nat
      /\ \A b : /\ feesFrom(b, R) = feesFrom(b, Q) - feesFrom(b, old)
                /\ feesFrom(b, Q) \in Nat /\ feesFrom(b, old) \in Nat
  BY <1>6, TotalsRemove, ZenonT(30)
<1> HIDE DEF R
<1>9. /\ totalOps(R \cup {t}) = totalOps(R) + t.ops
      /\ \A b : feesFrom(b, R \cup {t}) = feesFrom(b, R) + feesFrom(b, {t})
  BY <1>7, TotalsAdd, ZenonT(30)
<1>10. r.ops = totalOps(queued(r)) /\ r.ops <= MaxQueueOps
  <2>1. q.ops = totalOps(Q)
    BY <1>1, Zenon DEF Books
  <2>2. r.ops = totalOps(R \cup {t})
    BY <2>1, <1>3, <1>8, <1>9, ZenonT(30)
  <2>3. ~ (t.ops - totalOps(old) + q.ops > MaxQueueOps)
    BY CanAdd, Zenon
  <2>4. r.ops <= MaxQueueOps
    <3> HIDE DEF old, r, Q
    <3>1. QED
      BY <2>1, <2>3, <1>3, <1>5, <1>8, DepthAssumption, SMTT(30)
  <2>5. QED
    BY <2>2, <2>4, <1>4, ZenonT(30)
<1>11. ASSUME NEW b \in Account
       PROVE  /\ Chain(b, r.accounts[b].txs)
              /\ r.accounts[b].fees = feesFrom(b, queued(r))
              /\ r.accounts[b].ops = totalOps(Range(r.accounts[b].txs))
              /\ r.accounts[b].age < PendingDepth
              /\ r.accounts[b].txs = <<>> => r.accounts[b].age = 0
  <2>1. RowWith(q, t, b, r.accounts[b])
    BY <1>3, ZenonT(30)
  <2>2. /\ q.accounts[b].fees = feesFrom(b, Q)
        /\ q.accounts[b].ops = totalOps(Range(q.accounts[b].txs))
        /\ q.accounts[b].age < PendingDepth
        /\ q.accounts[b].txs = <<>> => q.accounts[b].age = 0
    BY <1>1, ZenonT(30) DEF Books
  <2>3. r.accounts[b].fees = feesFrom(b, queued(r))
    <3>1. r.accounts[b].fees = feesFrom(b, Q) - feesFrom(b, old) + feesFrom(b, {t})
      BY <2>1, <2>2, ZenonT(30) DEF RowWith
    <3>2. QED
      BY <3>1, <1>4, <1>8, <1>9, ZenonT(30)
  <2>4. CASE b = a
    <3>1. /\ r.accounts[b].txs = new /\ r.accounts[b].age = q.accounts[b].age
          /\ r.accounts[b].ops = q.accounts[b].ops - totalOps(old) + t.ops
      BY <2>1, <2>4, ZenonT(30) DEF RowWith
    <3>2. Chain(a, new) /\ new # <<>> /\ old \in SUBSET Range(s)
          /\ Range(new) = (Range(s) \ old) \cup {t}
      BY <1>2, Zenon DEF Admits
    <3> DEFINE P == Range(s) \ old
    <3>3. Range(s) \in SUBSET Q
      BY <1>1, <1>5, QueuedFacts, ZenonT(30)
    <3>4. P \in SUBSET Tx /\ t \in Tx \ P /\ Range(s) \in SUBSET Tx
      BY <3>3, <1>6, ZenonT(30)
    <3>5. totalOps(P) = totalOps(Range(s)) - totalOps(old)
      BY <3>2, <3>4, TotalsRemove, ZenonT(30)
    <3> HIDE DEF P
    <3>6. totalOps(P \cup {t}) = totalOps(P) + t.ops
      BY <3>4, TotalsAdd, ZenonT(30)
    <3>7. totalOps(Range(new)) = totalOps(P \cup {t})
      BY <3>2, ZenonT(30) DEF P
    <3>8. r.accounts[b].ops = totalOps(Range(new))
      BY <3>1, <3>5, <3>6, <3>7, <2>2, <2>4, ZenonT(30)
    <3>9. QED
      BY <3>1, <3>2, <3>8, <2>2, <2>3, <2>4, ZenonT(30)
  <2>5. CASE b # a
    <3>1. /\ r.accounts[b].txs = q.accounts[b].txs /\ r.accounts[b].age = q.accounts[b].age
          /\ r.accounts[b].ops = q.accounts[b].ops
      BY <2>1, <2>5, ZenonT(30) DEF RowWith
    <3>2. Chain(b, q.accounts[b].txs)
      BY <1>1, Zenon DEF Ordered
    <3>3. QED
      BY <3>1, <3>2, <2>2, <2>3, ZenonT(30)
  <2>6. QED
    BY <2>4, <2>5, ZenonT(30)
<1>12. QueueRight(r)
  BY <1>3, <1>10, <1>11, ZenonT(30) DEF QueueRight, Ordered, Books
<1>13. ASSUME Clean(q) PROVE Clean(r)
  <2>1. ~isBanned(q, t)
    BY CanAdd, ZenonT(30)
  <2>2. DOMAIN q.banned = 1 .. BanDepth
    BY <1>1, ZenonT(30) DEF Queue
  <2>3. ASSUME NEW i \in 1 .. BanDepth
        PROVE  q.banned[i] \cap (R \cup {t}) = {}
    <3>1. t \notin q.banned[i]
      BY <2>1, <2>2, ZenonT(30) DEF isBanned
    <3>2. q.banned[i] \cap Q = {}
      BY <1>13, Zenon DEF Clean
    <3>3. QED
      BY <3>1, <3>2, SMTT(30) DEF R
  <2>4. QED
    BY <2>3, <1>3, <1>4, ZenonT(30) DEF Clean
<1>14. QED
  BY <1>2, <1>4, <1>12, <1>13, ZenonT(30) DEF R

-----------------------------------------------------------------------------
(* Transaction sets that are valid in a ledger.                                *)

IsLedger(lg) ==
    /\ lg.seq \in [Account -> Nat]
    /\ lg.balance \in [Account -> Int]
    /\ lg = [seq |-> lg.seq, balance |-> lg.balance, bad |-> lg.bad,
             updated |-> lg.updated, round |-> lg.round]

\* Every transaction is valid in its turn.
InTurn(lg, S, t) ==
    /\ lg.seq[t.source] < t.seqNum
    /\ \A n \in lg.seq[t.source] + 1 .. t.seqNum :
          \E u \in S : u.source = t.source /\ u.seqNum = n /\ payable(lg, u)

\* Nothing has to be trimmed.
Sound(lg, S) ==
    \A t \in S : InTurn(lg, S, t) /\ ~ (lg.balance[t.feeSource] < feesFrom(t.feeSource, S))

unpaidIn(lg, S) ==
    {t \in validTxs(lg, S) : lg.balance[t.feeSource] < feesFrom(t.feeSource, validTxs(lg, S))}

\* The valid transactions of a set are some of it.
LEMMA ValidTxs ==
    ASSUME NEW lg, NEW S
    PROVE  /\ \A t : t \in validTxs(lg, S) <=> t \in S /\ InTurn(lg, S, t)
           /\ \A t : t \in trimInvalid(lg, S) <=>
                 /\ t \in validTxs(lg, S)
                 /\ \A u \in unpaidIn(lg, S) : u.source = t.source => t.seqNum < u.seqNum
<1>1. \A t : t \in validTxs(lg, S) <=> t \in S /\ InTurn(lg, S, t)
  BY Zenon DEF validTxs, InTurn
<1>2. trimInvalid(lg, S) = {t \in validTxs(lg, S) : \A u \in unpaidIn(lg, S) :
                              u.source = t.source => t.seqNum < u.seqNum}
  BY Zenon DEF trimInvalid, unpaidIn
<1>3. QED
  BY <1>1, <1>2, ZenonT(30)

\* Nothing is trimmed from a sound set.
LEMMA SoundTrim ==
    ASSUME NEW lg, NEW S, Sound(lg, S)
    PROVE  trimInvalid(lg, S) = S /\ validTxs(lg, S) = S
<1>1. validTxs(lg, S) = S
  <2>1. \A t : t \in validTxs(lg, S) <=> t \in S
    BY ValidTxs, ZenonT(30) DEF Sound
  <2>2. QED
    BY <2>1, ZenonT(30)
<1>2. unpaidIn(lg, S) = {}
  <2>1. unpaidIn(lg, S) = {t \in S : lg.balance[t.feeSource] < feesFrom(t.feeSource, S)}
    BY <1>1, ZenonT(30) DEF unpaidIn
  <2>2. QED
    BY <2>1, ZenonT(30) DEF Sound
<1>3. \A t : t \in trimInvalid(lg, S) <=> t \in S
  BY <1>1, <1>2, ValidTxs, ZenonT(30)
<1>4. QED
  BY <1>1, <1>3, SMTT(30)

\* The fees of a part are at most those of the whole.
LEMMA FeesOfPart ==
    ASSUME NEW S \in SUBSET Tx, NEW P \in SUBSET S
    PROVE  \A a : /\ feesFrom(a, P) \in Nat /\ feesFrom(a, S) \in Nat
                  /\ feesFrom(a, P) <= feesFrom(a, S)
<1> TAKE a
<1>1. /\ feesFrom(a, S) \in Nat /\ feesFrom(a, P) \in Nat
      /\ feesFrom(a, S \ P) \in Nat
      /\ feesFrom(a, S) = feesFrom(a, P) + feesFrom(a, S \ P)
  BY FeesFromSplit, ZenonT(30)
<1> DEFINE k == feesFrom(a, S \ P)
<1>2. k \in Nat /\ feesFrom(a, S) = feesFrom(a, P) + k
  BY <1>1, Zenon
<1> HIDE DEF k
<1>3. QED
  BY <1>1, <1>2, SMTT(30)

\* What comes first of a trimmed set is valid by itself.
LEMMA PrefixSound ==
    ASSUME NEW lg, IsLedger(lg), NEW S \in SUBSET Tx, Distinct(S), NEW P,
           Prefix(P, trimInvalid(lg, S))
    PROVE  Sound(lg, P)
<1> DEFINE V == validTxs(lg, S)
           T == trimInvalid(lg, S)
<1>1. /\ \A t : t \in V <=> t \in S /\ InTurn(lg, S, t)
      /\ \A t : t \in T <=>
            t \in V /\ \A u \in unpaidIn(lg, S) : u.source = t.source => t.seqNum < u.seqNum
  BY ValidTxs, ZenonT(30)
<1>2. /\ P \in SUBSET T /\ T \in SUBSET V /\ V \in SUBSET S
      /\ \A t \in P, u \in T : u.source = t.source /\ u.seqNum < t.seqNum => u \in P
  BY <1>1, ZenonT(30) DEF Prefix
<1>3. unpaidIn(lg, S) = {t \in V : lg.balance[t.feeSource] < feesFrom(t.feeSource, V)}
  BY Zenon DEF unpaidIn
<1> HIDE DEF V, T
<1>4. P \in SUBSET V /\ V \in SUBSET Tx /\ P \in SUBSET Tx /\ P \in SUBSET S
  BY <1>2, ZenonT(30)
<1>5. ASSUME NEW t \in P
      PROVE  ~ (lg.balance[t.feeSource] < feesFrom(t.feeSource, P))
  <2>1. t \in V /\ t \in Tx /\ t \in T
    BY <1>2, <1>4, SMTT(30)
  <2>2. t.seqNum \in Nat /\ t.feeSource \in Account
    BY <2>1, TxFields, SMTT(30)
  <2>3. t \notin unpaidIn(lg, S)
    <3>1. ~ (t.seqNum < t.seqNum)
      BY <2>2, SMTT(30)
    <3>2. QED
      BY <3>1, <2>1, <1>1, ZenonT(30)
  <2>4. ~ (lg.balance[t.feeSource] < feesFrom(t.feeSource, V))
    BY <2>1, <2>3, <1>3, SMTT(30)
  <2>5. /\ feesFrom(t.feeSource, P) \in Nat /\ feesFrom(t.feeSource, V) \in Nat
        /\ feesFrom(t.feeSource, P) <= feesFrom(t.feeSource, V)
    BY <1>4, FeesOfPart, ZenonT(30)
  <2>6. lg.balance[t.feeSource] \in Int
    BY <2>2, ZenonT(30) DEF IsLedger
  <2>7. QED
    BY <2>4, <2>5, <2>6, SMTT(30)
<1>6. ASSUME NEW t \in P
      PROVE  InTurn(lg, P, t)
  <2>1. t \in S /\ t \in V /\ t \in T /\ InTurn(lg, S, t) /\ t \in Tx
    BY <1>1, <1>2, <1>4, SMTT(30)
  <2>2. t.source \in Account /\ t.seqNum \in Nat
    BY <2>1, TxFields, ZenonT(30)
  <2> DEFINE k == lg.seq[t.source]
  <2>3. k \in Nat
    BY <2>2, ZenonT(30) DEF IsLedger
  <2>4. k < t.seqNum
    BY <2>1, ZenonT(30) DEF InTurn
  <2>5. ASSUME NEW n \in k + 1 .. t.seqNum
        PROVE  \E u \in P : u.source = t.source /\ u.seqNum = n /\ payable(lg, u)
    <3>1. PICK u \in S : u.source = t.source /\ u.seqNum = n /\ payable(lg, u)
      BY <2>1, ZenonT(30) DEF InTurn
    <3>2. n \in Nat /\ k < n /\ n <= t.seqNum
      BY <2>2, <2>3, SMTT(30)
    <3>3. InTurn(lg, S, u)
      <4>1. lg.seq[u.source] < u.seqNum
        BY <3>1, <3>2, SMTT(30)
      <4>2. ASSUME NEW m \in lg.seq[u.source] + 1 .. u.seqNum
            PROVE  \E x \in S : x.source = u.source /\ x.seqNum = m /\ payable(lg, x)
        <5>1. m \in k + 1 .. t.seqNum
          BY <3>1, <3>2, <2>2, <2>3, SMTT(30)
        <5>2. QED
          BY <5>1, <3>1, <2>1, ZenonT(30) DEF InTurn
      <4>3. QED
        BY <4>1, <4>2, ZenonT(30) DEF InTurn
    <3>4. u \in V
      BY <3>3, <1>1, ZenonT(30)
    <3>5. u \in T
      <4>1. ASSUME NEW x \in unpaidIn(lg, S), x.source = u.source
            PROVE  u.seqNum < x.seqNum
        <5>1. x.source = t.source
          BY <4>1, <3>1, SMTT(30)
        <5>2. t.seqNum < x.seqNum
          BY <5>1, <2>1, <1>1, ZenonT(30)
        <5>3. x.seqNum \in Nat
          BY <1>3, <1>4, TxFields, SMTT(30)
        <5>4. QED
          BY <5>2, <5>3, <3>1, <3>2, <2>2, SMTT(30)
      <4>2. QED
        BY <4>1, <3>4, <1>1, ZenonT(30)
    <3>6. u \in P
      <4>1. CASE n = t.seqNum
        <5>1. u = t
          BY <4>1, <3>1, <2>1, ZenonT(30) DEF Distinct
        <5>2. QED
          BY <5>1, ZenonT(30)
      <4>2. CASE n # t.seqNum
        <5>1. u.seqNum < t.seqNum
          BY <4>2, <3>1, <3>2, <2>2, SMTT(30)
        <5>2. QED
          BY <5>1, <3>1, <3>5, <1>2, ZenonT(30)
      <4>3. QED
        BY <4>1, <4>2, SMTT(30)
    <3>7. QED
      BY <3>1, <3>6, ZenonT(30)
  <2>6. QED
    BY <2>4, <2>5, ZenonT(30) DEF InTurn
<1>7. QED
  BY <1>5, <1>6, ZenonT(30) DEF Sound

\* A set that is valid stays so when fewer transactions are bad.
LEMMA SoundLess ==
    ASSUME NEW lg, NEW next, NEW S, Sound(next, S),
           next.seq = lg.seq, next.balance = lg.balance, lg.bad \subseteq next.bad
    PROVE  Sound(lg, S)
<1>1. \A u : payable(next, u) => payable(lg, u)
  BY Zenon DEF payable
<1>2. ASSUME NEW t \in S PROVE InTurn(lg, S, t)
  <2>1. InTurn(next, S, t)
    BY Zenon DEF Sound
  <2>2. QED
    BY <2>1, <1>1, ZenonT(30) DEF InTurn
<1>3. ASSUME NEW t \in S
      PROVE  ~ (lg.balance[t.feeSource] < feesFrom(t.feeSource, S))
  BY Zenon DEF Sound
<1>4. QED
  BY <1>2, <1>3, ZenonT(30) DEF Sound

\* Adding a transaction that canAdd lets in keeps the queue valid.
LEMMA AddSound ==
    ASSUME NEW q, QueueRight(q), NEW t \in Tx, canAdd(q, t) = "PENDING",
           IsLedger(ledger), Sound(ledger, queued(q))
    PROVE  Sound(ledger, queued(addTx(q, t)))
<1> DEFINE old == replaced(q, t)
           a == t.source
           f == t.feeSource
           s == q.accounts[a].txs
           S == queued(q)
           R == S \ old
           N == R \cup {t}
           k == ledger.seq[a]
<1>1. q \in Queue /\ Ordered(q) /\ Books(q)
  BY Zenon DEF QueueRight
<1>2. Admits(q, t) /\ queued(addTx(q, t)) = N
  BY Adding, ZenonT(30)
<1>3. a \in Account /\ f \in Account /\ t.seqNum \in Nat /\ t.fee \in Nat
  BY TxFields, ZenonT(30)
<1>4. /\ checkValid(ledger, t, currentOf(q, t))
      /\ ~ (ledger.balance[f] - (t.fee - feesFrom(f, old)) < q.accounts[f].fees)
  BY CanAdd, ZenonT(30)
<1>5. payable(ledger, t)
  BY <1>4, Zenon DEF checkValid
<1>6. S \in SUBSET Tx /\ old \in SUBSET S /\ t \notin S
  BY <1>1, <1>2, OldFacts, QueuedFacts, ZenonT(30) DEF Admits
<1>7. \A o \in old : o.seqNum = t.seqNum /\ o.source = a
  BY <1>2, ZenonT(30) DEF Admits
<1>8. old = {} /\ s # <<>> => t.seqNum = s[Len(s)].seqNum + 1
  BY <1>2, ZenonT(30) DEF Admits
<1>9. s = <<>> => k + 1 = t.seqNum
  BY <1>4, ZenonT(30) DEF checkValid, currentOf
<1>10. k \in Nat
  BY <1>3, ZenonT(30) DEF IsLedger
<1>11. Chain(a, s) /\ Range(s) \in SUBSET S
  BY <1>1, <1>3, QueuedFacts, ZenonT(30) DEF Ordered
<1>12. q.accounts[f].fees = feesFrom(f, S)
  BY <1>1, <1>3, ZenonT(30) DEF Books
<1>13. R \in SUBSET Tx /\ t \in Tx \ R /\ R \in SUBSET S
  BY <1>6, ZenonT(30)
<1>14. \A b : /\ feesFrom(b, R) = feesFrom(b, S) - feesFrom(b, old)
              /\ feesFrom(b, S) \in Nat /\ feesFrom(b, old) \in Nat
  BY <1>6, TotalsRemove, ZenonT(30)
<1> HIDE DEF old, s, S
<1>15. \A x \in S : x \in old \/ x \in N
  BY Zenon
<1>16. t \in N
  BY Zenon
<1>17. \A x \in N : x = t \/ x \in R
  BY Zenon
<1> HIDE DEF R
<1>18. \A b : feesFrom(b, N) = feesFrom(b, R) + feesFrom(b, {t})
  BY <1>13, TotalsAdd, ZenonT(30)
<1> HIDE DEF N, k
<1>19. ASSUME NEW u \in S
       PROVE  InTurn(ledger, N, u)
  <2>1. InTurn(ledger, S, u)
    BY Zenon DEF Sound, S
  <2>2. ASSUME NEW n \in ledger.seq[u.source] + 1 .. u.seqNum
        PROVE  \E x \in N : x.source = u.source /\ x.seqNum = n /\ payable(ledger, x)
    <3>1. PICK x \in S : x.source = u.source /\ x.seqNum = n /\ payable(ledger, x)
      BY <2>1, Zenon DEF InTurn
    <3>2. CASE x \in old
      BY <3>1, <3>2, <1>5, <1>7, <1>16, ZenonT(30)
    <3>3. CASE x \in N
      BY <3>1, <3>3, ZenonT(30)
    <3>4. QED
      BY <3>2, <3>3, <1>15, ZenonT(30)
  <2>3. QED
    BY <2>1, <2>2, ZenonT(30) DEF InTurn
<1>20. InTurn(ledger, N, t)
  <2>1. CASE old # {}
    <3>1. PICK o \in old : TRUE
      BY <2>1, ZenonT(30)
    <3>2. o \in S /\ o.seqNum = t.seqNum /\ o.source = t.source
      BY <1>6, <1>7, SMTT(30)
    <3>3. InTurn(ledger, N, o)
      BY <3>2, <1>19, ZenonT(30)
    <3>4. QED
      BY <3>2, <3>3, ZenonT(30) DEF InTurn
  <2>2. CASE old = {} /\ s = <<>>
    <3>1. k + 1 = t.seqNum
      BY <2>2, <1>9, SMTT(30)
    <3>2. k < t.seqNum /\ \A n \in k + 1 .. t.seqNum : n = t.seqNum
      BY <3>1, <1>3, <1>10, SMTT(30)
    <3>3. QED
      BY <3>2, <1>5, <1>16, ZenonT(30) DEF InTurn, k
  <2>3. CASE old = {} /\ s # <<>>
    <3> DEFINE l == s[Len(s)]
    <3>1. Len(s) \in 1 .. Len(s)
      BY <2>3, <1>11, ChainFacts, SMTT(30)
    <3>2. l \in Range(s) /\ l.source = a /\ l.seqNum \in Nat
      BY <3>1, <1>11, ChainFacts, SMTT(30)
    <3>3. l \in S
      BY <3>2, <1>11, ZenonT(30)
    <3>4. t.seqNum = l.seqNum + 1
      BY <2>3, <1>8, ZenonT(30)
    <3> HIDE DEF l
    <3>5. InTurn(ledger, N, l)
      BY <3>3, <1>19, ZenonT(30)
    <3>6. k < l.seqNum
      BY <3>5, <3>2, ZenonT(30) DEF InTurn, k
    <3>7. k < t.seqNum
      BY <3>6, <3>4, <3>2, <1>10, SMTT(30)
    <3>8. ASSUME NEW n \in k + 1 .. t.seqNum
          PROVE  \E x \in N : x.source = a /\ x.seqNum = n /\ payable(ledger, x)
      <4>1. n = t.seqNum \/ n \in k + 1 .. l.seqNum
        BY <3>2, <3>4, <1>10, <1>3, SMTT(30)
      <4>2. CASE n = t.seqNum
        BY <4>2, <1>5, <1>16, ZenonT(30)
      <4>3. CASE n \in k + 1 .. l.seqNum
        BY <4>3, <3>2, <3>5, ZenonT(30) DEF InTurn, k
      <4>4. QED
        BY <4>1, <4>2, <4>3, SMTT(30)
    <3>9. QED
      BY <3>7, <3>8, ZenonT(30) DEF InTurn, k
  <2>4. QED
    BY <2>1, <2>2, <2>3, SMTT(30)
<1>21. ASSUME NEW u \in N
       PROVE  ~ (ledger.balance[u.feeSource] < feesFrom(u.feeSource, N))
  <2> DEFINE g == u.feeSource
  <2>1. u \in Tx
    BY <1>13, <1>17, ZenonT(30)
  <2>2. g \in Account /\ ledger.balance[g] \in Int
    BY <2>1, TxFields, SMTT(30) DEF IsLedger
  <2>3. feesFrom(g, N) = feesFrom(g, R) + feesFrom(g, {t})
        /\ feesFrom(g, {t}) = (IF f = g THEN t.fee ELSE 0)
    BY <1>18, FeesFromOne, SMTT(30)
  <2>4. /\ feesFrom(g, R) = feesFrom(g, S) - feesFrom(g, old)
        /\ feesFrom(g, S) \in Nat /\ feesFrom(g, old) \in Nat
    BY <1>14, ZenonT(30)
  <2>5. CASE f = g
    <3>1. ~ (ledger.balance[g] - (t.fee - feesFrom(g, old)) < feesFrom(g, S))
      BY <2>5, <1>4, <1>12, ZenonT(30)
    <3> HIDE DEF f, g
    <3>2. QED
      BY <3>1, <2>2, <2>3, <2>4, <2>5, <1>3, SMTT(30) DEF g
  <2>6. CASE f # g
    <3>1. u \in S
      BY <2>6, <1>13, <1>17, SMTT(30)
    <3>2. ~ (ledger.balance[g] < feesFrom(g, S))
      BY <3>1, ZenonT(30) DEF Sound, S
    <3> HIDE DEF f, g
    <3>3. QED
      BY <3>2, <2>2, <2>3, <2>4, <2>6, SMTT(30) DEF g
  <2>7. QED
    BY <2>5, <2>6, ZenonT(30)
<1>22. Sound(ledger, N)
  <2>1. \A u \in N : InTurn(ledger, N, u)
    BY <1>13, <1>17, <1>19, <1>20, SMTT(30)
  <2>2. QED
    BY <2>1, <1>21, ZenonT(30) DEF Sound
<1>23. QED
  BY <1>2, <1>22, ZenonT(30) DEF N, R, S, old

-----------------------------------------------------------------------------
(* The invariant.                                                              *)

QueueInv ==
    /\ QueueRight(queue)
    /\ Clean(queue)
    /\ IsLedger(ledger)
    /\ ledger.updated => Sound(ledger, queued(queue))
    /\ threw = FALSE

\* The empty queue.
LEMMA InitInv == Init => QueueInv
<1> SUFFICES ASSUME Init PROVE QueueInv
  BY Zenon
<1>1. /\ queue.accounts = [a \in Account |-> AccountState] /\ queue.ops = 0
      /\ queue.banned = [i \in 1 .. BanDepth |-> {}]
      /\ queue = [accounts |-> queue.accounts, ops |-> queue.ops, banned |-> queue.banned]
  BY Zenon DEF Init
<1>2. \A a \in Account : /\ queue.accounts[a].txs = <<>> /\ queue.accounts[a].fees = 0
                         /\ queue.accounts[a].ops = 0 /\ queue.accounts[a].age = 0
  BY <1>1, SMTT(30) DEF AccountState
<1>3. AccountState \in Row
  BY SMTT(30) DEF AccountState, Row
<1>4. queue \in Queue
  <2>1. queue.accounts \in [Account -> Row]
    BY <1>1, <1>3, SMTT(30)
  <2>2. queue.banned \in [1 .. BanDepth -> SUBSET Tx]
    BY <1>1, ZenonT(30)
  <2>3. QED
    BY <2>1, <2>2, <1>1, SMTT(30) DEF Queue
<1>5. \A a \in Account : Chain(a, queue.accounts[a].txs) /\ Range(queue.accounts[a].txs) = {}
  BY <1>2, ChainEmpty, ZenonT(30)
<1>6. queued(queue) = {}
  BY <1>5, ZenonT(30) DEF queued
<1>7. Books(queue)
  <2>1. queue.ops = totalOps(queued(queue))
    BY <1>1, <1>6, TotalsEmpty, ZenonT(30)
  <2>2. queue.ops <= MaxQueueOps /\ 0 < PendingDepth
    BY <1>1, DepthAssumption, SMTT(30)
  <2>3. ASSUME NEW a \in Account
        PROVE  /\ queue.accounts[a].fees = feesFrom(a, queued(queue))
               /\ queue.accounts[a].ops = totalOps(Range(queue.accounts[a].txs))
               /\ queue.accounts[a].age < PendingDepth
               /\ queue.accounts[a].txs = <<>> => queue.accounts[a].age = 0
    BY <2>2, <1>2, <1>5, <1>6, TotalsEmpty, ZenonT(30)
  <2>4. QED
    BY <2>1, <2>2, <2>3, ZenonT(30) DEF Books
<1>8. QueueRight(queue)
  BY <1>4, <1>5, <1>7, ZenonT(30) DEF QueueRight, Ordered
<1>9. Clean(queue)
  BY <1>6, ZenonT(30) DEF Clean
<1>10. IsLedger(ledger)
  BY DepthAssumption, SMTT(30) DEF Init, IsLedger
<1>11. Sound(ledger, queued(queue))
  BY <1>6, ZenonT(30) DEF Sound
<1>12. threw = FALSE
  BY Zenon DEF Init
<1>13. QED
  BY <1>8, <1>9, <1>10, <1>11, <1>12, SMTT(30) DEF QueueInv

\* What ban leaves of a queue is what comes first of what is kept of it.
LEMMA BanSound ==
    ASSUME NEW q, QueueRight(q), NEW lg, IsLedger(lg), NEW B \in SUBSET Tx,
           queued(q) \ B \in SUBSET trimInvalid(lg, queued(q))
    PROVE  BansRight(q, B, ban(q, B)) /\ Sound(lg, queued(ban(q, B)))
<1> DEFINE S == queued(q)
           K == trimInvalid(lg, S)
           P == queued(ban(q, B))
<1>1. BansRight(q, B, ban(q, B))
  BY Banning, Zenon
<1>2. Prefix(P, S) /\ P \cap B = {}
  BY <1>1, Zenon DEF BansRight
<1>3. S \in SUBSET Tx /\ Distinct(S)
  BY QueuedFacts, ZenonT(30) DEF QueueRight
<1>4. K \in SUBSET S
  BY ValidTxs, Zenon
<1> HIDE DEF K, P, S
<1>5. Prefix(P, K)
  <2>1. P \in SUBSET S /\ S \ B \in SUBSET K
    BY <1>2, ZenonT(30) DEF Prefix, K, S
  <2>2. P \in SUBSET K
    BY <2>1, <1>2, SMTT(30)
  <2>3. QED
    BY <2>2, <1>2, <1>4, ZenonT(30) DEF Prefix
<1>6. Sound(lg, P)
  BY <1>3, <1>5, PrefixSound, ZenonT(30) DEF K
<1>7. QED
  BY <1>1, <1>6, ZenonT(30) DEF P

\* recvTransaction keeps the invariant.
LEMMA RecvInv ==
    ASSUME QueueInv, NEW t \in Tx, RecvTransaction(t)
    PROVE  QueueInv'
<1>1. /\ QueueRight(queue) /\ Clean(queue) /\ IsLedger(ledger)
      /\ ledger.updated => Sound(ledger, queued(queue))
      /\ threw = FALSE
  BY Zenon DEF QueueInv
<1>2. ledger' = ledger /\ threw' = threw
  BY Zenon DEF RecvTransaction
<1> SUFFICES /\ QueueRight(queue') /\ Clean(queue')
             /\ ledger.updated => Sound(ledger, queued(queue'))
  BY <1>1, <1>2, ZenonT(30) DEF QueueInv
<1>3. CASE canAdd(queue, t) = "PENDING"
  <2>1. queue' = addTx(queue, t)
    BY <1>3, Zenon DEF RecvTransaction
  <2>2. QueueRight(addTx(queue, t)) /\ Clean(addTx(queue, t))
    BY <1>1, <1>3, Adding, ZenonT(30)
  <2>3. ledger.updated => Sound(ledger, queued(addTx(queue, t)))
    BY <1>1, <1>3, AddSound, ZenonT(30)
  <2>4. QED
    BY <2>1, <2>2, <2>3, ZenonT(30)
<1>4. CASE canAdd(queue, t) = "FULL"
  <2>1. queue' = ban(queue, {t})
    BY <1>4, Zenon DEF RecvTransaction
  <2>2. {t} \in SUBSET Tx
    BY Zenon
  <2>3. BansRight(queue, {t}, ban(queue, {t}))
    BY <2>2, <1>1, Banning, ZenonT(30)
  <2>4. ASSUME ledger.updated PROVE Sound(ledger, queued(ban(queue, {t})))
    <3>1. trimInvalid(ledger, queued(queue)) = queued(queue)
      BY <2>4, <1>1, SoundTrim, ZenonT(30)
    <3>2. queued(queue) \ {t} \in SUBSET trimInvalid(ledger, queued(queue))
      BY <3>1, ZenonT(30)
    <3>3. QED
      BY <3>2, <2>2, <1>1, BanSound, ZenonT(30)
  <2>5. QED
    BY <2>1, <2>3, <2>4, <1>1, ZenonT(30) DEF BansRight
<1>5. CASE canAdd(queue, t) # "PENDING" /\ canAdd(queue, t) # "FULL"
  <2>1. queue' = queue
    BY <1>5, Zenon DEF RecvTransaction
  <2>2. QED
    BY <2>1, <1>1, ZenonT(30)
<1>6. QED
  BY <1>3, <1>4, <1>5, ZenonT(30)

\* What is proposed of what is kept is valid.
LEMMA ProposedValid ==
    ASSUME NEW lg, IsLedger(lg), NEW S \in SUBSET Tx, Distinct(S),
           NEW P \in surgePricingFilter(trimInvalid(lg, S))
    PROVE  validSet(lg, P)
<1> DEFINE K == trimInvalid(lg, S)
<1>1. K \in SUBSET S
  BY ValidTxs, ZenonT(30)
<1> HIDE DEF K
<1>2. totalOps(P) <= MaxLedgerOps /\ Prefix(P, K)
  <2>1. CASE totalOps(K) <= MaxLedgerOps
    <3>1. P = K
      BY <2>1, Zenon DEF surgePricingFilter, K
    <3>2. QED
      BY <3>1, <2>1, ZenonT(30) DEF Prefix
  <2>2. CASE ~ (totalOps(K) <= MaxLedgerOps)
    <3>1. P \in {X \in SUBSET K :
             /\ totalOps(X) <= MaxLedgerOps
             /\ \A t \in X, u \in K :
                    u.source = t.source /\ u.seqNum < t.seqNum => u \in X}
      BY <2>2, Zenon DEF surgePricingFilter, K
    <3>2. QED
      BY <3>1, Zenon DEF Prefix
  <2>3. QED
    BY <2>1, <2>2, ZenonT(30)
<1>3. Sound(lg, P)
  BY <1>2, PrefixSound, ZenonT(30) DEF K
<1>4. P \in SUBSET S
  BY <1>1, <1>2, ZenonT(30) DEF Prefix
<1>5. validTxs(lg, P) = P
  BY <1>3, SoundTrim, ZenonT(30)
<1>6. \A t, u \in P : t.source = u.source /\ t.seqNum = u.seqNum => t = u
  BY <1>4, ZenonT(30) DEF Distinct
<1>7. ASSUME NEW t \in P
      PROVE  lg.balance[t.feeSource] >= feesFrom(t.feeSource, P)
  <2>1. ~ (lg.balance[t.feeSource] < feesFrom(t.feeSource, P))
    BY <1>3, Zenon DEF Sound
  <2>2. P \in SUBSET P /\ P \in SUBSET Tx /\ t \in Tx
    BY <1>4, ZenonT(30)
  <2>3. feesFrom(t.feeSource, P) \in Nat
    BY <2>2, FeesOfPart, ZenonT(30)
  <2>4. lg.balance[t.feeSource] \in Int
    BY <2>2, TxFields, Zenon DEF IsLedger
  <2>5. QED
    BY <2>1, <2>3, <2>4, SMTT(30)
<1>8. QED
  BY <1>2, <1>5, <1>6, <1>7, ZenonT(30) DEF validSet

\* Only the set of expired transactions differs.
LEMMA WithBad ==
    ASSUME NEW lg, IsLedger(lg), NEW late
    PROVE  LET next == [lg EXCEPT !.bad = @ \cup late]
           IN  /\ next.seq = lg.seq /\ next.balance = lg.balance
               /\ lg.bad \subseteq next.bad /\ IsLedger(next)
<1> DEFINE bad == lg.bad \cup late
           next == [lg EXCEPT !.bad = bad]
<1>1. lg.bad \subseteq bad
  BY Zenon
<1> HIDE DEF bad
<1>2. next = [seq |-> lg.seq, balance |-> lg.balance, bad |-> bad,
              updated |-> lg.updated, round |-> lg.round]
  BY DEF IsLedger
<1> HIDE DEF next
<1>3. next.seq = lg.seq /\ next.balance = lg.balance /\ next.bad = bad
  BY <1>2, Zenon
<1>4. IsLedger(next)
  BY <1>2, <1>3, SMTT(30) DEF IsLedger
<1>5. next = [lg EXCEPT !.bad = @ \cup late]
  BY Zenon DEF next, bad
<1>6. QED
  BY <1>1, <1>3, <1>4, <1>5, ZenonT(30)

\* triggerNextLedger keeps the invariant, and what it proposes is valid.
LEMMA TriggerInv ==
    ASSUME QueueInv, NEW late, TriggerNextLedger(late)
    PROVE  QueueInv'
<1> DEFINE next == [ledger EXCEPT !.bad = @ \cup late]
           S == queued(queue)
           K == trimInvalid(next, S)
           B == S \ K
<1>1. QueueRight(queue) /\ Clean(queue) /\ IsLedger(ledger) /\ threw = FALSE
  BY Zenon DEF QueueInv
<1>2. /\ queue' = ban(queue, B)
      /\ \E P \in surgePricingFilter(K) : threw' = (threw \/ ~validSet(next, P))
      /\ ledger' = [ledger EXCEPT !.updated = TRUE]
  BY Zenon DEF TriggerNextLedger, toTxSet
<1>3. /\ next.seq = ledger.seq /\ next.balance = ledger.balance
      /\ ledger.bad \subseteq next.bad /\ IsLedger(next)
  BY <1>1, WithBad, ZenonT(30)
<1> HIDE DEF next
<1>4. S \in SUBSET Tx /\ Distinct(S)
  BY <1>1, QueuedFacts, ZenonT(30) DEF QueueRight
<1>5. B \in SUBSET Tx /\ S \ B \in SUBSET K
  BY <1>4, Zenon
<1>6. BansRight(queue, B, ban(queue, B)) /\ Sound(next, queued(ban(queue, B)))
  <2> HIDE DEF B
  <2>1. QED
    BY <1>1, <1>3, <1>5, BanSound, ZenonT(30)
<1> HIDE DEF B
<1>7. Sound(ledger, queued(queue'))
  BY <1>2, <1>3, <1>6, SoundLess, ZenonT(30)
<1>8. /\ ledger'.seq = ledger.seq /\ ledger'.balance = ledger.balance
      /\ ledger'.bad = ledger.bad /\ IsLedger(ledger')
  BY <1>1, <1>2, ZenonT(30) DEF IsLedger
<1>9. Sound(ledger', queued(queue'))
  <2>1. ledger'.bad \subseteq ledger.bad
    BY <1>8, Zenon
  <2>2. QED
    BY <2>1, <1>7, <1>8, SoundLess, Zenon
<1>10. QueueRight(queue') /\ Clean(queue')
  BY <1>1, <1>2, <1>6, Zenon DEF BansRight
<1>11. threw' = FALSE
  <2>1. PICK P \in surgePricingFilter(K) : threw' = (threw \/ ~validSet(next, P))
    BY <1>2, Zenon
  <2>2. validSet(next, P)
    BY <1>3, <1>4, ProposedValid, ZenonT(30)
  <2>3. QED
    BY <2>1, <2>2, <1>1, Zenon
<1>12. QED
  BY <1>8, <1>9, <1>10, <1>11, ZenonT(30) DEF QueueInv

\* The next ledger has numbers and balances.
LEMMA LedgersAfter ==
    ASSUME IsLedger(ledger), NEW S \in SUBSET Tx, NEW lg \in ledgersAfter(S)
    PROVE  IsLedger(lg)
<1> DEFINE numbers(bumped) ==
               [a \in Account |->
                   LET s == highestFrom(ledger.seq[a], S, a)
                   IN  IF a \in bumped /\ s < MaxSeq THEN s + 1 ELSE s]
<1>1. \E bumped \in SUBSET MayBump, balance \in Balance, late \in SUBSET MayExpire :
         lg = [seq |-> numbers(bumped), balance |-> balance,
               bad |-> ledger.bad \cup late, updated |-> TRUE,
               round |-> 1 - ledger.round]
  BY SMTT(30) DEF ledgersAfter, highestFrom
<1>2. ASSUME NEW bumped PROVE numbers(bumped) \in [Account -> Nat]
  <2>1. ASSUME NEW a \in Account PROVE highestFrom(ledger.seq[a], S, a) \in Nat
    <3>1. ledger.seq[a] \in Nat
      BY Zenon DEF IsLedger
    <3>2. QED
      BY <3>1, HighestFrom, SMTT(30)
  <2>2. QED
    BY <2>1, SMTT(30)
<1> HIDE DEF numbers
<1>3. PICK n, balance, late :
         /\ n \in [Account -> Nat] /\ balance \in Balance
         /\ lg = [seq |-> n, balance |-> balance,
                  bad |-> ledger.bad \cup late, updated |-> TRUE,
                  round |-> 1 - ledger.round]
  BY <1>1, <1>2, ZenonT(30)
<1>4. balance \in [Account -> Int]
  BY <1>3, DepthAssumption, ZenonT(30)
<1>5. QED
  BY <1>3, <1>4, SMTT(30) DEF IsLedger

\* Closing the latest ledger keeps the invariant.
LEMMA CloseInv ==
    ASSUME QueueInv, NEW S \in SUBSET Tx, CloseLedger(S)
    PROVE  QueueInv'
<1> DEFINE applied == removeApplied(queue, S)
           aged == shift(applied)
<1>1. QueueRight(queue) /\ Clean(queue) /\ IsLedger(ledger) /\ threw = FALSE
  BY Zenon DEF QueueInv
<1>2. PICK lg \in ledgersAfter(S) :
         /\ queue' = ban(aged, queued(aged) \ trimInvalid(lg, queued(aged)))
         /\ ledger' = lg
  BY Zenon DEF CloseLedger, toTxSet
<1>3. threw' = FALSE
  BY <1>1, ZenonT(30) DEF CloseLedger
<1>4. QueueRight(applied) /\ Clean(applied)
  BY <1>1, Applying, ZenonT(30)
<1> HIDE DEF applied
<1>5. QueueRight(aged) /\ Clean(aged)
  BY <1>4, Shifting, ZenonT(30)
<1> HIDE DEF aged
<1>6. IsLedger(lg)
  BY <1>1, LedgersAfter, ZenonT(30)
<1> DEFINE all == queued(aged)
           B == all \ trimInvalid(lg, all)
<1>7. all \in SUBSET Tx
  BY <1>5, QueuedFacts, ZenonT(30) DEF QueueRight
<1>8. B \in SUBSET Tx /\ all \ B \in SUBSET trimInvalid(lg, all)
  BY <1>7, Zenon
<1>9. queue' = ban(aged, B)
  BY <1>2, Zenon
<1> HIDE DEF B
<1>10. BansRight(aged, B, ban(aged, B)) /\ Sound(lg, queued(ban(aged, B)))
  BY <1>5, <1>6, <1>8, BanSound, ZenonT(30)
<1>11. QED
  BY <1>2, <1>3, <1>5, <1>6, <1>9, <1>10, ZenonT(30) DEF BansRight, QueueInv

\* A ledger the queue is not told of keeps it too: the queue is not current.
LEMMA UnnoticedInv ==
    ASSUME QueueInv, NEW S \in SUBSET Tx, CloseUnnoticed(S)
    PROVE  QueueInv'
<1>1. QueueRight(queue) /\ Clean(queue) /\ IsLedger(ledger) /\ threw = FALSE
  BY Zenon DEF QueueInv
<1>2. PICK lg \in ledgersAfter(S) :
         ledger' = [lg EXCEPT !.updated = FALSE, !.round = ledger.round]
  BY Zenon DEF CloseUnnoticed
<1>3. queue' = queue /\ threw' = FALSE
  BY <1>1, ZenonT(30) DEF CloseUnnoticed
<1>4. IsLedger(lg)
  BY <1>1, LedgersAfter, ZenonT(30)
<1>5. ledger' = [seq |-> lg.seq, balance |-> lg.balance, bad |-> lg.bad,
                 updated |-> FALSE, round |-> ledger.round]
  BY <1>2, <1>4 DEF IsLedger
<1>6. IsLedger(ledger') /\ ledger'.updated = FALSE
  BY <1>4, <1>5, Zenon DEF IsLedger
<1>7. QED
  BY <1>1, <1>3, <1>6, ZenonT(30) DEF QueueInv

\* So does every step.
LEMMA NextInv == QueueInv /\ [Next]_vars => QueueInv'
<1> SUFFICES ASSUME QueueInv, [Next]_vars PROVE QueueInv'
  BY Zenon
<1>1. CASE \E t \in Tx : RecvTransaction(t)
  BY <1>1, RecvInv, ZenonT(30)
<1>2. CASE \E late \in SUBSET MayExpire : TriggerNextLedger(late)
  BY <1>2, TriggerInv, ZenonT(30)
<1>3. CASE \E S \in SUBSET Tx : CloseLedger(S) \/ CloseUnnoticed(S)
  BY <1>3, CloseInv, UnnoticedInv, ZenonT(30)
<1>4. CASE UNCHANGED vars
  <2>1. queue' = queue /\ ledger' = ledger /\ threw' = threw
    BY <1>4, Zenon DEF vars
  <2>2. QED
    BY <2>1, Zenon DEF QueueInv
<1>5. QED
  BY <1>1, <1>2, <1>3, <1>4, ZenonT(30) DEF Next

\* In every reachable state, whatever transactions arrive, are proposed, externalized
\* or expire and whatever ledgers the queue is not told of, the rows of the queue are
\* chains with right books, nothing banned is queued, and a queue that knows the last
\* closed ledger needs no trimming.
THEOREM QueueInvariance == Spec => []QueueInv
<1>1. Init => QueueInv
  BY InitInv, ZenonT(30)
<1>2. QueueInv /\ [Next]_vars => QueueInv'
  BY NextInv, Zenon
<1>3. QED
  BY <1>1, <1>2, PTL DEF Spec

\* The totals TransactionQueue keeps incrementally (the fees and operations of every
\* account and of the queue) are always those of the transactions in it, and every
\* account's transactions are its own with consecutive sequence numbers.
THEOREM AccountingHolds == Spec => []Accounting
<1>1. QueueInv => Accounting
  <2> SUFFICES ASSUME QueueInv PROVE Accounting
    BY Zenon
  <2>1. Ordered(queue) /\ Books(queue) /\ queue \in Queue
    BY Zenon DEF QueueInv, QueueRight
  <2>2. QED
    BY <2>1, SMTT(30) DEF Ordered, Books, Accounting, Consecutive, Queue, Row, Chain
<1>2. QED
  BY <1>1, QueueInvariance, PTL

\* A transaction in one of the ban lists of TransactionQueue is never in the queue.
THEOREM NoneBannedHolds == Spec => []NoneBanned
<1>1. QueueInv => NoneBanned
  BY Zenon DEF QueueInv, QueueRight, Queue, Clean, NoneBanned
<1>2. QED
  BY <1>1, QueueInvariance, PTL

\* The queue of a node that knows the last closed ledger can be proposed as it is, and
\* what triggerNextLedger proposes after trimming is always a valid transaction set.
THEOREM ProposableHolds == Spec => []Proposable
<1>1. QueueInv => Proposable
  BY SoundTrim, Zenon DEF QueueInv, Proposable
<1>2. QED
  BY <1>1, QueueInvariance, PTL
=============================================================================
