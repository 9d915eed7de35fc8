-------------------------- MODULE BucketListProofs --------------------------
(***************************************************************************)
(* What the levels of the bucket list hold after a ledger, in closed form, *)
(* and that addBatch and restartMerges keep it so, for every number of     *)
(* levels and every ledger.                                                *)
(***************************************************************************)
EXTENDS BucketList, WellFoundedInduction, TLAPS

\* The least of a set of ledgers.
LEMMA Oldest ==
    ASSUME NEW D, D \subseteq Nat, D # {}
    PROVE  LET c == CHOOSE d \in D : \A e \in D : d <= e
           IN  c \in D /\ \A e \in D : c <= e
<1>1. PICK d \in D : \A e \in D : ~ (<<e, d>> \in OpToRel(<, Nat))
  BY NatLessThanWellFounded, WFMin, Zenon
<1>2. \A e \in D : ~ (e < d)
  BY <1>1, Zenon DEF OpToRel
<1>3. \A e \in D : d <= e
  BY <1>2
<1>4. QED
  BY <1>3, Zenon

-----------------------------------------------------------------------------
(* The arithmetic of levels.                                               *)

Multiple(m, h) == \E k \in Nat : m = k * h

\* Multiples of the same number keep their distance.
LEMMA MultiplesApart ==
    ASSUME NEW h \in Nat \ {0}, NEW m, NEW n, Multiple(m, h), Multiple(n, h)
    PROVE  /\ m \in Nat /\ n \in Nat
           /\ m < n => m + h <= n
           /\ Multiple(m + h, h)
           /\ m >= h => Multiple(m - h, h)
<1>1. PICK j \in Nat : m = j * h
  BY Zenon DEF Multiple
<1>2. PICK k \in Nat : n = k * h
  BY Zenon DEF Multiple
<1>3. m \in Nat /\ n \in Nat
  BY <1>1, <1>2, SMT
<1>4. ASSUME m < n PROVE m + h <= n
  <2>1. j < k
    <3>1. SUFFICES ASSUME k <= j PROVE FALSE
      BY SMT
    <3>2. j = k + (j - k) /\ j - k \in Nat
      BY <3>1, SMT
    <3>3. j * h = k * h + (j - k) * h /\ (j - k) * h \in Nat
      BY <3>2, SMT
    <3>4. QED
      BY <1>1, <1>2, <1>3, <1>4, <3>3, SMT
  <2>2. k - (j + 1) \in Nat /\ k = (j + 1) + (k - (j + 1))
    BY <2>1, SMT
  <2>3. k * h = j * h + h + (k - (j + 1)) * h /\ (k - (j + 1)) * h \in Nat
    BY <2>2, SMT
  <2>4. QED
    BY <1>1, <1>2, <1>3, <2>3, SMT
<1>5. Multiple(m + h, h)
  <2>1. j + 1 \in Nat /\ m + h = (j + 1) * h
    BY <1>1, SMT
  <2>2. QED
    BY <2>1, Zenon DEF Multiple
<1>6. ASSUME m >= h PROVE Multiple(m - h, h)
  <2>1. j # 0
    BY <1>1, <1>6, SMT
  <2>2. j - 1 \in Nat /\ m - h = (j - 1) * h
    BY <1>1, <2>1, SMT
  <2>3. QED
    BY <2>2, Zenon DEF Multiple
<1>7. QED
  BY <1>3, <1>4, <1>5, <1>6, Zenon

\* A multiple of 4h or of 2h is one of h, and so is 0.
LEMMA Multiples ==
    ASSUME NEW h \in Nat \ {0}
    PROVE  /\ Multiple(0, h) /\ Multiple(h, h) /\ Multiple(2 * h, h)
           /\ \A m : Multiple(m, 4 * h) => Multiple(m, h)
           /\ \A m : Multiple(m, 2 * h) => Multiple(m, h)
<1>1. 0 = 0 * h /\ h = 1 * h /\ 0 \in Nat /\ 1 \in Nat /\ 2 \in Nat
  BY SMT
<1>2. ASSUME NEW k \in Nat
      PROVE  k * (4 * h) = (4 * k) * h /\ 4 * k \in Nat /\ k * (2 * h) = (2 * k) * h /\ 2 * k \in Nat
  BY SMT
<1>3. ASSUME NEW m, Multiple(m, 4 * h) PROVE Multiple(m, h)
  <2>1. PICK k \in Nat : m = k * (4 * h)
    BY <1>3, Zenon DEF Multiple
  <2>2. QED
    BY <1>2, <2>1, Zenon DEF Multiple
<1>4. ASSUME NEW m, Multiple(m, 2 * h) PROVE Multiple(m, h)
  <2>1. PICK k \in Nat : m = k * (2 * h)
    BY <1>4, Zenon DEF Multiple
  <2>2. QED
    BY <1>2, <2>1, Zenon DEF Multiple
<1>5. Multiple(0, h) /\ Multiple(h, h) /\ Multiple(2 * h, h)
  BY <1>1, Zenon DEF Multiple
<1>6. QED
  BY <1>3, <1>4, <1>5, Zenon

\* mask finds the last multiple.
LEMMA MaskRight ==
    ASSUME NEW n \in Nat, NEW h \in Nat \ {0}
    PROVE  /\ mask(n, h) \in Nat /\ Multiple(mask(n, h), h)
           /\ mask(n, h) <= n /\ n < mask(n, h) + h
<1>1. n = (n \div h) * h + (n % h) /\ n % h \in 0 .. h - 1 /\ n \div h \in Nat
  BY SMT
<1>2. mask(n, h) = (n \div h) * h
  BY <1>1, SMT DEF mask
<1>3. Multiple(mask(n, h), h)
  BY <1>1, <1>2, Zenon DEF Multiple
<1>4. QED
  BY <1>1, <1>2, <1>3, SMT

\* And no other.
LEMMA MaskIs ==
    ASSUME NEW n \in Nat, NEW h \in Nat \ {0}, NEW m, Multiple(m, h), m <= n, n < m + h
    PROVE  mask(n, h) = m
<1> DEFINE x == mask(n, h)
<1>1. x \in Nat /\ Multiple(x, h) /\ x <= n /\ n < x + h
  BY MaskRight, Zenon
<1> HIDE DEF x
<1>2. m \in Nat /\ (m < x => m + h <= x) /\ (x < m => x + h <= m)
  BY <1>1, MultiplesApart, Zenon
<1>3. x = m
  BY <1>1, <1>2, SMT
<1>4. QED
  BY <1>3, Zenon DEF x

\* From one ledger to the next.
LEMMA MaskNext ==
    ASSUME NEW n \in Nat \ {0}, NEW h \in Nat \ {0}
    PROVE  /\ mask(n, h) = n => mask(n - 1, h) = n - h /\ n - h \in Nat
           /\ mask(n, h) # n => mask(n - 1, h) = mask(n, h)
<1> DEFINE m == mask(n, h)
<1>1. m \in Nat /\ Multiple(m, h) /\ m <= n /\ n < m + h /\ n - 1 \in Nat
  BY MaskRight, SMT
<1> HIDE DEF m
<1>2. ASSUME m = n PROVE mask(n - 1, h) = n - h /\ n - h \in Nat
  <2>1. h <= n
    <3>1. Multiple(0, h)
      BY Multiples, Zenon
    <3>2. 0 < m => 0 + h <= m
      BY <1>1, <3>1, MultiplesApart, Zenon
    <3>3. QED
      BY <1>2, <3>2, SMT
  <2>2. Multiple(n - h, h)
    <3>1. n >= h /\ Multiple(n, h)
      BY <1>1, <1>2, <2>1, SMT
    <3>2. QED
      BY <3>1, MultiplesApart, Zenon
  <2>3. n - h <= n - 1 /\ n - 1 < (n - h) + h /\ n - h \in Nat
    BY <2>1, SMT
  <2>4. QED
    BY <1>1, <2>2, <2>3, MaskIs, Zenon
<1>3. ASSUME m # n PROVE mask(n - 1, h) = m
  <2>1. m <= n - 1 /\ n - 1 < m + h
    BY <1>1, <1>3, SMT
  <2>2. QED
    BY <1>1, <2>1, MaskIs, Zenon
<1>4. QED
  BY <1>2, <1>3, Zenon DEF m

\* A level and the one above it, of a quarter the size.
LEMMA MaskQuarter ==
    ASSUME NEW n \in Nat, NEW h \in Nat \ {0}
    PROVE  /\ mask(mask(n, h), 4 * h) = mask(n, 4 * h)
           /\ mask(mask(n, h), h) = mask(n, h)
           /\ mask(n, 4 * h) <= mask(n, h)
           /\ mask(n, 4 * h) = n => mask(n, h) = n
           /\ n < h => mask(n, h) = 0
           /\ mask(n, h) = 0 => n < h
<1> DEFINE m == mask(n, h)
           M == mask(n, 4 * h)
<1>1. m \in Nat /\ Multiple(m, h) /\ m <= n /\ n < m + h
  BY MaskRight, Zenon
<1>2. M \in Nat /\ Multiple(M, 4 * h) /\ M <= n /\ n < M + 4 * h /\ 4 * h \in Nat \ {0}
  <2>1. 4 * h \in Nat \ {0}
    BY SMT
  <2>2. QED
    BY <2>1, MaskRight, Zenon
<1> HIDE DEF m, M
<1>3. Multiple(M, h)
  BY <1>2, Multiples, Zenon
<1>4. M <= m
  <2>1. m < M => m + h <= M
    BY <1>1, <1>3, MultiplesApart, Zenon
  <2>2. QED
    BY <1>1, <1>2, <2>1, SMT
<1>5. mask(m, 4 * h) = M
  <2>1. m < M + 4 * h
    BY <1>1, <1>2, SMT
  <2>2. QED
    BY <1>1, <1>2, <1>4, <2>1, MaskIs, Zenon
<1>6. mask(m, h) = m
  <2>1. m <= m /\ m < m + h
    BY <1>1, SMT
  <2>2. QED
    BY <1>1, <2>1, MaskIs, Zenon
<1>7. M = n => m = n
  BY <1>1, <1>4, SMT
<1>8. n < h => m = 0
  <2>1. ASSUME n < h PROVE 0 <= n /\ n < 0 + h /\ Multiple(0, h)
    <3>1. Multiple(0, h)
      BY Multiples, Zenon
    <3>2. QED
      BY <2>1, <3>1, SMT
  <2>2. QED
    BY <2>1, MaskIs, Zenon DEF m
<1>9. m = 0 => n < h
  BY <1>1, SMT
<1>10. QED
  BY <1>4, <1>5, <1>6, <1>7, <1>8, <1>9, Zenon DEF m, M

\* The multiple of h after m is in the same stretch of 4h unless it begins the next.
LEMMA MaskAfter ==
    ASSUME NEW m \in Nat, NEW h \in Nat \ {0}, mask(m, h) = m
    PROVE  /\ mask(m + h, h) = m + h
           /\ mask(m + h, 4 * h) # m + h => mask(m + h, 4 * h) = mask(m, 4 * h)
           /\ mask(m + h, 4 * h) = m + h /\ m + h # 0 => m >= 3 * h
<1> DEFINE M == mask(m, 4 * h)
           N == mask(m + h, 4 * h)
<1>0. 4 * h \in Nat \ {0} /\ m + h \in Nat
  BY SMT
<1>1. Multiple(m, h) /\ Multiple(m + h, h)
  BY MaskRight, MultiplesApart, Zenon
<1>2. M \in Nat /\ Multiple(M, 4 * h) /\ M <= m /\ m < M + 4 * h
  BY <1>0, MaskRight, Zenon
<1>3. N \in Nat /\ Multiple(N, 4 * h) /\ N <= m + h /\ m + h < N + 4 * h
  BY <1>0, MaskRight, Zenon
<1> HIDE DEF M, N
<1>4. mask(m + h, h) = m + h
  <2>1. m + h <= m + h /\ m + h < (m + h) + h
    BY SMT
  <2>2. QED
    BY <1>0, <1>1, <2>1, MaskIs, Zenon
<1>5. ASSUME N # m + h PROVE N = M
  <2>1. Multiple(N, h)
    BY <1>3, Multiples, Zenon
  <2>2. N < m + h => N + h <= m + h
    BY <1>1, <2>1, MultiplesApart, Zenon
  <2>3. N <= m /\ m < N + 4 * h
    BY <1>3, <1>5, <2>2, SMT
  <2>4. QED
    BY <1>0, <1>3, <2>3, MaskIs, Zenon DEF M
<1>6. ASSUME N = m + h PROVE m >= 3 * h
  <2>1. Multiple(0, 4 * h)
    BY <1>0, Multiples, Zenon
  <2>2. 0 < N => 0 + 4 * h <= N
    BY <1>0, <1>3, <2>1, MultiplesApart, Zenon
  <2>3. QED
    BY <1>6, <2>2, SMT
<1>7. QED
  BY <1>4, <1>5, <1>6, Zenon DEF M, N

-----------------------------------------------------------------------------
(* The sizes of levels.                                                    *)

\* A level has a next one unless it is the last, and one before it unless it is the first.
LEMMA Levels ==
    /\ LastLevel \in Nat \ {0} /\ 0 \in Level /\ 1 \in Level /\ LastLevel \in Level
    /\ \A i \in Level : /\ i \in Nat
                        /\ i # 0 => i - 1 \in Level /\ i - 1 # LastLevel /\ (i - 1) + 1 = i
                        /\ i # LastLevel => i + 1 \in Level /\ i + 1 # 0 /\ (i + 1) - 1 = i
                        /\ \A j \in 1 .. i : j \in Level /\ j # 0
BY NumLevelsAssumption, SMT DEF Level, LastLevel

\* The sizes of the levels 0 .. j.
Quadruples(f, j) ==
    /\ \A i \in 0 .. j : f[i] \in Nat \ {0}
    /\ f = [i \in 0 .. j |-> IF i = 0 THEN 4 ELSE 4 * f[i - 1]]

\* levelSize is what its definition says.
LEMMA LevelSizes == Quadruples(levelSize, LastLevel)
<1> DEFINE Bad == {j \in Nat : ~ \E f : Quadruples(f, j)}
<1>1. ASSUME Bad # {} PROVE FALSE
  <2>1. PICK j \in Bad : \A l \in Bad : j <= l
    <3>1. Bad \subseteq Nat
      BY Zenon
    <3> HIDE DEF Bad
    <3>2. QED
      BY <1>1, <3>1, Oldest, Zenon
  <2>2. j \in Nat /\ ~ \E f : Quadruples(f, j)
    BY <2>1, Zenon
  <2>3. CASE j = 0
    <3> DEFINE f == [i \in 0 .. 0 |-> 4]
    <3>1. Quadruples(f, 0)
      BY SMT DEF Quadruples
    <3>2. QED
      BY <2>2, <2>3, <3>1, Zenon
  <2>4. CASE j # 0
    <3>1. j - 1 \in Nat /\ ~ (j <= j - 1)
      BY <2>2, <2>4, SMT
    <3>2. j - 1 \notin Bad
      BY <2>1, <3>1, Zenon
    <3>3. PICK g : Quadruples(g, j - 1)
      BY <3>1, <3>2, Zenon
    <3> DEFINE f == [i \in 0 .. j |-> IF i = j THEN 4 * g[j - 1] ELSE g[i]]
    <3>4. /\ \A i \in 0 .. j - 1 : g[i] \in Nat \ {0}
          /\ \A i \in 0 .. j - 1 : g[i] = IF i = 0 THEN 4 ELSE 4 * g[i - 1]
      BY <3>3, Zenon DEF Quadruples
    <3>5. \A i \in 0 .. j : f[i] = IF i = j THEN 4 * g[j - 1] ELSE g[i]
      BY Zenon
    <3>6. f = [i \in 0 .. j |-> f[i]]
      BY Zenon
    <3> HIDE DEF f
    <3>7. \A i \in 0 .. j : f[i] \in Nat \ {0}
      BY <2>2, <2>4, <3>1, <3>4, <3>5, SMT
    <3>8. \A i \in 0 .. j : f[i] = IF i = 0 THEN 4 ELSE 4 * f[i - 1]
      BY <2>2, <2>4, <3>1, <3>4, <3>5, SMT
    <3>9. f = [i \in 0 .. j |-> IF i = 0 THEN 4 ELSE 4 * f[i - 1]]
      BY <3>6, <3>8, Zenon
    <3>10. QED
      BY <2>2, <3>7, <3>9, Zenon DEF Quadruples
  <2>5. QED
    BY <2>3, <2>4, Zenon
<1>2. \E f : Quadruples(f, LastLevel)
  BY <1>1, Levels, Zenon
<1>3. levelSize = CHOOSE f : f = [i \in Level |-> IF i = 0 THEN 4 ELSE 4 * f[i - 1]]
  BY Zenon DEF levelSize
<1>4. \E f : f = [i \in Level |-> IF i = 0 THEN 4 ELSE 4 * f[i - 1]]
  BY <1>2, Zenon DEF Quadruples, Level
<1>5. levelSize = [i \in Level |-> IF i = 0 THEN 4 ELSE 4 * levelSize[i - 1]]
  BY <1>3, <1>4, Zenon
<1> DEFINE Odd == {i \in Nat : i \in Level /\ levelSize[i] \notin Nat \ {0}}
<1>6. ASSUME Odd # {} PROVE FALSE
  <2>1. PICK i \in Odd : \A l \in Odd : i <= l
    <3>1. Odd \subseteq Nat
      BY Zenon
    <3> HIDE DEF Odd
    <3>2. QED
      BY <1>6, <3>1, Oldest, Zenon
  <2>2. i \in Level /\ i \in Nat /\ levelSize[i] \notin Nat \ {0}
    BY <2>1, Zenon
  <2>3. levelSize[i] = IF i = 0 THEN 4 ELSE 4 * levelSize[i - 1]
    BY <1>5, <2>2, Zenon
  <2>4. i # 0
    BY <2>2, <2>3, SMT
  <2>5. i - 1 \in Level /\ i - 1 \in Nat /\ ~ (i <= i - 1)
    BY <2>2, <2>4, Levels, SMT
  <2>6. levelSize[i - 1] \in Nat \ {0}
    BY <2>1, <2>5, Zenon
  <2>7. QED
    BY <2>2, <2>3, <2>4, <2>6, SMT
<1>7. \A i \in Level : levelSize[i] \in Nat \ {0}
  BY <1>6, Levels, Zenon
<1>8. QED
  BY <1>5, <1>7, Zenon DEF Quadruples, Level

\* By how much a level's buckets lag behind the ledger of the spill that made them.
lag(i) == (levelSize[i] - 1) \div 3

\* What half of a level and its lag are.
LEMMA Halves ==
    ASSUME NEW i \in Level
    PROVE  /\ levelHalf(i) \in Nat \ {0} /\ levelSize[i] = 2 * levelHalf(i)
           /\ lag(i) \in Nat \ {0} /\ 3 * lag(i) = 2 * levelHalf(i) - 1
           /\ i = 0 => levelHalf(i) = 2 /\ lag(i) = 1
           /\ i # 0 => /\ levelHalf(i) = 4 * levelHalf(i - 1)
                       /\ lag(i) = lag(i - 1) + 2 * levelHalf(i - 1)
<1> DEFINE Right(j) == /\ levelHalf(j) \in Nat \ {0} /\ levelSize[j] = 2 * levelHalf(j)
                       /\ lag(j) \in Nat \ {0} /\ 3 * lag(j) = 2 * levelHalf(j) - 1
           Bad == {j \in Nat : j \in Level /\ ~ Right(j)}
<1>0. \A j \in Level : levelSize[j] = IF j = 0 THEN 4 ELSE 4 * levelSize[j - 1]
  BY LevelSizes, Zenon DEF Quadruples, Level
<1>1. levelSize[0] = 4 /\ levelHalf(0) = 2 /\ lag(0) = 1
  BY <1>0, Levels, SMT DEF levelHalf, lag
<1>2. ASSUME NEW j \in Level, j # 0, Right(j - 1)
      PROVE  Right(j) /\ levelHalf(j) = 4 * levelHalf(j - 1) /\ lag(j) = lag(j - 1) + 2 * levelHalf(j - 1)
  <2> DEFINE h == levelHalf(j - 1)
             d == lag(j - 1)
  <2>1. levelSize[j] = 4 * levelSize[j - 1]
    BY <1>0, <1>2, Zenon
  <2>2. levelSize[j - 1] = 2 * h /\ h \in Nat \ {0} /\ d \in Nat \ {0} /\ 3 * d = 2 * h - 1
    BY <1>2, Zenon
  <2>3. levelHalf(j) = levelSize[j] \div 2 /\ lag(j) = (levelSize[j] - 1) \div 3
    BY Zenon DEF levelHalf, lag
  <2> HIDE DEF h, d
  <2>4. levelHalf(j) = 4 * h /\ lag(j) = d + 2 * h
    BY <2>1, <2>2, <2>3, SMT
  <2>5. Right(j)
    BY <2>1, <2>2, <2>4, SMT
  <2>6. QED
    BY <2>4, <2>5, Zenon DEF h, d
<1>3. ASSUME Bad # {} PROVE FALSE
  <2>1. PICK j \in Bad : \A l \in Bad : j <= l
    <3>1. Bad \subseteq Nat
      BY Zenon
    <3> HIDE DEF Bad
    <3>2. QED
      BY <1>3, <3>1, Oldest, Zenon
  <2>2. j \in Level /\ j \in Nat /\ ~ Right(j)
    BY <2>1, Zenon
  <2>3. j # 0
    <3>1. Right(0)
      BY <1>1, SMT
    <3>2. QED
      BY <2>2, <3>1, Zenon
  <2>4. j - 1 \in Level /\ j - 1 \in Nat /\ ~ (j <= j - 1)
    BY <2>2, <2>3, Levels, SMT
  <2>5. Right(j - 1)
    BY <2>1, <2>4, Zenon
  <2>6. QED
    BY <1>2, <2>2, <2>3, <2>5, Zenon
<1>4. \A j \in Level : Right(j)
  BY <1>3, Levels, Zenon
<1>5. QED
  BY <1>1, <1>2, <1>4, Levels, Zenon

\* A level spills at the multiples of its half.
LEMMA Spills ==
    ASSUME NEW n \in Nat, NEW i \in Level
    PROVE  levelShouldSpill(n, i) <=> i # LastLevel /\ mask(n, levelHalf(i)) = n
<1> DEFINE h == levelHalf(i)
<1>1. h \in Nat \ {0} /\ levelSize[i] = 2 * h
  BY Halves, Zenon
<1> HIDE DEF h
<1>2. ASSUME mask(n, 2 * h) = n PROVE mask(n, h) = n
  <2>1. 2 * h \in Nat \ {0}
    BY <1>1, SMT
  <2>2. Multiple(n, 2 * h)
    BY <1>2, <2>1, MaskRight, Zenon
  <2>3. Multiple(n, h) /\ n <= n /\ n < n + h
    BY <1>1, <2>2, Multiples, SMT
  <2>4. QED
    BY <1>1, <2>3, MaskIs, Zenon
<1>3. QED
  BY <1>1, <1>2, Zenon DEF levelShouldSpill, h

-----------------------------------------------------------------------------
(* What each level holds, in closed form: after ledger n, level i holds    *)
(* Below(n, i) + 1 .. Newest(n, i), of which the snap has those up to      *)
(* Cut(n, i).                                                              *)

Newest(n, i) ==
    IF i = 0 THEN n
    ELSE IF mask(n, levelHalf(i - 1)) >= 2 * levelHalf(i - 1)
    THEN mask(n, levelHalf(i - 1)) - levelHalf(i - 1) - lag(i - 1)
    ELSE 0

Cut(n, i) ==
    IF i = LastLevel \/ mask(n, levelHalf(i)) = 0 THEN 0
    ELSE mask(n, levelHalf(i)) - lag(i)

Below(n, i) == IF i = LastLevel THEN 0 ELSE Newest(n, i + 1)

\* A level that has been spilled into, and its half and lag from those of the one above.
LEMMA Deeper ==
    ASSUME NEW i \in Level, i # 0
    PROVE  \E g \in Nat \ {0}, d \in Nat \ {0} :
              /\ g = levelHalf(i - 1) /\ d = lag(i - 1) /\ 3 * d = 2 * g - 1
              /\ levelHalf(i) = 4 * g /\ lag(i) = d + 2 * g
              /\ \A n : Newest(n, i) = IF mask(n, g) >= 2 * g THEN mask(n, g) - g - d ELSE 0
              /\ \A n : Cut(n, i) = IF i = LastLevel \/ mask(n, 4 * g) = 0 THEN 0
                                    ELSE mask(n, 4 * g) - (d + 2 * g)
<1>1. i - 1 \in Level
  BY Levels, Zenon
<1>2. /\ levelHalf(i - 1) \in Nat \ {0} /\ lag(i - 1) \in Nat \ {0}
      /\ 3 * lag(i - 1) = 2 * levelHalf(i - 1) - 1
  BY <1>1, Halves, Zenon
<1>3. levelHalf(i) = 4 * levelHalf(i - 1) /\ lag(i) = lag(i - 1) + 2 * levelHalf(i - 1)
  BY Halves, Zenon
<1>4. \A n : Newest(n, i) = IF mask(n, levelHalf(i - 1)) >= 2 * levelHalf(i - 1)
                            THEN mask(n, levelHalf(i - 1)) - levelHalf(i - 1) - lag(i - 1) ELSE 0
  BY Zenon DEF Newest
<1>5. \A n : Cut(n, i) = IF i = LastLevel \/ mask(n, levelHalf(i)) = 0 THEN 0
                         ELSE mask(n, levelHalf(i)) - lag(i)
  BY Zenon DEF Cut
<1>6. QED
  BY <1>2, <1>3, <1>4, <1>5, Zenon

\* The three are in order.
LEMMA InOrder ==
    ASSUME NEW n \in Nat, NEW i \in Level
    PROVE  /\ Newest(n, i) \in Nat /\ Cut(n, i) \in Nat /\ Below(n, i) \in Nat
           /\ Below(n, i) <= Cut(n, i) /\ Cut(n, i) <= Newest(n, i) /\ Newest(n, i) <= n
<1> DEFINE h == levelHalf(i)
           l == lag(i)
           m == mask(n, h)
<1>1. h \in Nat \ {0} /\ l \in Nat \ {0} /\ 3 * l = 2 * h - 1
  BY Halves, Zenon
<1>2. m \in Nat /\ Multiple(m, h) /\ m <= n /\ n < m + h
  BY <1>1, MaskRight, Zenon
<1>3. m # 0 => m >= h
  <2>1. Multiple(0, h)
    BY <1>1, Multiples, Zenon
  <2>2. 0 < m => 0 + h <= m
    BY <1>1, <1>2, <2>1, MultiplesApart, Zenon
  <2>3. QED
    BY <1>1, <1>2, <2>2, SMT
<1>4. Cut(n, i) = IF i = LastLevel \/ m = 0 THEN 0 ELSE m - l
  BY Zenon DEF Cut
<1>5. i # LastLevel => Below(n, i) = IF m >= 2 * h THEN m - h - l ELSE 0
  BY Levels, Zenon DEF Below, Newest
<1>6. i = LastLevel => Below(n, i) = 0
  BY Zenon DEF Below
<1> HIDE DEF h, l, m
<1>7. Cut(n, i) \in Nat /\ Below(n, i) \in Nat /\ Below(n, i) <= Cut(n, i)
  BY <1>1, <1>2, <1>3, <1>4, <1>5, <1>6, SMT
<1>8. CASE i = 0
  <2>1. Newest(n, i) = n
    BY <1>8, Zenon DEF Newest
  <2>2. QED
    BY <1>1, <1>2, <1>3, <1>4, <1>7, <2>1, SMT
<1>9. CASE i # 0
  <2>1. PICK g \in Nat \ {0}, d \in Nat \ {0} :
              /\ 3 * d = 2 * g - 1 /\ levelHalf(i) = 4 * g /\ lag(i) = d + 2 * g
              /\ Newest(n, i) = IF mask(n, g) >= 2 * g THEN mask(n, g) - g - d ELSE 0
    BY <1>9, Deeper, Zenon
  <2>2. mask(n, g) \in Nat /\ mask(n, g) <= n
    BY <2>1, MaskRight, Zenon
  <2>3. mask(n, 4 * g) <= mask(n, g)
    BY <2>1, MaskQuarter, Zenon
  <2>4. h = 4 * g /\ l = d + 2 * g /\ m <= mask(n, g)
    BY <2>1, <2>3, Zenon DEF h, l, m
  <2>5. QED
    BY <1>1, <1>2, <1>3, <1>4, <1>7, <2>1, <2>2, <2>4, SMT
<1>10. QED
  BY <1>8, <1>9, Zenon

AboveSize(i) == [n \in Ledger |-> n - Newest(n, i)]
CurrSize(i) == [n \in Ledger |-> Newest(n, i) - Cut(n, i)]
SnapSize(i) == [n \in Ledger |-> Cut(n, i) - Below(n, i)]

\* One unfolding of the sizes of a curr.
CurrBody(level, above, size, ledger) ==
    LET half == levelHalf(level)
        delta == levelHalf(level - 1)
    IN  IF level = 0 THEN (IF ledger = 1 THEN 1 ELSE 1 + (ledger % 2))
        ELSE IF level = LastLevel \/ mask(ledger, half) = 0
        THEN ledger - above[ledger]
        ELSE IF mask(ledger, half) = ledger THEN delta
        ELSE size[mask(ledger - 1, delta)]
                + (IF mask(ledger, delta) = ledger THEN delta ELSE 0)

\* The recursive case goes to an earlier ledger.
LEMMA CurrEarlier ==
    ASSUME NEW i \in Level, i # 0, NEW n \in Ledger,
           mask(n, levelHalf(i)) # 0, mask(n, levelHalf(i)) # n
    PROVE  LET g == levelHalf(i - 1)
               p == mask(n - 1, g)
           IN  /\ p \in Ledger /\ p < n /\ p >= 2 * g
               /\ mask(p, g) = p /\ mask(p, 4 * g) = mask(n, 4 * g)
               /\ mask(n, g) = n => p = n - g
               /\ mask(n, g) # n => p = mask(n, g)
               /\ mask(n, g) >= p
<1>1. PICK g \in Nat \ {0} : g = levelHalf(i - 1) /\ levelHalf(i) = 4 * g
  BY Deeper, Zenon
<1> DEFINE p == mask(n - 1, g)
           m == mask(n, g)
           M == mask(n, 4 * g)
<1>2. n \in Nat /\ n # 0 /\ n \in Nat \ {0} /\ n - 1 \in Nat /\ 4 * g \in Nat \ {0}
  BY <1>1, SMT DEF Ledger
<1>3. M # 0 /\ M # n
  BY <1>1, Zenon
<1>4. /\ m \in Nat /\ Multiple(m, g) /\ m <= n /\ n < m + g
      /\ M \in Nat /\ Multiple(M, 4 * g) /\ M <= n
  BY <1>1, <1>2, MaskRight, Zenon
<1>5. /\ m = n => p = n - g /\ n - g \in Nat
      /\ m # n => p = m
  BY <1>1, <1>2, MaskNext, Zenon
<1>6. M <= m /\ mask(m, 4 * g) = M /\ mask(m, g) = m
  BY <1>1, <1>2, MaskQuarter, Zenon
<1>7. M >= 4 * g
  <2>1. Multiple(0, 4 * g)
    BY <1>2, Multiples, Zenon
  <2> HIDE DEF M
  <2>2. 0 < M => 0 + 4 * g <= M
    BY <1>2, <1>4, <2>1, MultiplesApart, Zenon
  <2>3. QED
    BY <1>1, <1>3, <1>4, <2>2, SMT
<1>8. p \in Nat /\ mask(p, g) = p
  <2>1. p \in Nat
    BY <1>1, <1>2, MaskRight, Zenon
  <2>2. mask(p, g) = p
    BY <1>1, <1>2, MaskQuarter, Zenon
  <2>3. QED
    BY <2>1, <2>2, Zenon
<1>9. mask(p, 4 * g) = M
  <2>1. CASE m # n
    BY <1>5, <1>6, <2>1, Zenon
  <2>2. CASE m = n
    <3>1. p + g = n
      BY <1>1, <1>2, <1>5, <2>2, SMT
    <3>2. mask(p + g, 4 * g) # p + g
      BY <1>3, <3>1, Zenon
    <3>3. mask(p + g, 4 * g) = mask(p, 4 * g)
      BY <1>1, <1>8, <3>2, MaskAfter, Zenon
    <3>4. QED
      BY <3>1, <3>3, Zenon
  <2>3. QED
    BY <2>1, <2>2, Zenon
<1> HIDE DEF p, m, M
<1>10. p \in Ledger /\ p < n /\ p >= 2 * g /\ m >= p
  BY <1>1, <1>2, <1>3, <1>4, <1>5, <1>6, <1>7, <1>8, SMT DEF Ledger
<1>11. QED
  BY <1>1, <1>5, <1>8, <1>9, <1>10, Zenon DEF p, m, M

\* The closed form satisfies the recursion.
LEMMA CurrSolves ==
    ASSUME NEW i \in Level, NEW n \in Ledger
    PROVE  CurrSize(i)[n] = CurrBody(i, AboveSize(i), CurrSize(i), n)
<1>0. n \in Nat /\ n # 0
  BY Zenon DEF Ledger
<1>1. CurrSize(i)[n] = Newest(n, i) - Cut(n, i)
  BY Zenon DEF CurrSize
<1>2. Newest(n, i) \in Nat /\ Cut(n, i) \in Nat
  BY <1>0, InOrder, Zenon
<1>3. AboveSize(i)[n] = n - Newest(n, i)
  BY Zenon DEF AboveSize
<1>4. CASE i = 0
  <2>1. levelHalf(0) = 2 /\ lag(0) = 1 /\ 0 # LastLevel
    BY Levels, Halves, Zenon
  <2>2. Newest(n, i) = n /\ Cut(n, i) = IF mask(n, 2) = 0 THEN 0 ELSE mask(n, 2) - 1
    BY <1>4, <2>1, Zenon DEF Newest, Cut
  <2>3. CurrBody(i, AboveSize(i), CurrSize(i), n) = IF n = 1 THEN 1 ELSE 1 + (n % 2)
    BY <1>4, Zenon DEF CurrBody
  <2>4. mask(n, 2) = n - (n % 2) /\ n % 2 \in {0, 1}
    BY <1>0, SMT DEF mask
  <2>5. n = 1 => n % 2 = 1
    BY SMT
  <2>6. QED
    BY <1>0, <1>1, <2>2, <2>3, <2>4, <2>5, SMT
<1>5. CASE i # 0
  <2>1. PICK g \in Nat \ {0}, d \in Nat \ {0} :
              /\ g = levelHalf(i - 1) /\ d = lag(i - 1) /\ 3 * d = 2 * g - 1
              /\ levelHalf(i) = 4 * g /\ lag(i) = d + 2 * g
              /\ \A k : Newest(k, i) = IF mask(k, g) >= 2 * g THEN mask(k, g) - g - d ELSE 0
              /\ \A k : Cut(k, i) = IF i = LastLevel \/ mask(k, 4 * g) = 0 THEN 0
                                    ELSE mask(k, 4 * g) - (d + 2 * g)
    BY <1>5, Deeper, Zenon
  <2> DEFINE m == mask(n, g)
             M == mask(n, 4 * g)
             p == mask(n - 1, g)
  <2>2. CurrBody(i, AboveSize(i), CurrSize(i), n) =
            IF i = LastLevel \/ M = 0 THEN n - (n - Newest(n, i))
            ELSE IF M = n THEN g
            ELSE CurrSize(i)[p] + (IF m = n THEN g ELSE 0)
    BY <1>3, <1>5, <2>1, Zenon DEF CurrBody
  <2>3. m \in Nat /\ m <= n /\ M <= m /\ M \in Nat
    <3>1. 4 * g \in Nat \ {0}
      BY <2>1, SMT
    <3>2. QED
      BY <1>0, <2>1, <3>1, MaskRight, MaskQuarter, Zenon
  <2>4. CASE i = LastLevel \/ M = 0
    <3>1. Cut(n, i) = 0
      BY <2>1, <2>4, Zenon
    <3>2. CurrBody(i, AboveSize(i), CurrSize(i), n) = n - (n - Newest(n, i))
      BY <2>2, <2>4, Zenon
    <3>3. QED
      BY <1>0, <1>1, <1>2, <3>1, <3>2, SMT
  <2>5. CASE ~ (i = LastLevel \/ M = 0) /\ M = n
    <3>1. m = n /\ n >= 2 * g
      <4>1. m = n
        BY <1>0, <2>3, <2>5, SMT
      <4>2. Multiple(n, 4 * g) /\ Multiple(0, 4 * g) /\ 4 * g \in Nat \ {0}
        <5>1. 4 * g \in Nat \ {0}
          BY <2>1, SMT
        <5>2. Multiple(M, 4 * g)
          BY <1>0, <5>1, MaskRight, Zenon
        <5>3. Multiple(0, 4 * g)
          BY <5>1, Multiples, Zenon
        <5> HIDE DEF M
        <5>4. QED
          BY <2>5, <5>1, <5>2, <5>3, Zenon
      <4>3. 0 < n => 0 + 4 * g <= n
        BY <4>2, MultiplesApart, Zenon
      <4>4. QED
        BY <1>0, <2>1, <4>1, <4>3, SMT
    <3>2. Newest(n, i) = n - g - d
      BY <2>1, <3>1, Zenon
    <3>3. Cut(n, i) = n - (d + 2 * g)
      BY <2>1, <2>5, Zenon
    <3>4. CurrBody(i, AboveSize(i), CurrSize(i), n) = g
      BY <2>2, <2>5, Zenon
    <3>5. QED
      BY <1>0, <1>1, <2>1, <3>2, <3>3, <3>4, SMT
  <2>6. CASE ~ (i = LastLevel \/ M = 0) /\ M # n
    <3>1. /\ p \in Ledger /\ p < n /\ p >= 2 * g
          /\ mask(p, g) = p /\ mask(p, 4 * g) = M
          /\ m = n => p = n - g
          /\ m # n => p = m
          /\ m >= p
      <4>1. mask(n, levelHalf(i)) # 0 /\ mask(n, levelHalf(i)) # n
        BY <2>1, <2>6, Zenon
      <4>2. QED
        BY <1>5, <2>1, <4>1, CurrEarlier, Zenon
    <3>2. CurrSize(i)[p] = Newest(p, i) - Cut(p, i)
      BY <3>1, Zenon DEF CurrSize
    <3>3. Newest(p, i) = p - g - d /\ Cut(p, i) = M - (d + 2 * g) /\ Cut(n, i) = M - (d + 2 * g)
      BY <2>1, <2>6, <3>1, Zenon
    <3>4. Newest(n, i) = IF m >= 2 * g THEN m - g - d ELSE 0
      BY <2>1, Zenon
    <3>5. CurrBody(i, AboveSize(i), CurrSize(i), n) = CurrSize(i)[p] + (IF m = n THEN g ELSE 0)
      BY <2>2, <2>6, Zenon
    <3>6. p \in Nat
      BY <3>1, Zenon DEF Ledger
    <3> HIDE DEF p, m, M
    <3>7. QED
      BY <1>0, <1>1, <2>1, <2>3, <3>1, <3>2, <3>3, <3>4, <3>5, <3>6, SMT
  <2>7. QED
    BY <2>4, <2>5, <2>6, Zenon
<1>6. QED
  BY <1>4, <1>5, Zenon

\* And nothing else does.
LEMMA CurrUnique ==
    ASSUME NEW i \in Level, NEW f,
           f = [n \in Ledger |-> CurrBody(i, AboveSize(i), f, n)]
    PROVE  f = CurrSize(i)
<1> DEFINE K == CurrSize(i)
           Bad == {n \in Ledger : f[n] # K[n]}
<1>1. \A n \in Ledger : f[n] = CurrBody(i, AboveSize(i), f, n)
  BY Zenon
<1>2. \A n \in Ledger : K[n] = CurrBody(i, AboveSize(i), K, n)
  BY CurrSolves, Zenon
<1>3. K = [n \in Ledger |-> K[n]]
  BY Zenon DEF CurrSize
<1> HIDE DEF K
<1>4. ASSUME Bad # {} PROVE FALSE
  <2>1. PICK n \in Bad : \A k \in Bad : n <= k
    <3>1. Bad \subseteq Nat
      BY Zenon DEF Ledger
    <3> HIDE DEF Bad
    <3>2. QED
      BY <1>4, <3>1, Oldest, Zenon
  <2>2. n \in Ledger /\ f[n] # K[n] /\ n \in Nat
    BY <2>1, Zenon DEF Ledger
  <2>3. CurrBody(i, AboveSize(i), f, n) # CurrBody(i, AboveSize(i), K, n)
    BY <1>1, <1>2, <2>2, Zenon
  <2> DEFINE p == mask(n - 1, levelHalf(i - 1))
  <2>4. /\ i # 0 /\ mask(n, levelHalf(i)) # 0 /\ mask(n, levelHalf(i)) # n
        /\ f[p] # K[p]
    BY <2>3, Zenon DEF CurrBody
  <2>5. p \in Ledger /\ p < n
    BY <2>2, <2>4, CurrEarlier, Zenon
  <2> HIDE DEF p
  <2>6. n <= p /\ p \in Nat
    BY <2>1, <2>4, <2>5, Zenon DEF Ledger
  <2>7. QED
    BY <2>2, <2>5, <2>6, SMT
<1>5. \A n \in Ledger : f[n] = K[n]
  BY <1>4, Zenon
<1>6. f = [n \in Ledger |-> f[n]]
  BY <1>1, Zenon
<1>7. QED
  BY <1>3, <1>5, <1>6, Zenon DEF K

\* So the sizes of the currs are the closed form.
LEMMA CurrSizes ==
    ASSUME NEW i \in Level
    PROVE  sizeOfCurr(i, AboveSize(i)) = CurrSize(i)
<1> DEFINE A == AboveSize(i)
           K == CurrSize(i)
<1>1. sizeOfCurr(i, A) = CHOOSE f : f = [n \in Ledger |-> CurrBody(i, A, f, n)]
  BY Zenon DEF sizeOfCurr, CurrBody
<1>2. K = [n \in Ledger |-> K[n]]
  BY Zenon DEF CurrSize
<1>3. K = [n \in Ledger |-> CurrBody(i, A, K, n)]
  <2>1. \A n \in Ledger : K[n] = CurrBody(i, A, K, n)
    BY CurrSolves, Zenon
  <2> HIDE DEF K, A
  <2>2. QED
    BY <1>2, <2>1, Zenon
<1> HIDE DEF K, A
<1>4. sizeOfCurr(i, A) = [n \in Ledger |-> CurrBody(i, A, sizeOfCurr(i, A), n)]
  BY <1>1, <1>3, Zenon
<1>5. QED
  BY <1>4, CurrUnique, Zenon DEF A

\* The sizes of the snaps.
LEMMA SnapSizes ==
    ASSUME NEW i \in Level
    PROVE  sizeOfSnap(i, AboveSize(i), CurrSize(i)) = SnapSize(i)
<1> DEFINE V(n) == IF i = LastLevel THEN 0
                   ELSE IF mask(n, levelSize[i]) # 0 THEN levelHalf(i)
                   ELSE n - (AboveSize(i)[n] + CurrSize(i)[n])
<1>1. ASSUME NEW n \in Ledger PROVE V(n) = Cut(n, i) - Below(n, i)
  <2> DEFINE h == levelHalf(i)
             l == lag(i)
             m == mask(n, h)
  <2>1. h \in Nat \ {0} /\ l \in Nat \ {0} /\ levelSize[i] = 2 * h
    BY Halves, Zenon
  <2>2. n \in Nat /\ n # 0
    BY Zenon DEF Ledger
  <2>3. AboveSize(i)[n] = n - Newest(n, i) /\ CurrSize(i)[n] = Newest(n, i) - Cut(n, i)
    BY Zenon DEF AboveSize, CurrSize
  <2>4. /\ Newest(n, i) \in Nat /\ Cut(n, i) \in Nat /\ Below(n, i) \in Nat
        /\ Below(n, i) <= Cut(n, i) /\ Cut(n, i) <= Newest(n, i)
    BY <2>2, InOrder, Zenon
  <2>5. CASE i = LastLevel
    <3>1. V(n) = 0 /\ Cut(n, i) = 0 /\ Below(n, i) = 0
      BY <2>5, Zenon DEF Cut, Below
    <3>2. QED
      BY <3>1, SMT
  <2>6. CASE i # LastLevel
    <3>1. V(n) = IF mask(n, 2 * h) # 0 THEN h ELSE n - ((n - Newest(n, i)) + (Newest(n, i) - Cut(n, i)))
      BY <2>1, <2>3, <2>6, Zenon
    <3>2. Cut(n, i) = IF m = 0 THEN 0 ELSE m - l
      BY <2>6, Zenon DEF Cut
    <3>3. Below(n, i) = IF m >= 2 * h THEN m - h - l ELSE 0
      BY <2>6, Levels, Zenon DEF Below, Newest
    <3>4. m \in Nat /\ m <= n /\ n < m + h /\ Multiple(m, h)
      BY <2>1, <2>2, MaskRight, Zenon
    <3>5. 2 * h \in Nat \ {0}
      BY <2>1, SMT
    <3>6. mask(n, 2 * h) = 0 <=> n < 2 * h
      BY <2>2, <3>5, MaskQuarter, Zenon
    <3>7. Multiple(2 * h, h) /\ (m < 2 * h => m + h <= 2 * h)
      BY <2>1, <3>4, Multiples, MultiplesApart, Zenon
    <3> HIDE DEF V, m, h, l
    <3>8. QED
      BY <2>1, <2>2, <2>4, <3>1, <3>2, <3>3, <3>4, <3>6, <3>7, SMT
  <2>7. QED
    BY <2>5, <2>6, Zenon
<1>2. sizeOfSnap(i, AboveSize(i), CurrSize(i)) = [n \in Ledger |-> V(n)]
  BY Zenon DEF sizeOfSnap
<1> HIDE DEF V
<1>3. QED
  BY <1>1, <1>2, Zenon DEF SnapSize

\* One unfolding of SizeOf.
SizesAfter(prev, level) ==
    LET above == [ledger \in Ledger |->
                    IF level = 0 THEN 0
                    ELSE prev.above[ledger] + prev.curr[ledger] + prev.snap[ledger]]
        curr == sizeOfCurr(level, above)
    IN [above |-> above, curr |-> curr, snap |-> sizeOfSnap(level, above, curr)]

Sizes(i) == [above |-> AboveSize(i), curr |-> CurrSize(i), snap |-> SnapSize(i)]

\* Its parts.
LEMMA SizesParts ==
    \A i : Sizes(i).above = AboveSize(i) /\ Sizes(i).curr = CurrSize(i) /\ Sizes(i).snap = SnapSize(i)
BY Zenon DEF Sizes

\* The closed form satisfies it.
LEMMA SizesSolve ==
    ASSUME NEW i \in Level, NEW prev, i # 0 => prev = Sizes(i - 1)
    PROVE  SizesAfter(prev, i) = Sizes(i)
<1> DEFINE V(n) == IF i = 0 THEN 0 ELSE prev.above[n] + prev.curr[n] + prev.snap[n]
           A == [n \in Ledger |-> V(n)]
<1>1. ASSUME NEW n \in Ledger PROVE V(n) = n - Newest(n, i)
  <2>1. n \in Nat
    BY Zenon DEF Ledger
  <2>2. CASE i = 0
    <3>1. V(n) = 0 /\ Newest(n, i) = n
      BY <2>2, Zenon DEF Newest
    <3>2. QED
      BY <2>1, <3>1, SMT
  <2>3. CASE i # 0
    <3>1. i - 1 \in Level /\ i - 1 # LastLevel /\ (i - 1) + 1 = i
      BY <2>3, Levels, Zenon
    <3>2. prev.above = AboveSize(i - 1) /\ prev.curr = CurrSize(i - 1) /\ prev.snap = SnapSize(i - 1)
      BY <2>3, SizesParts, Zenon
    <3>3. V(n) = AboveSize(i - 1)[n] + CurrSize(i - 1)[n] + SnapSize(i - 1)[n]
      BY <2>3, <3>2, Zenon
    <3>4. /\ AboveSize(i - 1)[n] = n - Newest(n, i - 1)
          /\ CurrSize(i - 1)[n] = Newest(n, i - 1) - Cut(n, i - 1)
          /\ SnapSize(i - 1)[n] = Cut(n, i - 1) - Newest(n, i)
      BY <3>1, Zenon DEF AboveSize, CurrSize, SnapSize, Below
    <3>5. Newest(n, i - 1) \in Nat /\ Cut(n, i - 1) \in Nat /\ Newest(n, i) \in Nat
      BY <2>1, <3>1, InOrder, Zenon
    <3> HIDE DEF V
    <3>6. QED
      BY <2>1, <3>3, <3>4, <3>5, SMT
  <2>4. QED
    BY <2>2, <2>3, Zenon
<1>2. SizesAfter(prev, i) =
        [above |-> A, curr |-> sizeOfCurr(i, A), snap |-> sizeOfSnap(i, A, sizeOfCurr(i, A))]
  BY Zenon DEF SizesAfter
<1> HIDE DEF V
<1>3. A = AboveSize(i)
  BY <1>1, Zenon DEF AboveSize
<1> HIDE DEF A
<1>4. QED
  BY <1>2, <1>3, CurrSizes, SnapSizes, Zenon DEF Sizes

\* And so SizeOf is the closed form.
LEMMA SizeOfIs == \A i \in Level : SizeOf[i] = Sizes(i)
<1>1. SizeOf = CHOOSE f : f = [i \in Level |-> SizesAfter(f[i - 1], i)]
  BY Zenon DEF SizeOf, SizesAfter
<1> DEFINE W == [i \in Level |-> Sizes(i)]
<1>2. W = [i \in Level |-> SizesAfter(W[i - 1], i)]
  <2>1. ASSUME NEW i \in Level PROVE Sizes(i) = SizesAfter(W[i - 1], i)
    <3>1. i # 0 => W[i - 1] = Sizes(i - 1)
      BY Levels, Zenon
    <3> HIDE DEF W
    <3>2. QED
      BY <3>1, SizesSolve, Zenon
  <2>2. QED
    BY <2>1, Zenon
<1> HIDE DEF W
<1>3. SizeOf = [i \in Level |-> SizesAfter(SizeOf[i - 1], i)]
  BY <1>1, <1>2, Zenon
<1>4. \A i \in Level : SizeOf[i] = SizesAfter(SizeOf[i - 1], i)
  BY <1>3, Zenon
<1> DEFINE Bad == {i \in Level : SizeOf[i] # Sizes(i)}
<1>5. ASSUME Bad # {} PROVE FALSE
  <2>1. PICK i \in Bad : \A k \in Bad : i <= k
    <3>1. Bad \subseteq Nat
      BY Levels, Zenon
    <3> HIDE DEF Bad
    <3>2. QED
      BY <1>5, <3>1, Oldest, Zenon
  <2>2. i \in Level /\ SizeOf[i] # Sizes(i)
    BY <2>1, Zenon
  <2>3. i # 0 => SizeOf[i - 1] = Sizes(i - 1)
    <3>1. i # 0 => i - 1 \in Level /\ ~ (i <= i - 1)
      BY <2>2, Levels, SMT
    <3>2. QED
      BY <2>1, <3>1, Zenon
  <2>4. QED
    BY <1>4, <2>2, <2>3, SizesSolve, Zenon
<1>6. QED
  BY <1>5, Zenon

CurrAt(n, i) == (Cut(n, i) + 1) .. Newest(n, i)
SnapAt(n, i) == (Below(n, i) + 1) .. Cut(n, i)

\* The list that every node has after a ledger, in closed form.
LEMMA ListAtIs ==
    ASSUME NEW n \in Ledger
    PROVE  ListAt(n) = [i \in Level |-> [curr |-> CurrAt(n, i), snap |-> SnapAt(n, i),
                                         next |-> FutureClear]]
<1>1. ASSUME NEW i \in Level
      PROVE  /\ Ledgers(n - SizeOf[i].above[n], SizeOf[i].curr[n]) = CurrAt(n, i)
             /\ Ledgers(n - SizeOf[i].above[n] - SizeOf[i].curr[n], SizeOf[i].snap[n]) = SnapAt(n, i)
  <2>1. SizeOf[i].above = AboveSize(i) /\ SizeOf[i].curr = CurrSize(i) /\ SizeOf[i].snap = SnapSize(i)
    BY SizeOfIs, SizesParts, Zenon
  <2>2. /\ SizeOf[i].above[n] = n - Newest(n, i)
        /\ SizeOf[i].curr[n] = Newest(n, i) - Cut(n, i)
        /\ SizeOf[i].snap[n] = Cut(n, i) - Below(n, i)
    BY <2>1, Zenon DEF AboveSize, CurrSize, SnapSize
  <2>3. n \in Nat
    BY Zenon DEF Ledger
  <2>4. Newest(n, i) \in Nat /\ Cut(n, i) \in Nat /\ Below(n, i) \in Nat
    BY <2>3, InOrder, Zenon
  <2> DEFINE a == SizeOf[i].above[n]
             c == SizeOf[i].curr[n]
             s == SizeOf[i].snap[n]
  <2>5. a = n - Newest(n, i) /\ c = Newest(n, i) - Cut(n, i) /\ s = Cut(n, i) - Below(n, i)
    BY <2>2, Zenon
  <2> HIDE DEF a, c, s
  <2>6. /\ n - a = Newest(n, i) /\ (n - a) - c + 1 = Cut(n, i) + 1
        /\ n - a - c = Cut(n, i) /\ (n - a - c) - s + 1 = Below(n, i) + 1
    BY <2>3, <2>4, <2>5, SMT
  <2>7. Ledgers(n - a, c) = CurrAt(n, i) /\ Ledgers(n - a - c, s) = SnapAt(n, i)
    BY <2>6, Zenon DEF Ledgers, CurrAt, SnapAt
  <2>8. QED
    BY <2>7, Zenon DEF a, c, s
<1>2. QED
  BY <1>1, Zenon DEF ListAt

-----------------------------------------------------------------------------
(* From one ledger to the next.                                            *)

\* A snap depends on the level's last spill alone, and the last level has none.
LEMMA SnapSame ==
    ASSUME NEW i \in Level, NEW n, NEW m,
           i # LastLevel => mask(n, levelHalf(i)) = mask(m, levelHalf(i))
    PROVE  SnapAt(n, i) = SnapAt(m, i)
<1>1. CASE i = LastLevel
  BY <1>1, Zenon DEF SnapAt, Below, Cut
<1>2. CASE i # LastLevel
  BY <1>2, Levels, Zenon DEF SnapAt, Below, Cut, Newest
<1>3. QED
  BY <1>1, <1>2, Zenon

\* A curr below the first depends on the last spills of the level and the one above.
LEMMA CurrSame ==
    ASSUME NEW i \in Level, i # 0, NEW n, NEW m,
           mask(n, levelHalf(i)) = mask(m, levelHalf(i)),
           mask(n, levelHalf(i - 1)) = mask(m, levelHalf(i - 1))
    PROVE  CurrAt(n, i) = CurrAt(m, i)
BY Zenon DEF CurrAt, Cut, Newest

\* The first multiple after 0.
LEMMA MaskFirst ==
    ASSUME NEW n \in Nat, NEW h \in Nat \ {0}
    PROVE  mask(n, h) # 0 => mask(n, h) >= h
<1> DEFINE m == mask(n, h)
<1>1. m \in Nat /\ Multiple(m, h)
  BY MaskRight, Zenon
<1>2. Multiple(0, h)
  BY Multiples, Zenon
<1> HIDE DEF m
<1>3. 0 < m => 0 + h <= m
  BY <1>1, <1>2, MultiplesApart, Zenon
<1>4. m # 0 => m >= h
  BY <1>1, <1>3, SMT
<1>5. QED
  BY <1>4, Zenon DEF m

\* When a level spills, its curr becomes its snap.
LEMMA CurrToSnap ==
    ASSUME NEW i \in Level, i # LastLevel, NEW n \in Ledger, mask(n, levelHalf(i)) = n
    PROVE  CurrAt(n - 1, i) = SnapAt(n, i)
<1> DEFINE h == levelHalf(i)
           l == lag(i)
           k == n - 1
<1>1. h \in Nat \ {0} /\ l \in Nat \ {0} /\ 3 * l = 2 * h - 1
  BY Halves, Zenon
<1>2. n \in Nat \ {0} /\ n \in Nat /\ k \in Nat
  BY SMT DEF Ledger
<1>3. mask(k, h) = n - h /\ n - h \in Nat
  BY <1>1, <1>2, MaskNext, Zenon
<1>4. Cut(n, i) = n - l /\ Below(n, i) = IF n >= 2 * h THEN n - h - l ELSE 0
  <2>1. n # 0
    BY <1>2, Zenon
  <2>2. QED
    BY <2>1, Levels, Zenon DEF Cut, Below, Newest
<1>5. Cut(k, i) = IF n - h = 0 THEN 0 ELSE (n - h) - l
  BY <1>3, Zenon DEF Cut
<1>6. n - h = 0 \/ n >= 2 * h
  <2>1. mask(k, h) # 0 => mask(k, h) >= h
    BY <1>1, <1>2, MaskFirst, Zenon
  <2>2. n - h # 0 => n - h >= h
    BY <1>3, <2>1, Zenon
  <2> HIDE DEF h
  <2>3. QED
    BY <1>1, <1>2, <1>3, <2>2, SMT
<1>7. Newest(k, i) = n - l
  <2>1. CASE i = 0
    <3>1. Newest(k, i) = k /\ l = 1
      BY <2>1, Halves, Zenon DEF Newest
    <3>2. QED
      BY <3>1, Zenon
  <2>2. CASE i # 0
    <3>1. PICK g \in Nat \ {0}, d \in Nat \ {0} :
              /\ levelHalf(i) = 4 * g /\ lag(i) = d + 2 * g
              /\ Newest(k, i) = IF mask(k, g) >= 2 * g THEN mask(k, g) - g - d ELSE 0
      BY <2>2, Deeper, Zenon
    <3>2. mask(n, 4 * g) = n
      BY <3>1, Zenon
    <3>3. mask(n, g) = n
      BY <1>2, <3>1, <3>2, MaskQuarter, Zenon
    <3>4. mask(k, g) = n - g
      BY <1>2, <3>1, <3>3, MaskNext, Zenon
    <3>5. n - 4 * g \in Nat
      BY <1>3, <3>1, Zenon
    <3>6. n - g >= 2 * g
      BY <1>2, <3>1, <3>5, SMT
    <3>7. Newest(k, i) = (n - g) - g - d
      BY <3>1, <3>4, <3>6, Zenon
    <3>8. l = d + 2 * g
      BY <3>1, Zenon
    <3> HIDE DEF k, l
    <3>9. QED
      BY <1>2, <3>1, <3>7, <3>8, SMT
  <2>3. QED
    BY <2>1, <2>2, Zenon
<1> HIDE DEF h, l
<1>8. Cut(k, i) = Below(n, i)
  <2> HIDE DEF k
  <2>1. QED
    BY <1>1, <1>2, <1>3, <1>4, <1>5, <1>6, SMT
<1>9. QED
  BY <1>4, <1>7, <1>8, Zenon DEF CurrAt, SnapAt

\* The merge of a spill, which leaves out a curr that is snapped before it is committed,
\* makes the curr of the next spill.
LEMMA MergeRight ==
    ASSUME NEW i \in Level, i # 0, NEW m \in Ledger, mask(m, levelHalf(i - 1)) = m
    PROVE  merge(IF shouldMergeWithEmptyCurr(m, i) THEN {} ELSE CurrAt(m, i), SnapAt(m, i - 1))
             = CurrAt(m + levelHalf(i - 1), i)
<1>1. PICK g \in Nat \ {0}, d \in Nat \ {0} :
              /\ g = levelHalf(i - 1) /\ d = lag(i - 1) /\ 3 * d = 2 * g - 1
              /\ levelHalf(i) = 4 * g /\ lag(i) = d + 2 * g
              /\ \A n : Newest(n, i) = IF mask(n, g) >= 2 * g THEN mask(n, g) - g - d ELSE 0
              /\ \A n : Cut(n, i) = IF i = LastLevel \/ mask(n, 4 * g) = 0 THEN 0
                                    ELSE mask(n, 4 * g) - (d + 2 * g)
  BY Deeper, Zenon
<1>2. m \in Nat /\ m # 0 /\ m + g \in Nat
  BY <1>1, SMT DEF Ledger
<1>3. mask(m, g) = m
  BY <1>1, Zenon
<1>4. i - 1 \in Level /\ i - 1 # LastLevel /\ (i - 1) + 1 = i
  BY Levels, Zenon
<1>5. shouldMergeWithEmptyCurr(m, i) <=> i # LastLevel /\ mask(m + g, 4 * g) = m + g
  <2>1. shouldMergeWithEmptyCurr(m, i) <=> levelShouldSpill(m + g, i)
    BY <1>1, <1>3, Zenon DEF shouldMergeWithEmptyCurr
  <2>2. levelShouldSpill(m + g, i) <=> i # LastLevel /\ mask(m + g, levelHalf(i)) = m + g
    BY <1>2, Spills, Zenon
  <2>3. QED
    BY <1>1, <2>1, <2>2, Zenon
<1>6. /\ mask(m + g, g) = m + g
      /\ mask(m + g, 4 * g) # m + g => mask(m + g, 4 * g) = mask(m, 4 * g)
      /\ mask(m + g, 4 * g) = m + g /\ m + g # 0 => m >= 3 * g
  BY <1>1, <1>2, <1>3, MaskAfter, Zenon
<1> DEFINE N == Newest(m, i)
           C == Cut(m, i)
           D == Cut(m + g, i)
<1>7. m >= g
  BY <1>1, <1>2, <1>3, MaskFirst, Zenon
<1>8. SnapAt(m, i - 1) = (N + 1) .. (m - d)
  <2>1. Below(m, i - 1) = N
    BY <1>4, Zenon DEF Below
  <2>2. Cut(m, i - 1) = m - d
    BY <1>1, <1>2, <1>3, <1>4, Zenon DEF Cut
  <2>3. QED
    BY <2>1, <2>2, Zenon DEF SnapAt
<1>9. CurrAt(m + g, i) = (D + 1) .. (m - d)
  <2>1. m + g >= 2 * g /\ (m + g) - g - d = m - d
    BY <1>1, <1>2, <1>7, SMT
  <2>2. Newest(m + g, i) = m - d
    BY <1>1, <1>6, <2>1, Zenon
  <2>3. QED
    BY <2>2, Zenon DEF CurrAt
<1>10. N = (IF m >= 2 * g THEN m - g - d ELSE 0) /\ N \in Nat /\ C \in Nat /\ C <= N
  <2>1. N \in Nat /\ C \in Nat /\ C <= N
    BY <1>2, InOrder, Zenon
  <2>2. N = IF m >= 2 * g THEN m - g - d ELSE 0
    BY <1>1, <1>3, Zenon
  <2>3. QED
    BY <2>1, <2>2, Zenon
<1>11. CurrAt(m, i) = (C + 1) .. N
  BY Zenon DEF CurrAt
<1>12. CASE shouldMergeWithEmptyCurr(m, i)
  <2>1. D = (m + g) - (d + 2 * g)
    <3>1. m + g # 0
      BY <1>1, <1>2, SMT
    <3>2. QED
      BY <1>1, <1>5, <1>12, <3>1, Zenon
  <2>2. m >= 3 * g
    <3>1. m + g # 0
      BY <1>1, <1>2, SMT
    <3>2. QED
      BY <1>5, <1>6, <1>12, <3>1, Zenon
  <2> HIDE DEF N, D
  <2>3. D = N
    BY <1>1, <1>2, <1>10, <2>1, <2>2, SMT
  <2>4. QED
    BY <1>1, <1>8, <1>9, <1>12, <2>3, Zenon DEF merge
<1>13. CASE ~ shouldMergeWithEmptyCurr(m, i)
  <2>1. D = C
    BY <1>1, <1>5, <1>6, <1>13, Zenon
  <2>2. N <= m - d
    <3> HIDE DEF N, C, D
    <3>1. QED
      BY <1>1, <1>2, <1>7, <1>10, SMT
  <2> HIDE DEF N, C, D
  <2>3. ((C + 1) .. N) \cup ((N + 1) .. (m - d)) = (C + 1) .. (m - d)
    BY <1>1, <1>2, <1>10, <2>2, SMT
  <2>4. QED
    BY <1>1, <1>8, <1>9, <1>11, <1>13, <2>1, <2>3, Zenon DEF merge
<1>14. QED
  BY <1>12, <1>13, Zenon

-----------------------------------------------------------------------------
(* Lists that hold what they should.                                       *)

IsList(l) ==
    /\ DOMAIN l = Level
    /\ \A i \in Level : DOMAIN l[i] = {"curr", "snap", "next"}

\* What the parts of a future are.
LEMMA Futures ==
    /\ \A c, s : LET f == FutureInputs(c, s)
                IN  /\ f.curr = c /\ f.snap = s /\ f.output = {}
                    /\ isMerging(f) /\ MergeKey(f) = <<c, s>>
    /\ \A b : LET f == FutureOutput(b)
             IN  f.curr = {} /\ f.snap = {} /\ f.output = b /\ ~ isMerging(f)
    /\ LET f == FutureClear
       IN  f.curr = {} /\ f.snap = {} /\ f.output = {} /\ ~ isMerging(f)
BY Zenon DEF FutureInputs, FutureOutput, FutureClear, isMerging, MergeKey

\* The future of level i, after ledger n, is the curr of the next spill into it.
NextRight(next, n, i) ==
    LET h == levelHalf(i - 1)
        m == mask(n, h)
    IN  /\ m = 0 => next = FutureClear
        /\ m # 0 => next # FutureClear /\ resolve(next) = CurrAt(m + h, i)

LevelsRight(l, n) ==
    \A i \in Level : l[i].curr = CurrAt(n, i) /\ l[i].snap = SnapAt(n, i)

ListRight(l, n) ==
    /\ LevelsRight(l, n)
    /\ \A i \in Level : i # 0 => NextRight(l[i].next, n, i)

\* Which futures are clear, and what the others resolve to.
LEMMA Resolves ==
    /\ \A c, s : FutureInputs(c, s) # FutureClear /\ resolve(FutureInputs(c, s)) = merge(c, s)
    /\ \A b : FutureOutput(b) # FutureClear /\ resolve(FutureOutput(b)) = b
<1>1. ASSUME NEW c, NEW s
      PROVE  FutureInputs(c, s) # FutureClear /\ resolve(FutureInputs(c, s)) = merge(c, s)
  <2>1. isMerging(FutureInputs(c, s)) /\ MergeKey(FutureInputs(c, s)) = <<c, s>>
    BY Futures, Zenon
  <2>2. OutputOf(<<c, s>>) = merge(c, s)
    BY Zenon DEF OutputOf
  <2>3. ~ isMerging(FutureClear)
    BY Futures, Zenon
  <2>4. QED
    BY <2>1, <2>2, <2>3, Zenon DEF resolve
<1>2. ASSUME NEW b PROVE FutureOutput(b) # FutureClear /\ resolve(FutureOutput(b)) = b
  <2>1. ~ isMerging(FutureOutput(b)) /\ FutureOutput(b).output = b
    BY Futures, Zenon
  <2>2. FutureOutput(b).state = "output" /\ FutureClear.state = "clear"
    BY Zenon DEF FutureOutput, FutureClear
  <2>3. "output" # "clear"
    BY SMT
  <2>4. QED
    BY <2>1, <2>2, <2>3, Zenon DEF resolve
<1>3. QED
  BY <1>1, <1>2, Zenon

\* When level i takes a spill.
LEMMA Commits ==
    ASSUME NEW n \in Nat, NEW i \in Level
    PROVE  commits(n, i) <=> i # 0 /\ mask(n, levelHalf(i - 1)) = n
BY Levels, Spills, Zenon DEF commits

\* The first level takes the new ledger.
LEMMA BatchCurrFirst ==
    ASSUME NEW l, NEW n \in Ledger, LevelsRight(l, n - 1)
    PROVE  addBatch(l, n)[0].curr = CurrAt(n, 0)
<1>1. levelHalf(0) = 2 /\ lag(0) = 1 /\ 0 # LastLevel /\ 0 \in Level
  BY Levels, Halves, Zenon
<1>2. n \in Nat \ {0} /\ n \in Nat /\ n - 1 \in Nat /\ 2 \in Nat \ {0}
  BY SMT DEF Ledger
<1>3. addBatch(l, n)[0].curr = (IF levelShouldSpill(n, 0) THEN {} ELSE l[0].curr) \cup {n}
  BY <1>1, Zenon DEF addBatch, merge
<1>4. levelShouldSpill(n, 0) <=> mask(n, 2) = n
  BY <1>1, <1>2, Spills, Zenon
<1>5. \A k : CurrAt(k, 0) = (Cut(k, 0) + 1) .. k
  BY Zenon DEF CurrAt, Newest
<1>6. \A k : Cut(k, 0) = IF mask(k, 2) = 0 THEN 0 ELSE mask(k, 2) - 1
  BY <1>1, Zenon DEF Cut
<1>7. CASE mask(n, 2) = n
  <2>1. Cut(n, 0) = n - 1
    BY <1>2, <1>6, <1>7, Zenon
  <2>2. ((n - 1) + 1) .. n = {n}
    BY <1>2, SMT
  <2>3. QED
    BY <1>3, <1>4, <1>5, <1>7, <2>1, <2>2, Zenon
<1>8. CASE mask(n, 2) # n
  <2>1. mask(n - 1, 2) = mask(n, 2)
    BY <1>2, <1>8, MaskNext, Zenon
  <2> DEFINE c == Cut(n, 0)
  <2>2. Cut(n - 1, 0) = c
    BY <1>6, <2>1, Zenon
  <2>3. c \in Nat /\ Cut(n - 1, 0) <= Newest(n - 1, 0)
    BY <1>1, <1>2, InOrder, Zenon
  <2>4. c <= n - 1
    BY <2>2, <2>3, Zenon DEF Newest
  <2>5. l[0].curr = (c + 1) .. (n - 1)
    BY <1>1, <1>5, <2>2, Zenon DEF LevelsRight
  <2> HIDE DEF c
  <2>6. ((c + 1) .. (n - 1)) \cup {n} = (c + 1) .. n
    BY <1>2, <2>3, <2>4, SMT
  <2>7. QED
    BY <1>3, <1>4, <1>5, <1>8, <2>5, <2>6, Zenon DEF c
<1>9. QED
  BY <1>7, <1>8, Zenon

\* Before the first multiple.
LEMMA MaskSmall == \A h \in Nat \ {0} : \A n \in Nat : n < h => mask(n, h) = 0
BY MaskQuarter, Zenon

\* The bucket a lower level has after its commit.
BatchCurr(l, n, i) ==
    IF commits(n, i) /\ l[i].next # FutureClear THEN resolve(l[i].next)
    ELSE IF levelShouldSpill(n, i) THEN {} ELSE l[i].curr

\* It is the right one.
LEMMA BatchCurrBelow ==
    ASSUME NEW l, NEW n \in Ledger, ListRight(l, n - 1), NEW i \in Level, i # 0
    PROVE  BatchCurr(l, n, i) = CurrAt(n, i)
<1>1. PICK g \in Nat \ {0}, d \in Nat \ {0} :
              /\ g = levelHalf(i - 1) /\ levelHalf(i) = 4 * g
              /\ \A k : Newest(k, i) = IF mask(k, g) >= 2 * g THEN mask(k, g) - g - d ELSE 0
              /\ \A k : Cut(k, i) = IF i = LastLevel \/ mask(k, 4 * g) = 0 THEN 0
                                    ELSE mask(k, 4 * g) - (d + 2 * g)
  BY Deeper, Zenon
<1>2. n \in Nat \ {0} /\ n \in Nat /\ n - 1 \in Nat /\ 4 * g \in Nat \ {0}
  BY <1>1, SMT DEF Ledger
<1>3. commits(n, i) <=> mask(n, g) = n
  BY <1>1, <1>2, Commits, Zenon
<1>4. levelShouldSpill(n, i) <=> i # LastLevel /\ mask(n, 4 * g) = n
  BY <1>1, <1>2, Spills, Zenon
<1>5. l[i].curr = CurrAt(n - 1, i)
  BY Zenon DEF ListRight, LevelsRight
<1>6. CASE mask(n, g) # n
  <2>1. mask(n, 4 * g) # n
    BY <1>1, <1>2, <1>6, MaskQuarter, Zenon
  <2>2. mask(n - 1, g) = mask(n, g) /\ mask(n - 1, 4 * g) = mask(n, 4 * g)
    BY <1>1, <1>2, <1>6, <2>1, MaskNext, Zenon
  <2>3. BatchCurr(l, n, i) = l[i].curr
    BY <1>3, <1>4, <1>6, <2>1, Zenon DEF BatchCurr
  <2>4. CurrAt(n - 1, i) = CurrAt(n, i)
    BY <1>1, <2>2, CurrSame, Zenon
  <2>5. QED
    BY <1>5, <2>3, <2>4, Zenon
<1>7. CASE mask(n, g) = n
  <2>1. mask(n - 1, g) = n - g /\ n - g \in Nat
    BY <1>1, <1>2, <1>7, MaskNext, Zenon
  <2>2. /\ n - g = 0 => l[i].next = FutureClear
        /\ n - g # 0 => l[i].next # FutureClear /\ resolve(l[i].next) = CurrAt((n - g) + g, i)
    BY <1>1, <2>1, Zenon DEF ListRight, NextRight
  <2>3. (n - g) + g = n
    BY <1>1, <1>2, SMT
  <2>4. CASE n - g # 0
    BY <1>3, <1>7, <2>2, <2>3, <2>4, Zenon DEF BatchCurr
  <2>5. CASE n - g = 0
    <3>0. n < 4 * g /\ n - 1 < 4 * g /\ n - 1 < g
      BY <1>1, <1>2, <2>5, SMT
    <3>1. ~ (0 >= 2 * g) /\ ~ (n >= 2 * g)
      BY <1>1, <1>2, <2>5, SMT
    <3>2. mask(n, 4 * g) = 0 /\ mask(n - 1, 4 * g) = 0 /\ mask(n - 1, g) = 0
      BY <1>1, <1>2, <3>0, MaskSmall, Zenon
    <3>3. BatchCurr(l, n, i) = l[i].curr
      BY <1>2, <1>4, <2>2, <2>5, <3>2, Zenon DEF BatchCurr
    <3>4. Cut(n, i) = 0 /\ Cut(n - 1, i) = 0 /\ Newest(n, i) = 0 /\ Newest(n - 1, i) = 0
      BY <1>1, <1>7, <3>1, <3>2, Zenon
    <3>5. QED
      BY <1>5, <3>3, <3>4, Zenon DEF CurrAt
  <2>6. QED
    BY <2>4, <2>5, Zenon
<1>8. QED
  BY <1>6, <1>7, Zenon

\* Adding the batch of the next ledger makes the right list of the right list.
LEMMA AddBatchRight ==
    ASSUME NEW l, NEW n \in Ledger, ListRight(l, n - 1)
    PROVE  ListRight(addBatch(l, n), n)
<1> DEFINE r == addBatch(l, n)
<1>0. n \in Nat /\ n - 1 \in Nat /\ n # 0 /\ n \in Nat \ {0}
  BY SMT DEF Ledger
<1>1. ASSUME NEW i \in Level
      PROVE  /\ i # 0 => r[i].curr = BatchCurr(l, n, i)
             /\ r[i].snap = IF levelShouldSpill(n, i) THEN l[i].curr ELSE l[i].snap
             /\ r[i].next = IF commits(n, i) THEN prepare(n, i, BatchCurr(l, n, i), l[i - 1].curr)
                                             ELSE l[i].next
  BY Zenon DEF addBatch, BatchCurr
<1>2. r[0].curr = CurrAt(n, 0)
  BY BatchCurrFirst, Zenon DEF ListRight
<1> HIDE DEF r
<1>3. ASSUME NEW i \in Level PROVE r[i].curr = CurrAt(n, i)
  BY <1>1, <1>2, BatchCurrBelow, Zenon
<1>4. ASSUME NEW i \in Level PROVE r[i].snap = SnapAt(n, i)
  <2>1. l[i].curr = CurrAt(n - 1, i) /\ l[i].snap = SnapAt(n - 1, i)
    BY Zenon DEF ListRight, LevelsRight
  <2>2. levelShouldSpill(n, i) <=> i # LastLevel /\ mask(n, levelHalf(i)) = n
    BY <1>0, Spills, Zenon
  <2>3. CASE levelShouldSpill(n, i)
    BY <1>1, <2>1, <2>2, <2>3, CurrToSnap, Zenon
  <2>4. CASE ~ levelShouldSpill(n, i)
    <3>1. levelHalf(i) \in Nat \ {0}
      BY Halves, Zenon
    <3>2. i # LastLevel => mask(n, levelHalf(i)) = mask(n - 1, levelHalf(i))
      BY <1>0, <2>2, <2>4, <3>1, MaskNext, Zenon
    <3>3. SnapAt(n, i) = SnapAt(n - 1, i)
      BY <3>2, SnapSame, Zenon
    <3>4. QED
      BY <1>1, <2>1, <2>4, <3>3, Zenon
  <2>5. QED
    BY <2>3, <2>4, Zenon
<1>5. ASSUME NEW i \in Level, i # 0 PROVE NextRight(r[i].next, n, i)
  <2> DEFINE h == levelHalf(i - 1)
  <2>1. i - 1 \in Level /\ i - 1 # LastLevel /\ h \in Nat \ {0}
    BY <1>5, Levels, Halves, Zenon
  <2>2. commits(n, i) <=> mask(n, h) = n
    BY <1>0, <1>5, Commits, Zenon
  <2>3. CASE commits(n, i)
    <3> DEFINE e == IF shouldMergeWithEmptyCurr(n, i) THEN {} ELSE CurrAt(n, i)
    <3>1. l[i - 1].curr = SnapAt(n, i - 1)
      BY <2>1, <2>2, <2>3, CurrToSnap, Zenon DEF ListRight, LevelsRight
    <3>2. BatchCurr(l, n, i) = CurrAt(n, i)
      BY <1>5, BatchCurrBelow, Zenon
    <3>3. r[i].next = FutureInputs(e, SnapAt(n, i - 1))
      BY <1>1, <2>3, <3>1, <3>2, Zenon DEF prepare
    <3>4. merge(e, SnapAt(n, i - 1)) = CurrAt(n + h, i)
      BY <1>5, <2>2, <2>3, MergeRight, Zenon
    <3> HIDE DEF e
    <3>5. r[i].next # FutureClear /\ resolve(r[i].next) = CurrAt(n + h, i)
      BY <3>3, <3>4, Resolves, Zenon
    <3>6. QED
      BY <1>0, <2>2, <2>3, <3>5, Zenon DEF NextRight
  <2>4. CASE ~ commits(n, i)
    <3>1. mask(n - 1, h) = mask(n, h)
      BY <1>0, <2>1, <2>2, <2>4, MaskNext, Zenon
    <3>2. NextRight(l[i].next, n - 1, i) /\ r[i].next = l[i].next
      BY <1>1, <1>5, <2>4, Zenon DEF ListRight
    <3>3. QED
      BY <3>1, <3>2, Zenon DEF NextRight
  <2>5. QED
    BY <2>3, <2>4, Zenon
<1>6. QED
  BY <1>3, <1>4, <1>5, Zenon DEF ListRight, LevelsRight, r

\* Lower levels are larger.
LEMMA HalvesGrow ==
    ASSUME NEW i \in Level, NEW j \in Level, j <= i
    PROVE  levelHalf(j) <= levelHalf(i)
<1> DEFINE Bad == {k \in Level : j <= k /\ ~ (levelHalf(j) <= levelHalf(k))}
<1>1. ASSUME Bad # {} PROVE FALSE
  <2>1. PICK k \in Bad : \A m \in Bad : k <= m
    <3>1. Bad \subseteq Nat
      BY Levels, Zenon
    <3> HIDE DEF Bad
    <3>2. QED
      BY <1>1, <3>1, Oldest, Zenon
  <2>2. k \in Level /\ j <= k /\ ~ (levelHalf(j) <= levelHalf(k))
    BY <2>1, Zenon
  <2>3. levelHalf(j) \in Nat /\ levelHalf(k) \in Nat /\ k \in Nat /\ j \in Nat
    BY <2>2, Halves, Levels, Zenon
  <2>4. j # k
    BY <2>2, <2>3, SMT
  <2>5. k # 0 /\ j <= k - 1 /\ ~ (k <= k - 1)
    BY <2>2, <2>3, <2>4, SMT
  <2>6. k - 1 \in Level /\ levelHalf(k) = 4 * levelHalf(k - 1) /\ levelHalf(k - 1) \in Nat
    BY <2>2, <2>5, Levels, Halves, Zenon
  <2>7. levelHalf(j) <= levelHalf(k - 1)
    BY <2>1, <2>5, <2>6, Zenon
  <2>8. QED
    BY <2>2, <2>3, <2>6, <2>7, SMT
<1>2. QED
  BY <1>1, Zenon

\* A level that has spilled has a snap.
LEMMA SnapFull ==
    ASSUME NEW i \in Level, i # LastLevel, NEW n \in Nat
    PROVE  SnapAt(n, i) = {} <=> mask(n, levelHalf(i)) = 0
<1> DEFINE h == levelHalf(i)
           l == lag(i)
           m == mask(n, h)
           b == Below(n, i)
           c == Cut(n, i)
<1>1. h \in Nat \ {0} /\ l \in Nat \ {0} /\ 3 * l = 2 * h - 1
  BY Halves, Zenon
<1>2. m \in Nat
  BY <1>1, MaskRight, Zenon
<1>3. m # 0 => m >= h
  BY <1>1, MaskFirst, Zenon
<1>4. c = (IF m = 0 THEN 0 ELSE m - l) /\ b = IF m >= 2 * h THEN m - h - l ELSE 0
  BY Levels, Zenon DEF Cut, Below, Newest
<1>5. b \in Nat /\ c \in Nat
  BY InOrder, Zenon
<1>6. SnapAt(n, i) = (b + 1) .. c
  BY Zenon DEF SnapAt
<1> HIDE DEF h, l, m, b, c
<1>7. m = 0 => c = 0
  BY <1>4, Zenon
<1>8. m # 0 => b < c
  BY <1>1, <1>2, <1>3, <1>4, <1>5, SMT
<1>9. (b + 1) .. c = {} <=> ~ (b < c)
  <2>1. b < c => b + 1 \in (b + 1) .. c
    BY <1>5, SMT
  <2>2. ~ (b < c) => (b + 1) .. c = {}
    BY <1>5, SMT
  <2>3. QED
    BY <2>1, <2>2, Zenon
<1>10. c = 0 => ~ (b < c)
  BY <1>5, SMT
<1>11. QED
  BY <1>6, <1>7, <1>8, <1>9, <1>10, Zenon DEF m, h

\* A saved list whose futures are right or clear.
Restartable(l, n) ==
    /\ LevelsRight(l, n)
    /\ \A i \in Level : i # 0 => l[i].next = FutureClear \/ NextRight(l[i].next, n, i)

\* A merge that is restarted makes what the one begun at the spill would have made.
LEMMA RestartNext ==
    ASSUME NEW l, NEW n \in Nat, Restartable(l, n), NEW i \in Level, i # 0,
           mask(n, levelHalf(i - 1)) # 0
    PROVE  NextRight(prepare(mask(n, levelHalf(i - 1)), i, l[i].curr, l[i - 1].snap), n, i)
<1> DEFINE h == levelHalf(i - 1)
           m == mask(n, h)
<1>1. i - 1 \in Level /\ i - 1 # LastLevel /\ h \in Nat \ {0} /\ levelHalf(i) = 4 * h
  BY Levels, Halves, Zenon
<1>2. m \in Nat
  BY <1>1, MaskRight, Zenon
<1>3. mask(m, h) = m /\ mask(m, 4 * h) = mask(n, 4 * h)
  BY <1>1, MaskQuarter, Zenon
<1>4. m \in Ledger
  BY <1>2, Zenon DEF Ledger
<1>5. CurrAt(n, i) = CurrAt(m, i)
  BY <1>1, <1>3, CurrSame, Zenon
<1>6. SnapAt(n, i - 1) = SnapAt(m, i - 1)
  BY <1>1, <1>3, SnapSame, Zenon
<1>7. l[i].curr = CurrAt(m, i) /\ l[i - 1].snap = SnapAt(m, i - 1)
  BY <1>1, <1>5, <1>6, Zenon DEF Restartable, LevelsRight
<1> DEFINE e == IF shouldMergeWithEmptyCurr(m, i) THEN {} ELSE CurrAt(m, i)
           f == prepare(m, i, l[i].curr, l[i - 1].snap)
<1>8. f = FutureInputs(e, SnapAt(m, i - 1))
  BY <1>7, Zenon DEF prepare
<1>9. merge(e, SnapAt(m, i - 1)) = CurrAt(m + h, i)
  BY <1>3, <1>4, MergeRight, Zenon
<1> HIDE DEF e, f
<1>10. f # FutureClear /\ resolve(f) = CurrAt(m + h, i)
  BY <1>8, <1>9, Resolves, Zenon
<1>11. NextRight(f, n, i)
  BY <1>10, Zenon DEF NextRight
<1>12. QED
  BY <1>11, Zenon DEF f

\* Restarting the merges of a saved list makes it right, also when its futures are gone.
LEMMA RestartRight ==
    ASSUME NEW l, NEW n \in Nat, IsList(l), Restartable(l, n)
    PROVE  ListRight(restartMerges(l, n), n)
<1> DEFINE untouched(j) == j > 0 /\ l[j].next = FutureClear /\ l[j - 1].snap = {}
           keeps(i) == i = 0 \/ l[i].next # FutureClear \/ \E j \in 1 .. i : untouched(j)
           p(i) == prepare(mask(n, levelHalf(i - 1)), i, l[i].curr, l[i - 1].snap)
           r == restartMerges(l, n)
<1>1. \A i \in Level : r[i] = IF keeps(i) THEN l[i] ELSE [l[i] EXCEPT !.next = p(i)]
  BY Zenon DEF restartMerges
<1>2. ASSUME NEW i \in Level
      PROVE  /\ r[i].curr = l[i].curr /\ r[i].snap = l[i].snap
             /\ r[i].next = IF keeps(i) THEN l[i].next ELSE p(i)
  <2> HIDE DEF r, keeps, p
  <2>1. CASE keeps(i)
    BY <1>1, <2>1, Zenon
  <2>2. CASE ~ keeps(i)
    BY <1>1, <2>2, Zenon DEF IsList
  <2>3. QED
    BY <2>1, <2>2, Zenon
<1> HIDE DEF r
<1>3. ASSUME NEW i \in Level, i # 0 PROVE NextRight(r[i].next, n, i)
  <2> DEFINE h == levelHalf(i - 1)
  <2>1. i - 1 \in Level /\ i - 1 # LastLevel /\ h \in Nat \ {0} /\ i \in Nat
    BY <1>3, Levels, Halves, Zenon
  <2>2. CASE l[i].next # FutureClear
    <3>1. NextRight(l[i].next, n, i)
      BY <1>3, <2>2, Zenon DEF Restartable
    <3>2. QED
      BY <1>2, <2>2, <3>1, Zenon
  <2>3. CASE l[i].next = FutureClear /\ \E j \in 1 .. i : untouched(j)
    <3>1. PICK j \in 1 .. i : untouched(j)
      BY <2>3, Zenon
    <3>2. j \in Level /\ j # 0
      BY <3>1, Levels, Zenon
    <3>3. j - 1 \in Level /\ j - 1 # LastLevel
      BY <3>2, Levels, Zenon
    <3>4. SnapAt(n, j - 1) = {}
      BY <3>1, <3>3, Zenon DEF Restartable, LevelsRight
    <3>5. mask(n, levelHalf(j - 1)) = 0
      BY <3>3, <3>4, SnapFull, Zenon
    <3>6. levelHalf(j - 1) \in Nat \ {0}
      BY <3>3, Halves, Zenon
    <3>7. n < levelHalf(j - 1)
      BY <3>5, <3>6, MaskQuarter, Zenon
    <3>8. j - 1 <= i - 1
      BY <2>1, <3>1, SMT
    <3>9. levelHalf(j - 1) <= h
      BY <2>1, <3>3, <3>8, HalvesGrow, Zenon
    <3> DEFINE q == levelHalf(j - 1)
    <3>10. n < h
      <4>1. q \in Nat /\ n < q /\ q <= h
        BY <3>6, <3>7, <3>9, Zenon
      <4> HIDE DEF q, h
      <4>2. QED
        BY <2>1, <4>1, SMT
    <3>11. mask(n, h) = 0
      BY <2>1, <3>10, MaskQuarter, Zenon
    <3>12. r[i].next = FutureClear
      BY <1>2, <2>3, Zenon
    <3>13. QED
      BY <3>11, <3>12, Zenon DEF NextRight
  <2>4. CASE l[i].next = FutureClear /\ ~ \E j \in 1 .. i : untouched(j)
    <3>1. ~ untouched(i) /\ i > 0
      <4>1. i \in 1 .. i /\ i > 0
        BY <1>3, <2>1, SMT
      <4>2. QED
        BY <2>4, <4>1, Zenon
    <3>2. l[i - 1].snap # {}
      BY <2>4, <3>1, Zenon
    <3>3. SnapAt(n, i - 1) # {}
      BY <2>1, <3>2, Zenon DEF Restartable, LevelsRight
    <3>4. mask(n, h) # 0
      BY <2>1, <3>3, SnapFull, Zenon
    <3>5. r[i].next = p(i)
      BY <1>2, <1>3, <2>4, Zenon
    <3>6. QED
      BY <1>3, <3>4, <3>5, RestartNext, Zenon
  <2>5. QED
    BY <2>2, <2>3, <2>4, Zenon
<1>4. LevelsRight(r, n)
  BY <1>2, Zenon DEF LevelsRight, Restartable
<1>5. QED
  BY <1>3, <1>4, Zenon DEF ListRight, r

=============================================================================
