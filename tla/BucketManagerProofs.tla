------------------------- MODULE BucketManagerProofs -------------------------
(***************************************************************************)
(* No bucket file that is needed is ever removed, publishing is safe, and  *)
(* the list depends on its ledger alone, whatever the number of levels,    *)
(* the checkpoint frequency, and the number of ledgers, crashes, archive   *)
(* failures and catchups.                                                  *)
(***************************************************************************)
EXTENDS BucketManager, BucketListProofs, FiniteSetTheorems, TLAPS

-----------------------------------------------------------------------------
(* Lists of levels and the buckets they name.                              *)

Named(l, i) ==
    {l[i].curr, l[i].snap, l[i].next.curr, l[i].next.snap, l[i].next.output}

\* A list names the buckets of its levels and of their futures.
LEMMA AllBuckets ==
    ASSUME NEW l, NEW b
    PROVE  b \in allBuckets(l) <=> b # {} /\ \E i \in Level : b \in Named(l, i)
<1>1. allBuckets(l) = (UNION {Named(l, i) : i \in Level}) \ {{}}
  BY Zenon DEF allBuckets, Named
<1>2. b \in UNION {Named(l, i) : i \in Level} <=> \E i \in Level : b \in Named(l, i)
  BY Zenon
<1>3. QED
  BY <1>1, <1>2, Zenon

\* The merges a list waits for have their inputs among its buckets.
LEMMA MergeInputs ==
    ASSUME NEW l, NEW k \in MergesOf(l)
    PROVE  \A b \in {k[1], k[2]} : b = {} \/ b \in allBuckets(l)
<1>1. PICK i \in Level : isMerging(l[i].next) /\ k = MergeKey(l[i].next)
  BY Zenon DEF MergesOf
<1>2. k[1] = l[i].next.curr /\ k[2] = l[i].next.snap
  BY <1>1, Zenon DEF MergeKey
<1>3. k[1] \in Named(l, i) /\ k[2] \in Named(l, i)
  BY <1>2, Zenon DEF Named
<1>4. QED
  BY <1>3, AllBuckets, Zenon

\* Restarting merges names no other buckets.
LEMMA RestartMerges ==
    ASSUME NEW l, NEW n, IsList(l)
    PROVE  IsList(restartMerges(l, n)) /\ allBuckets(restartMerges(l, n)) \subseteq allBuckets(l)
<1> DEFINE r == restartMerges(l, n)
<1>1. /\ DOMAIN r = Level
      /\ \A i \in Level :
            \/ r[i] = l[i]
            \/ /\ i # 0
               /\ \E c \in {{}, l[i].curr} :
                     r[i] = [l[i] EXCEPT !.next = FutureInputs(c, l[i - 1].snap)]
  BY Zenon DEF restartMerges, prepare
<1> HIDE DEF r
<1>2. ASSUME NEW i \in Level, i # 0 PROVE i - 1 \in Level
  BY <1>2, NumLevelsAssumption DEF Level, LastLevel
<1>3. ASSUME NEW i \in Level
      PROVE  /\ DOMAIN r[i] = {"curr", "snap", "next"}
             /\ \A b \in Named(r, i) : b # {} => b \in allBuckets(l)
  <2>1. CASE r[i] = l[i]
    BY <2>1, AllBuckets, Zenon DEF IsList, Named
  <2>2. CASE r[i] # l[i]
    <3>1. PICK c \in {{}, l[i].curr} :
              i # 0 /\ r[i] = [l[i] EXCEPT !.next = FutureInputs(c, l[i - 1].snap)]
      BY <1>1, <2>2, Zenon
    <3>2. /\ DOMAIN r[i] = {"curr", "snap", "next"} /\ r[i].curr = l[i].curr
          /\ r[i].snap = l[i].snap /\ r[i].next = FutureInputs(c, l[i - 1].snap)
      BY <3>1, Zenon DEF IsList
    <3>3. Named(r, i) \subseteq {l[i].curr, l[i].snap, l[i - 1].snap, {}}
      BY <3>2, Futures, SMTT(30) DEF Named
    <3>4. l[i].curr \in Named(l, i) /\ l[i].snap \in Named(l, i) /\ l[i - 1].snap \in Named(l, i - 1)
      BY Zenon DEF Named
    <3>5. i - 1 \in Level
      BY <1>2, <3>1, Zenon
    <3>6. QED
      BY <3>2, <3>3, <3>4, <3>5, AllBuckets, SMTT(30)
  <2>3. QED
    BY <2>1, <2>2, Zenon
<1>4. allBuckets(r) \subseteq allBuckets(l)
  BY <1>3, AllBuckets, Zenon
<1>5. QED
  BY <1>1, <1>3, <1>4, Zenon DEF IsList, r

\* prepareForPublish names no other buckets.
LEMMA PrepareForPublish ==
    ASSUME NEW l, IsList(l)
    PROVE  allBuckets(prepareForPublish(l)) \subseteq allBuckets(l)
<1> DEFINE r == prepareForPublish(l)
<1>1. ASSUME NEW i \in Level
      PROVE  r[i].curr = l[i].curr /\ r[i].snap = l[i].snap /\ r[i].next = FutureClear
  BY Zenon DEF prepareForPublish, IsList
<1> HIDE DEF r
<1>2. ASSUME NEW i \in Level
      PROVE  \A b \in Named(r, i) : b # {} => b \in Named(l, i)
  BY <1>1, Futures, Zenon DEF Named
<1>3. QED
  BY <1>2, AllBuckets, Zenon DEF r

\* The outputs of the merges that a list waits for and that have ended.
Ended(l, tasks) == {OutputOf(k) : k \in MergesOf(l) \ tasks}

\* Resolving futures names the outputs of merges that have ended, and leaves the list
\* waiting for merges that run.
LEMMA ResolveReady ==
    ASSUME NEW l, NEW tasks, IsList(l)
    PROVE  LET r == resolveAnyReadyFutures(l, tasks)
           IN  /\ IsList(r)
               /\ allBuckets(r) \subseteq allBuckets(l) \cup Ended(l, tasks)
               /\ MergesOf(r) \subseteq MergesOf(l) \cap tasks
<1> DEFINE r == resolveAnyReadyFutures(l, tasks)
<1>1. /\ DOMAIN r = Level
      /\ \A i \in Level :
            \/ /\ r[i] = l[i]
               /\ isMerging(l[i].next) => MergeKey(l[i].next) \in tasks
            \/ /\ isMerging(l[i].next) /\ MergeKey(l[i].next) \notin tasks
               /\ r[i] = [l[i] EXCEPT !.next = FutureOutput(OutputOf(MergeKey(l[i].next)))]
  BY Zenon DEF resolveAnyReadyFutures, resolve, IsList
<1> HIDE DEF r
<1>2. ASSUME NEW i \in Level
      PROVE  /\ DOMAIN r[i] = {"curr", "snap", "next"}
             /\ \A b \in Named(r, i) : b = {} \/ b \in allBuckets(l) \cup Ended(l, tasks)
             /\ isMerging(r[i].next) =>
                    r[i].next = l[i].next /\ MergeKey(l[i].next) \in tasks
  <2>1. CASE r[i] = l[i]
    <3>1. DOMAIN r[i] = {"curr", "snap", "next"} /\ Named(r, i) = Named(l, i)
      BY <2>1, Zenon DEF IsList, Named
    <3>2. isMerging(l[i].next) => MergeKey(l[i].next) \in tasks
      <4>1. SUFFICES ASSUME isMerging(l[i].next), MergeKey(l[i].next) \notin tasks PROVE FALSE
        BY Zenon
      <4>2. l[i].next = FutureOutput(OutputOf(MergeKey(l[i].next)))
        BY <1>1, <2>1, <4>1, SMTT(30) DEF IsList
      <4>3. QED
        BY <4>1, <4>2, Futures, Zenon
    <3>3. QED
      BY <2>1, <3>1, <3>2, AllBuckets, Zenon
  <2>2. CASE r[i] # l[i]
    <3> DEFINE o == OutputOf(MergeKey(l[i].next))
    <3>1. /\ isMerging(l[i].next) /\ MergeKey(l[i].next) \notin tasks
          /\ r[i] = [l[i] EXCEPT !.next = FutureOutput(o)]
      BY <1>1, <2>2, Zenon
    <3>2. o \in Ended(l, tasks)
      BY <3>1, Zenon DEF Ended, MergesOf
    <3> HIDE DEF o
    <3>3. /\ DOMAIN r[i] = {"curr", "snap", "next"} /\ r[i].curr = l[i].curr
          /\ r[i].snap = l[i].snap /\ r[i].next = FutureOutput(o)
      BY <3>1, Zenon DEF IsList
    <3>4. Named(r, i) \subseteq {l[i].curr, l[i].snap, o, {}}
      BY <3>3, Futures, SMTT(30) DEF Named
    <3>5. l[i].curr \in Named(l, i) /\ l[i].snap \in Named(l, i)
      BY Zenon DEF Named
    <3>6. QED
      BY <3>2, <3>3, <3>4, <3>5, AllBuckets, Futures, SMTT(30)
  <2>3. QED
    BY <2>1, <2>2, Zenon
<1>3. allBuckets(r) \subseteq allBuckets(l) \cup Ended(l, tasks)
  BY <1>2, AllBuckets, Zenon
<1>4. MergesOf(r) \subseteq MergesOf(l) \cap tasks
  BY <1>2, Zenon DEF MergesOf
<1>5. QED
  BY <1>1, <1>2, <1>3, <1>4, Zenon DEF IsList, r

-----------------------------------------------------------------------------
(* The buckets in use.                                                     *)

\* The buckets that something besides mSharedBuckets points to.
LEMMA HeldBuckets ==
    ASSUME NEW m, NEW b
    PROVE  b \in Held(m) <=>
               /\ b # {}
               /\ \/ b \in allBuckets(m.list)
                  \/ \E k \in m.tasks : b \in {k[1], k[2]}
                  \/ b \in Ended(m.list, m.tasks)
<1>1. b \in UNION {{k[1], k[2]} : k \in m.tasks} <=> \E k \in m.tasks : b \in {k[1], k[2]}
  BY Zenon
<1>2. QED
  BY <1>1, Zenon DEF Held, Ended

\* What the process uses it shares, with the outputs of the merges it has a record
\* of, and what it shares is on disk.
Shares(m, files) ==
    /\ Held(m) \subseteq m.shared
    /\ \A k \in m.finished : OutputOf(k) \in m.shared
    /\ m.shared \subseteq files

\* A change that leaves the list and the merges alone, shares more, and removes no
\* file of a shared bucket.
LEMMA SharesMore ==
    ASSUME NEW m, NEW n, NEW files, NEW files2, Shares(m, files),
           n.list = m.list, n.tasks = m.tasks, n.finished = m.finished,
           m.shared \subseteq n.shared, n.shared \subseteq files2
    PROVE  Shares(n, files2)
BY Zenon DEF Shares, Held

\* The list, the merges that run and those that the list waits for are all that counts.
LEMMA SharesList ==
    ASSUME NEW m, NEW files,
           allBuckets(m.list) \subseteq m.shared,
           \A k \in m.tasks : \A b \in {k[1], k[2]} : b = {} \/ b \in m.shared,
           \A k \in MergesOf(m.list) \ m.tasks : OutputOf(k) = {} \/ OutputOf(k) \in m.shared,
           \A k \in m.finished : OutputOf(k) \in m.shared,
           m.shared \subseteq files
    PROVE  Shares(m, files)
<1>1. \A b \in Ended(m.list, m.tasks) : b = {} \/ b \in m.shared
  BY Zenon DEF Ended
<1>2. Held(m) \subseteq m.shared
  BY <1>1, HeldBuckets, Zenon
<1>3. QED
  BY <1>2, Zenon DEF Shares

\* What Shares says, for the steps that change the list.
LEMMA SharesFacts ==
    ASSUME NEW m, NEW files, Shares(m, files)
    PROVE  /\ allBuckets(m.list) \subseteq m.shared
           /\ \A k \in m.tasks : \A b \in {k[1], k[2]} : b = {} \/ b \in m.shared
           /\ \A k \in MergesOf(m.list) \ m.tasks : OutputOf(k) = {} \/ OutputOf(k) \in m.shared
           /\ \A k \in m.finished : OutputOf(k) \in m.shared
           /\ m.shared \subseteq files
           /\ {} \notin allBuckets(m.list)
<1>1. {} \notin allBuckets(m.list)
  BY Zenon DEF allBuckets
<1>2. allBuckets(m.list) \subseteq Held(m)
  BY <1>1, HeldBuckets, Zenon
<1>3. \A k \in m.tasks : \A b \in {k[1], k[2]} : b = {} \/ b \in Held(m)
  BY HeldBuckets, Zenon
<1>4. \A k \in MergesOf(m.list) \ m.tasks : OutputOf(k) = {} \/ OutputOf(k) \in Held(m)
  BY HeldBuckets, Zenon DEF Ended
<1>5. QED
  BY <1>1, <1>2, <1>3, <1>4, Zenon DEF Shares

MemFields ==
    {"up", "phase", "list", "ledger", "db", "shared", "tasks", "finished", "refs", "work",
     "posted"}

\* The process r that has assumed a state of ledger n, of the process m before.
Assumed(r, m, n, files) ==
    /\ DOMAIN r = MemFields
    /\ \A f \in MemFields \ {"list", "ledger", "shared", "tasks"} : r[f] = m[f]
    /\ r.ledger = n /\ IsList(r.list)
    /\ Shares(r, files)

\* assumeState shares all that the restarted merges use.
LEMMA AssumeState ==
    ASSUME NEW m, NEW files, NEW has, NEW n,
           DOMAIN m = MemFields, IsList(has),
           allBuckets(has) \subseteq files,
           \A k \in m.tasks : \A b \in {k[1], k[2]} : b = {} \/ b \in m.shared,
           \A k \in m.finished : OutputOf(k) \in m.shared,
           m.shared \subseteq files
    PROVE  Assumed(assumeState(m, has, n), m, n, files)
<1> DEFINE l == restartMerges(has, n)
           r == assumeState(m, has, n)
<1>1. IsList(l) /\ allBuckets(l) \subseteq allBuckets(has)
  BY RestartMerges, Zenon
<1> HIDE DEF l
<1>2. /\ DOMAIN r = MemFields
      /\ \A f \in MemFields \ {"list", "ledger", "shared", "tasks"} : r[f] = m[f]
      /\ r.ledger = n /\ r.list = l /\ r.shared = m.shared \cup allBuckets(l)
      /\ r.tasks = m.tasks \cup (MergesOf(l) \ m.finished)
  BY Zenon DEF assumeState, startMerges, l, MemFields
<1>3. r.finished = m.finished
  BY <1>2, Zenon DEF MemFields
<1> HIDE DEF r
<1>4. r.shared \subseteq files
  BY <1>1, <1>2, Zenon
<1>5. \A k \in r.tasks : \A b \in {k[1], k[2]} : b = {} \/ b \in r.shared
  BY <1>2, MergeInputs, SMTT(30)
<1>6. \A k \in MergesOf(r.list) \ r.tasks : OutputOf(k) \in r.shared
  BY <1>2, Zenon
<1>7. Shares(r, files)
  BY <1>2, <1>3, <1>4, <1>5, <1>6, SharesList, Zenon
<1>8. QED
  BY <1>1, <1>2, <1>7, Zenon DEF r, Assumed

-----------------------------------------------------------------------------
(* Adding a batch.                                                         *)

\* The merges that addBatch starts.
Started(l, n) == {MergeKey(l[i].next) : i \in {j \in Level : commits(n, j)}}

\* A level after a batch: what it is made of.
LEMMA BatchLevel ==
    ASSUME NEW l, NEW n, NEW i \in Level
    PROVE  LET r == addBatch(l, n)[i]
               c == {{}, l[i].curr, resolve(l[i].next)}
           IN  /\ DOMAIN r = {"curr", "snap", "next"}
               /\ i # 0 /\ commits(n, i) => r.curr \in c
               /\ i # 0 /\ ~ commits(n, i) => r.curr \in {{}, l[i].curr}
               /\ r.snap \in {l[i].curr, l[i].snap}
               /\ ~ commits(n, i) => r.next = l[i].next
               /\ commits(n, i) => i # 0
               /\ commits(n, i) => \E d \in c : r.next = FutureInputs(d, l[i - 1].curr)
BY Zenon DEF addBatch, prepare, commits

\* The bucket of level 0 holds the new ledger, and is the output of its merge.
LEMMA BatchFirst ==
    ASSUME NEW l, NEW n
    PROVE  /\ n \in addBatch(l, n)[0].curr
           /\ OutputOf(<<addBatch(l, n)[0].curr \ {n}, {n}>>) = addBatch(l, n)[0].curr
<1>1. 0 \in Level
  BY NumLevelsAssumption DEF Level, LastLevel
<1>2. n \in addBatch(l, n)[0].curr
  BY <1>1, Zenon DEF addBatch, merge
<1>3. QED
  BY <1>2, Zenon DEF OutputOf, merge

\* What the list r that a batch makes of l names and waits for.
Batched(r, l, n, tasks) ==
    /\ IsList(r)
    /\ allBuckets(r) \subseteq allBuckets(l) \cup Ended(l, tasks) \cup {r[0].curr}
    /\ MergesOf(r) \subseteq MergesOf(l) \cup Started(r, n)
    /\ Started(r, n) \subseteq MergesOf(r)

\* A list after a batch names buckets it named before, outputs of merges that have
\* ended, and the bucket of level 0.
LEMMA AddBatchList ==
    ASSUME NEW l, NEW n, NEW tasks, IsList(l),
           \A i \in Level : commits(n, i) /\ isMerging(l[i].next) =>
                                MergeKey(l[i].next) \notin tasks
    PROVE  Batched(addBatch(l, n), l, n, tasks)
<1> DEFINE r == addBatch(l, n)
           old == allBuckets(l) \cup Ended(l, tasks) \cup {{}}
<1>1. DOMAIN r = Level
  BY Zenon DEF addBatch
<1>2. ASSUME NEW i \in Level
      PROVE  /\ l[i].curr \in old /\ l[i].snap \in old
             /\ l[i].next.curr \in old /\ l[i].next.snap \in old /\ l[i].next.output \in old
  <2>1. l[i].curr \in Named(l, i) /\ l[i].snap \in Named(l, i) /\ l[i].next.curr \in Named(l, i)
        /\ l[i].next.snap \in Named(l, i) /\ l[i].next.output \in Named(l, i)
    BY Zenon DEF Named
  <2>2. Named(l, i) \subseteq old
    BY AllBuckets, Zenon
  <2>3. QED
    BY <2>1, <2>2, Zenon
<1>3. ASSUME NEW i \in Level, commits(n, i)
      PROVE  resolve(l[i].next) \in old
  <2>1. CASE isMerging(l[i].next)
    BY <1>3, <2>1, Zenon DEF resolve, Ended, MergesOf
  <2>2. CASE ~ isMerging(l[i].next)
    BY <1>2, <2>2, Zenon DEF resolve
  <2>3. QED
    BY <2>1, <2>2, Zenon
<1>4. ASSUME NEW i \in Level
      PROVE  /\ DOMAIN r[i] = {"curr", "snap", "next"}
             /\ Named(r, i) \subseteq old \cup {r[0].curr}
             /\ commits(n, i) => isMerging(r[i].next)
             /\ ~ commits(n, i) => r[i].next = l[i].next
  <2>1. r[i].curr \in old \cup {r[0].curr} /\ r[i].snap \in old
    BY <1>2, <1>3, BatchLevel, SMTT(30)
  <2>2. CASE ~ commits(n, i)
    BY <1>2, <2>1, <2>2, BatchLevel, SMTT(30) DEF Named
  <2>3. CASE commits(n, i)
    <3>1. i # 0
      BY <2>3, BatchLevel, Zenon
    <3>2. PICK d \in {{}, l[i].curr, resolve(l[i].next)} : r[i].next = FutureInputs(d, l[i - 1].curr)
      BY <2>3, BatchLevel, SMTT(30)
    <3>3. i - 1 \in Level
      BY <3>1, NumLevelsAssumption, SMTT(30) DEF Level, LastLevel
    <3>4. d \in old /\ l[i - 1].curr \in old
      BY <1>2, <1>3, <2>3, <3>2, <3>3, Zenon
    <3>5. QED
      BY <2>1, <2>3, <3>2, <3>4, Futures, BatchLevel, SMTT(30) DEF Named
  <2>4. QED
    BY <2>2, <2>3, Zenon
<1> HIDE DEF r
<1>5. allBuckets(r) \subseteq allBuckets(l) \cup Ended(l, tasks) \cup {r[0].curr}
  BY <1>4, AllBuckets, Zenon
<1>6. MergesOf(r) \subseteq MergesOf(l) \cup Started(r, n)
  BY <1>4, Zenon DEF MergesOf, Started
<1>7. Started(r, n) \subseteq MergesOf(r)
  BY <1>4, Zenon DEF MergesOf, Started
<1>8. QED
  BY <1>1, <1>4, <1>5, <1>6, <1>7, Zenon DEF Batched, IsList, r

\* Adding a batch keeps what is used shared.
LEMMA AddBatchShares ==
    ASSUME NEW m, NEW files, NEW n, NEW s, Shares(m, files), IsList(m.list),
           \A i \in Level : commits(n, i) /\ isMerging(m.list[i].next) =>
                                MergeKey(m.list[i].next) \notin m.tasks,
           s.list = addBatch(m.list, n),
           s.tasks = m.tasks \cup (Started(s.list, n) \ m.finished),
           s.finished = m.finished \cup {<<s.list[0].curr \ {n}, {n}>>},
           s.shared = m.shared \cup {{n}, s.list[0].curr}
    PROVE  IsList(s.list) /\ Shares(s, files \cup {{n}, s.list[0].curr})
<1>0. Batched(addBatch(m.list, n), m.list, n, m.tasks)
  BY AddBatchList, Zenon
<1>1. /\ IsList(s.list)
      /\ allBuckets(s.list) \subseteq allBuckets(m.list) \cup Ended(m.list, m.tasks) \cup {s.list[0].curr}
      /\ MergesOf(s.list) \subseteq MergesOf(m.list) \cup Started(s.list, n)
      /\ Started(s.list, n) \subseteq MergesOf(s.list)
  BY <1>0, Zenon DEF Batched
<1>2. \A b \in Ended(m.list, m.tasks) : b = {} \/ b \in m.shared
  BY SharesFacts DEF Ended
<1>3. {} \notin allBuckets(s.list)
  BY AllBuckets, Zenon
<1>4. allBuckets(s.list) \subseteq s.shared
  BY <1>1, <1>2, <1>3, SharesFacts, Zenon
<1>5. \A k \in s.tasks : \A b \in {k[1], k[2]} : b = {} \/ b \in s.shared
  <2>1. ASSUME NEW k \in m.tasks PROVE \A b \in {k[1], k[2]} : b = {} \/ b \in s.shared
    BY SharesFacts, SMTT(30)
  <2>2. ASSUME NEW k \in Started(s.list, n)
        PROVE  \A b \in {k[1], k[2]} : b = {} \/ b \in s.shared
    BY <1>1, <1>4, MergeInputs, SMTT(30)
  <2>3. QED
    BY <2>1, <2>2, Zenon
<1>6. \A k \in s.finished : OutputOf(k) \in s.shared
  BY SharesFacts, BatchFirst, SMTT(30)
<1>7. \A k \in MergesOf(s.list) \ s.tasks : OutputOf(k) = {} \/ OutputOf(k) \in s.shared
  BY <1>1, SharesFacts, Zenon
<1>8. s.shared \subseteq files \cup {{n}, s.list[0].curr}
  BY SharesFacts, Zenon
<1>9. QED
  BY <1>1, <1>4, <1>5, <1>6, <1>7, <1>8, SharesList, SMTT(30)

-----------------------------------------------------------------------------
(* The reference counts of the publish queue.                              *)

\* The rows that name bucket b.
Rows(q, b) == {c \in DOMAIN q : b \in allBuckets(q[c])}

\* loadBucketsReferencedByPublishQueue counts the rows that name each bucket.
LEMMA LoadRefs ==
    ASSUME NEW q
    PROVE  /\ \A b : b \in DOMAIN loadBucketsReferencedByPublishQueue(q) <=> Rows(q, b) # {}
           /\ \A b \in DOMAIN loadBucketsReferencedByPublishQueue(q) :
                 loadBucketsReferencedByPublishQueue(q)[b] = Cardinality(Rows(q, b))
           /\ loadBucketsReferencedByPublishQueue(q) =
                 [b \in DOMAIN loadBucketsReferencedByPublishQueue(q) |->
                     loadBucketsReferencedByPublishQueue(q)[b]]
<1> DEFINE names == UNION {allBuckets(q[c]) : c \in DOMAIN q}
<1>1. loadBucketsReferencedByPublishQueue(q) = [b \in names |-> Cardinality(Rows(q, b))]
  BY Zenon DEF loadBucketsReferencedByPublishQueue, Rows
<1>2. \A b : b \in names <=> Rows(q, b) # {}
  BY Zenon DEF Rows
<1> HIDE DEF names
<1>3. QED
  BY <1>1, <1>2, Zenon

\* The rows' buckets are the ones counted.
LEMMA RowsCounted ==
    ASSUME NEW q, NEW c \in DOMAIN q
    PROVE  allBuckets(q[c]) \subseteq DOMAIN loadBucketsReferencedByPublishQueue(q)
BY LoadRefs, Zenon DEF Rows

\* Counting a new row's buckets gives the counts of the queue with that row.
LEMMA AddRow ==
    ASSUME NEW q, NEW n, NEW l, NEW r, IsFiniteSet(DOMAIN q), n \notin DOMAIN q,
           r = [c \in DOMAIN q \cup {n} |-> IF c = n THEN l ELSE q[c]]
    PROVE  addBuckets(loadBucketsReferencedByPublishQueue(q), allBuckets(l)) =
               loadBucketsReferencedByPublishQueue(r)
<1> DEFINE old == loadBucketsReferencedByPublishQueue(q)
           new == loadBucketsReferencedByPublishQueue(r)
           sum == addBuckets(old, allBuckets(l))
<1>1. ASSUME NEW b
      PROVE  Rows(r, b) = Rows(q, b) \cup (IF b \in allBuckets(l) THEN {n} ELSE {})
  BY Zenon DEF Rows
<1>2. ASSUME NEW b
      PROVE  /\ IsFiniteSet(Rows(q, b)) /\ n \notin Rows(q, b)
             /\ Cardinality(Rows(q, b)) \in Nat
             /\ Cardinality(Rows(q, b) \cup {n}) = Cardinality(Rows(q, b)) + 1
  <2>1. IsFiniteSet(Rows(q, b))
    BY FS_Subset, Zenon DEF Rows
  <2>2. n \notin Rows(q, b)
    BY Zenon DEF Rows
  <2>3. QED
    BY <2>1, <2>2, FS_AddElement, FS_CardinalityType, Zenon
<1>3. /\ DOMAIN sum = DOMAIN old \cup allBuckets(l)
      /\ \A b \in DOMAIN sum : sum[b] = (IF b \in DOMAIN old THEN old[b] ELSE 0)
                                            + (IF b \in allBuckets(l) THEN 1 ELSE 0)
      /\ sum = [b \in DOMAIN sum |-> sum[b]]
  BY Zenon DEF addBuckets
<1>4. /\ \A b : b \in DOMAIN old <=> Rows(q, b) # {}
      /\ \A b \in DOMAIN old : old[b] = Cardinality(Rows(q, b))
  BY LoadRefs, Zenon
<1>5. /\ \A b : b \in DOMAIN new <=> Rows(r, b) # {}
      /\ \A b \in DOMAIN new : new[b] = Cardinality(Rows(r, b))
      /\ new = [b \in DOMAIN new |-> new[b]]
  BY LoadRefs, Zenon
<1> HIDE DEF old, new, sum
<1>6. DOMAIN sum = DOMAIN new
  <2>1. ASSUME NEW b PROVE b \in DOMAIN sum <=> b \in DOMAIN new
    <3>1. b \in DOMAIN sum <=> Rows(q, b) # {} \/ b \in allBuckets(l)
      BY <1>3, <1>4, Zenon
    <3>2. b \in DOMAIN new <=> Rows(q, b) \cup (IF b \in allBuckets(l) THEN {n} ELSE {}) # {}
      BY <1>1, <1>5, Zenon
    <3>3. QED
      BY <3>1, <3>2, Zenon
  <2>2. QED
    BY <2>1, Zenon
<1>7. ASSUME NEW b \in DOMAIN sum PROVE sum[b] = new[b]
  <2>1. new[b] = Cardinality(Rows(r, b))
    BY <1>5, <1>6, Zenon
  <2>2. (IF b \in DOMAIN old THEN old[b] ELSE 0) = Cardinality(Rows(q, b))
    BY <1>4, FS_EmptySet, Zenon
  <2>3. sum[b] = Cardinality(Rows(q, b)) + (IF b \in allBuckets(l) THEN 1 ELSE 0)
    BY <1>3, <2>2, Zenon
  <2>4. QED
    BY <1>1, <1>2, <2>1, <2>3
<1>8. QED
  BY <1>3, <1>5, <1>6, <1>7, Zenon DEF sum, new, old

\* Taking a row's buckets off leaves the counts of the queue without it.
LEMMA RemoveRow ==
    ASSUME NEW q, NEW n \in DOMAIN q, IsFiniteSet(DOMAIN q)
    PROVE  removeBuckets(loadBucketsReferencedByPublishQueue(q), allBuckets(q[n])) =
               loadBucketsReferencedByPublishQueue(Dequeued(q, n))
<1> DEFINE old == loadBucketsReferencedByPublishQueue(q)
           new == loadBucketsReferencedByPublishQueue(Dequeued(q, n))
           rest == removeBuckets(old, allBuckets(q[n]))
           left(b) == old[b] - (IF b \in allBuckets(q[n]) THEN 1 ELSE 0)
<1>1. ASSUME NEW b
      PROVE  Rows(Dequeued(q, n), b) = Rows(q, b) \ {n}
  BY Zenon DEF Rows, Dequeued
<1>2. ASSUME NEW b
      PROVE  /\ IsFiniteSet(Rows(q, b)) /\ Cardinality(Rows(q, b)) \in Nat
             /\ n \in Rows(q, b) <=> b \in allBuckets(q[n])
             /\ Cardinality(Rows(q, b) \ {n}) =
                    Cardinality(Rows(q, b)) - (IF b \in allBuckets(q[n]) THEN 1 ELSE 0)
  <2>1. IsFiniteSet(Rows(q, b))
    BY FS_Subset, Zenon DEF Rows
  <2>2. n \in Rows(q, b) <=> b \in allBuckets(q[n])
    BY Zenon DEF Rows
  <2>3. QED
    BY <2>1, <2>2, FS_RemoveElement, FS_CardinalityType, SMTT(30)
<1>3. /\ \A b : b \in DOMAIN old <=> Rows(q, b) # {}
      /\ \A b \in DOMAIN old : old[b] = Cardinality(Rows(q, b))
  BY LoadRefs, Zenon
<1>4. /\ \A b : b \in DOMAIN new <=> Rows(Dequeued(q, n), b) # {}
      /\ \A b \in DOMAIN new : new[b] = Cardinality(Rows(Dequeued(q, n), b))
      /\ new = [b \in DOMAIN new |-> new[b]]
  BY LoadRefs, Zenon
<1> HIDE DEF old, new
<1>5. \A b \in DOMAIN old : old[b] \in Nat
  BY <1>2, <1>3, Zenon
<1>6. /\ DOMAIN rest = {b \in DOMAIN old : left(b) # 0}
      /\ \A b \in DOMAIN rest : rest[b] = left(b)
      /\ rest = [b \in DOMAIN rest |-> rest[b]]
  BY Zenon DEF removeBuckets
<1> HIDE DEF rest
<1>7. ASSUME NEW b \in DOMAIN old PROVE left(b) = Cardinality(Rows(q, b) \ {n})
  BY <1>2, <1>3, SMTT(30)
<1> HIDE DEF left
<1>8. ASSUME NEW b PROVE Cardinality(Rows(q, b) \ {n}) # 0 <=> Rows(q, b) \ {n} # {}
  <2>1. IsFiniteSet(Rows(q, b) \ {n})
    BY <1>2, FS_Subset, Zenon
  <2>2. QED
    BY <2>1, FS_EmptySet, FS_CardinalityType, SMTT(30)
<1>9. DOMAIN rest = DOMAIN new
  <2>1. ASSUME NEW b PROVE b \in DOMAIN rest <=> b \in DOMAIN new
    BY <1>1, <1>3, <1>4, <1>6, <1>7, <1>8, SMTT(30)
  <2>2. QED
    BY <2>1, Zenon
<1>10. ASSUME NEW b \in DOMAIN rest PROVE rest[b] = new[b]
  BY <1>1, <1>4, <1>6, <1>7, <1>9, Zenon
<1>11. QED
  BY <1>4, <1>6, <1>9, <1>10, Zenon DEF rest, new, old

-----------------------------------------------------------------------------
(* The invariant.                                                          *)

\* A database: its rows are in its past and all that it names is on disk; a
\* checkpoint it has closed is queued, published or was never closed here; and the
\* published ones are older than those queued.
DbInv(db, files, published, skipped) ==
    /\ DOMAIN db = {"lcl", "has", "queue"}
    /\ db.lcl \in Nat
    /\ IsList(db.has) /\ allBuckets(db.has) \subseteq files
    /\ IsFiniteSet(DOMAIN db.queue)
    /\ \A c \in DOMAIN db.queue :
          /\ c \in Nat /\ c <= db.lcl
          /\ IsList(db.queue[c]) /\ allBuckets(db.queue[c]) \subseteq files
    /\ \A c \in Checkpoints :
          c <= db.lcl => c \in DOMAIN db.queue \cup published \cup skipped
    /\ \A d \in published :
          /\ d \in Nat /\ d <= db.lcl
          /\ \A c \in DOMAIN db.queue : d <= c

WorkFields == {"phase", "ledger", "has", "files", "put"}

\* A publish is of the oldest row; the archive has what is not still to be sent.
WorkInv(w, queue, a) ==
    w # NoWork =>
        /\ DOMAIN w = WorkFields
        /\ w.phase \in {"resolve", "get", "files", "state"}
        /\ w.ledger \in DOMAIN queue /\ w.has = queue[w.ledger]
        /\ \A c \in DOMAIN queue : w.ledger <= c
        /\ w.files \subseteq allBuckets(w.has)
        /\ w.phase = "files" =>
              allBuckets(prepareForPublish(w.has)) \subseteq w.files \cup a.files
        /\ w.phase = "state" =>
              allBuckets(prepareForPublish(w.has)) \subseteq a.files
        /\ "checkpoint" \in w.put => w.ledger \in a.published

Shapes ==
    /\ DOMAIN disk = {"files", "db"}
    /\ DOMAIN mem = MemFields
    /\ DOMAIN archive = {"has", "files", "published"}
    /\ DOMAIN used = {"crashes", "failures", "catchups", "first", "skipped"}
    /\ mem.up \in BOOLEAN
    /\ mem.phase \in {"idle", "assumed", "batched", "stored", "committed"}
    /\ IsList(mem.list)

\* The process: down, it does nothing; up, its database is the committed one but
\* while a transaction is open, and the counts are those of the publish queue.
ProcessInv ==
    /\ ~ mem.up => mem.phase = "idle" /\ mem.tasks = {} /\ mem.work = NoWork
    /\ mem.up =>
          /\ DbInv(mem.db, disk.files, archive.published, used.skipped)
          /\ mem.refs = loadBucketsReferencedByPublishQueue(mem.db.queue)
          /\ WorkInv(mem.work, mem.db.queue, archive)
          /\ mem.phase # "stored" => mem.db = disk.db
          /\ mem.phase = "assumed" => mem.ledger \in Nat /\ mem.ledger > mem.db.lcl

Inv ==
    /\ Shapes
    /\ DbInv(disk.db, disk.files, archive.published, used.skipped)
    /\ Shares(mem, disk.files)
    /\ ProcessInv
    /\ allBuckets(archive.has) \subseteq archive.files

\* It implies what the runs check.
LEMMA InvImplies == Inv => RestartSafe /\ InUseOnDisk /\ PublishSafe
<1> SUFFICES ASSUME Inv PROVE RestartSafe /\ InUseOnDisk /\ PublishSafe
  BY Zenon
<1>1. RestartSafe
  BY Zenon DEF RestartSafe, MissingBuckets, Inv, DbInv
<1>2. Held(mem) \subseteq disk.files
  BY Zenon DEF Inv, Shares
<1>3. mem.work.phase = "files" => mem.work.files \subseteq disk.files
  <2> SUFFICES ASSUME mem.work.phase = "files" PROVE mem.work.files \subseteq disk.files
    BY Zenon
  <2>1. mem.work # NoWork
    BY DEF NoWork
  <2>2. mem.up
    BY <2>1, Zenon DEF Inv, ProcessInv, Shapes
  <2>3. QED
    BY <2>1, <2>2, Zenon DEF Inv, ProcessInv, WorkInv, DbInv
<1>4. PublishSafe
  BY Zenon DEF PublishSafe, Inv, DbInv
<1>5. QED
  BY <1>1, <1>2, <1>3, <1>4, Zenon DEF InUseOnDisk

-----------------------------------------------------------------------------
(* The steps.                                                              *)

\* What is on disk stays good when no file that the database names goes.
LEMMA DbKept ==
    ASSUME NEW db, NEW files, NEW published, NEW skipped, NEW files2,
           DbInv(db, files, published, skipped),
           allBuckets(db.has) \subseteq files2,
           \A c \in DOMAIN db.queue : allBuckets(db.queue[c]) \subseteq files2
    PROVE  DbInv(db, files2, published, skipped)
BY Zenon DEF DbInv

\* Neither the garbage collection nor cleanupStaleFiles removes them.
LEMMA Referenced ==
    ASSUME NEW m, m.refs = loadBucketsReferencedByPublishQueue(m.db.queue)
    PROVE  /\ allBuckets(m.db.has) \subseteq getReferencedBuckets(m)
           /\ \A c \in DOMAIN m.db.queue : allBuckets(m.db.queue[c]) \subseteq getReferencedBuckets(m)
<1>1. ASSUME NEW c \in DOMAIN m.db.queue
      PROVE  allBuckets(m.db.queue[c]) \subseteq DOMAIN m.refs
  BY RowsCounted, Zenon
<1>2. QED
  BY <1>1, Zenon DEF getReferencedBuckets

\* publishQueuedHistory changes the work alone, and starts a good one.
LEMMA PublishQueued ==
    ASSUME NEW m, NEW a, NEW files, NEW published, NEW skipped,
           DOMAIN m = MemFields, WorkInv(m.work, m.db.queue, a),
           DbInv(m.db, files, published, skipped)
    PROVE  LET r == publishQueuedHistory(m)
           IN  /\ DOMAIN r = MemFields
               /\ \A f \in MemFields \ {"work"} : r[f] = m[f]
               /\ WorkInv(r.work, m.db.queue, a)
<1> DEFINE q == m.db.queue
           c == CHOOSE d \in DOMAIN q : \A e \in DOMAIN q : d <= e
           w == [phase |-> "resolve", ledger |-> c, has |-> q[c], files |-> {}, put |-> {}]
           r == publishQueuedHistory(m)
<1>1. CASE m.work # NoWork \/ DOMAIN q = {}
  BY <1>1, Zenon DEF publishQueuedHistory
<1>2. CASE ~ (m.work # NoWork \/ DOMAIN q = {})
  <2>1. r = [m EXCEPT !.work = w]
    BY <1>2, Zenon DEF publishQueuedHistory
  <2>2. c \in DOMAIN q /\ \A e \in DOMAIN q : c <= e
    BY <1>2, Oldest, Zenon DEF DbInv
  <2> HIDE DEF c, r
  <2>3. WorkInv(w, q, a)
    BY <2>2, Zenon DEF WorkInv, WorkFields
  <2> HIDE DEF w
  <2>4. r.work = w /\ DOMAIN r = MemFields /\ \A f \in MemFields \ {"work"} : r[f] = m[f]
    BY <2>1, Zenon DEF MemFields
  <2>5. QED
    BY <2>3, <2>4, Zenon DEF r
<1>3. QED
  BY <1>1, <1>2, Zenon

\* The process right after loadLastKnownLedger, when the buckets of db are on disk.
LEMMA LoadedProcess ==
    ASSUME NEW db, NEW files, IsList(db.has), allBuckets(db.has) \subseteq files
    PROVE  LET m == Loaded(db)
           IN  /\ DOMAIN m = MemFields /\ m.up = TRUE /\ m.phase = "idle" /\ m.db = db
               /\ m.refs = loadBucketsReferencedByPublishQueue(db.queue)
               /\ m.work = NoWork /\ IsList(m.list)
               /\ m.tasks = MergesOf(restartMerges(db.has, db.lcl))
               /\ Shares(m, files)
<1> DEFINE refs == loadBucketsReferencedByPublishQueue(db.queue)
           b == [up |-> TRUE, phase |-> "idle", list |-> db.has, ledger |-> db.lcl, db |-> db,
                 shared |-> {}, tasks |-> {}, finished |-> {}, refs |-> refs,
                 work |-> NoWork, posted |-> FALSE]
           m == Loaded(db)
<1> HIDE DEF refs
<1>1. /\ DOMAIN b = MemFields /\ b.up = TRUE /\ b.phase = "idle" /\ b.db = db /\ b.shared = {}
      /\ b.tasks = {} /\ b.finished = {} /\ b.refs = refs /\ b.work = NoWork
  BY Zenon DEF MemFields
<1>2. m = assumeState(b, db.has, db.lcl)
  BY Zenon DEF Loaded, refs
<1> HIDE DEF b, m
<1>3. /\ DOMAIN m = MemFields
      /\ \A f \in MemFields \ {"list", "ledger", "shared", "tasks"} : m[f] = b[f]
      /\ IsList(m.list) /\ Shares(m, files)
  <2>1. Assumed(assumeState(b, db.has, db.lcl), b, db.lcl, files)
    BY <1>1, AssumeState, Zenon
  <2>2. QED
    BY <1>2, <2>1, Zenon DEF Assumed
<1>4. /\ m.up = b.up /\ m.phase = b.phase /\ m.db = b.db /\ m.refs = b.refs
      /\ m.work = b.work
  BY <1>3, Zenon DEF MemFields
<1>5. m.tasks = MergesOf(restartMerges(db.has, db.lcl))
  BY <1>1, <1>2, Zenon DEF assumeState, startMerges, MemFields
<1>6. QED
  BY <1>1, <1>3, <1>4, <1>5, Zenon DEF m, refs

\* A process that is down has nothing in use.
LEMMA DownProcess ==
    ASSUME NEW files
    PROVE  /\ DOMAIN Down = MemFields /\ Down.up = FALSE /\ Down.phase = "idle"
           /\ Down.tasks = {} /\ Down.work = NoWork /\ IsList(Down.list)
           /\ Shares(Down, files)
<1> DEFINE db == [lcl |-> 0, has |-> EmptyList, queue |-> <<>>]
           m == Loaded(db)
<1>1. IsList(EmptyList)
  BY Zenon DEF IsList, EmptyList, EmptyLevel
<1>2. ASSUME NEW i \in Level PROVE Named(EmptyList, i) = {{}}
  BY Futures, Zenon DEF Named, EmptyList, EmptyLevel
<1>3. allBuckets(EmptyList) = {}
  BY <1>2, AllBuckets, Zenon
<1>4. restartMerges(EmptyList, 0) = EmptyList
  <2>1. \A i \in Level : EmptyList[i].next = FutureClear /\ EmptyList[i].snap = {}
    BY Zenon DEF EmptyList, EmptyLevel
  <2>2. ASSUME NEW i \in Level, i # 0
        PROVE  \E j \in 1 .. i :
                  j > 0 /\ EmptyList[j].next = FutureClear /\ EmptyList[j - 1].snap = {}
    <3>1. 1 \in 1 .. i /\ 1 \in Level /\ 1 - 1 \in Level /\ 1 > 0
      BY <2>2, NumLevelsAssumption, SMTT(30) DEF Level, LastLevel
    <3>2. QED
      BY <2>1, <3>1, Zenon
  <2>3. ASSUME NEW i \in Level PROVE restartMerges(EmptyList, 0)[i] = EmptyList[i]
    BY <2>2, Zenon DEF restartMerges
  <2>4. DOMAIN restartMerges(EmptyList, 0) = Level
        /\ restartMerges(EmptyList, 0) = [i \in Level |-> restartMerges(EmptyList, 0)[i]]
    BY Zenon DEF restartMerges
  <2>5. EmptyList = [i \in Level |-> EmptyList[i]]
    BY Zenon DEF EmptyList
  <2>6. QED
    BY <2>3, <2>4, <2>5, Zenon
<1>5. MergesOf(EmptyList) = {}
  BY Futures, Zenon DEF MergesOf, EmptyList, EmptyLevel
<1>6. db.has = EmptyList /\ db.lcl = 0
  BY Zenon
<1>7. Down = [m EXCEPT !.up = FALSE]
  BY Zenon DEF Down
<1> HIDE DEF db
<1>8. /\ DOMAIN m = MemFields /\ m.phase = "idle" /\ m.work = NoWork /\ IsList(m.list)
      /\ m.tasks = {} /\ Shares(m, files)
  BY <1>1, <1>3, <1>4, <1>5, <1>6, LoadedProcess
<1> HIDE DEF m
<1>9. /\ DOMAIN Down = MemFields /\ Down.up = FALSE /\ Down.phase = m.phase
      /\ Down.work = m.work /\ Down.list = m.list /\ Down.tasks = m.tasks
      /\ Down.shared = m.shared /\ Down.finished = m.finished
  BY <1>7, <1>8, Zenon DEF MemFields
<1>10. QED
  BY <1>8, <1>9, SharesMore, Zenon DEF Shares

\* The empty queue has no rows.
LEMMA EmptyQueue == DOMAIN << >> = {} /\ IsFiniteSet({})
BY FS_EmptySet

\* The state that a catchup assumes is a list of levels.
LEMMA ListAtIsList == \A n : IsList(ListAt(n))
BY Zenon DEF IsList, ListAt

\* Checkpoints are ledgers.
LEMMA CheckpointsAreLedgers == Checkpoints \subseteq Nat \ {0}
BY BucketManagerAssumption DEF Checkpoints

\* A node that starts with its merges resolved satisfies the invariant.
LEMMA InitInv == Init => Inv
<1> SUFFICES ASSUME Init PROVE Inv
  BY Zenon
<1> DEFINE H(n) == resolveAnyReadyFutures(restartMerges(ListAt(n), n), {})
           D(n) == [lcl |-> n, has |-> H(n), queue |-> << >>]
<1>1. PICK n \in InitialLcl :
          /\ disk = [files |-> allBuckets(H(n)), db |-> D(n)]
          /\ mem = Loaded(D(n))
          /\ archive = [has |-> EmptyList, files |-> {}, published |-> {}]
          /\ used = [crashes |-> 0, failures |-> 0, catchups |-> 0, first |-> n, skipped |-> 1 .. n]
  BY Zenon DEF Init
<1> DEFINE db == D(n)
           has == H(n)
<1>2. n \in Nat
  BY BucketManagerAssumption, Zenon
<1>3. IsList(has)
  BY ListAtIsList, RestartMerges, ResolveReady, Zenon
<1> HIDE DEF H
<1>4. /\ DOMAIN db = {"lcl", "has", "queue"} /\ db.lcl = n /\ db.has = has /\ db.queue = << >>
  BY Zenon
<1> HIDE DEF D
<1>5. /\ DOMAIN disk = {"files", "db"} /\ disk.files = allBuckets(has) /\ disk.db = db
      /\ DOMAIN archive = {"has", "files", "published"} /\ archive.has = EmptyList
      /\ archive.files = {} /\ archive.published = {}
      /\ DOMAIN used = {"crashes", "failures", "catchups", "first", "skipped"}
      /\ used.skipped = 1 .. n
  BY <1>1, Zenon
<1>6. DbInv(db, disk.files, archive.published, used.skipped)
  <2>1. DOMAIN db.queue = {} /\ IsFiniteSet(DOMAIN db.queue)
    BY <1>4, EmptyQueue, Zenon
  <2>2. \A c \in Checkpoints : c <= n => c \in used.skipped
    <3>1. \A c \in Nat \ {0} : c <= n => c \in 1 .. n
      BY <1>2, SMTT(30)
    <3>2. QED
      BY <1>5, <3>1, CheckpointsAreLedgers, Zenon
  <2>3. \A c \in Checkpoints :
           c <= db.lcl => c \in DOMAIN db.queue \cup archive.published \cup used.skipped
    BY <1>4, <2>2, Zenon
  <2>4. db.lcl \in Nat /\ IsList(db.has) /\ allBuckets(db.has) \subseteq disk.files
    BY <1>2, <1>3, <1>4, <1>5, Zenon
  <2>5. archive.published = {}
    BY <1>5, Zenon
  <2> HIDE DEF db
  <2>6. QED
    BY <1>4, <2>1, <2>3, <2>4, <2>5, Zenon DEF DbInv
<1>7. /\ DOMAIN mem = MemFields /\ mem.up = TRUE /\ mem.phase = "idle" /\ mem.db = db
      /\ mem.refs = loadBucketsReferencedByPublishQueue(db.queue)
      /\ mem.work = NoWork /\ IsList(mem.list) /\ Shares(mem, disk.files)
  <2>1. mem = Loaded(db) /\ IsList(db.has) /\ allBuckets(db.has) \subseteq disk.files
    BY <1>1, <1>3, <1>4, <1>5, Zenon
  <2> HIDE DEF db
  <2>2. QED
    BY <2>1, LoadedProcess, Zenon
<1>8. ProcessInv
  BY <1>5, <1>6, <1>7, Zenon DEF ProcessInv, WorkInv
<1>9. allBuckets(archive.has) = {}
  <2>1. ASSUME NEW i \in Level PROVE Named(EmptyList, i) = {{}}
    BY Futures, Zenon DEF Named, EmptyList, EmptyLevel
  <2>2. QED
    BY <1>5, <2>1, AllBuckets
<1>10. QED
  BY <1>5, <1>6, <1>7, <1>8, <1>9 DEF Inv, Shapes

\* A crash leaves what is on disk.
LEMMA CrashStep == Inv /\ Crash => Inv'
<1> SUFFICES ASSUME Inv, Crash PROVE Inv'
  BY Zenon
<1>1. mem' = Down /\ disk' = disk /\ archive' = archive
  BY Zenon DEF Crash
<1>2. DOMAIN used' = DOMAIN used /\ used'.skipped = used.skipped
  BY Zenon DEF Crash, Inv, Shapes
<1>3. Shapes' /\ Shares(mem, disk.files)' /\ ProcessInv'
  BY <1>1, <1>2, DownProcess, Zenon DEF Inv, Shapes, ProcessInv
<1>4. QED
  BY <1>1, <1>2, <1>3, SMTT(30) DEF Inv, DbInv, Checkpoints

\* What the garbage collection drops is not named by the database.
LEMMA NotDropped ==
    ASSUME NEW m, NEW files, NEW published, NEW skipped,
           m.refs = loadBucketsReferencedByPublishQueue(m.db.queue),
           DbInv(m.db, files, published, skipped)
    PROVE  DbInv(m.db, files \ Unreferenced(m), published, skipped)
<1>1. allBuckets(m.db.has) \subseteq files \ Unreferenced(m)
  BY Referenced, Zenon DEF DbInv, Unreferenced
<1>2. \A c \in DOMAIN m.db.queue : allBuckets(m.db.queue[c]) \subseteq files \ Unreferenced(m)
  BY Referenced, Zenon DEF DbInv, Unreferenced
<1>3. QED
  BY <1>1, <1>2, DbKept, Zenon

\* gracefulStop removes no file that the next start needs.
LEMMA ShutdownStep == Inv /\ Shutdown => Inv'
<1> SUFFICES ASSUME Inv, Shutdown PROVE Inv'
  BY Zenon
<1>1. mem' = Down /\ archive' = archive /\ DOMAIN disk' = DOMAIN disk /\ disk'.db = disk.db
      /\ disk'.files = disk.files \ Unreferenced(mem)
  BY Zenon DEF Shutdown, Inv, Shapes
<1>2. DOMAIN used' = DOMAIN used /\ used'.skipped = used.skipped
  BY Zenon DEF Shutdown, Inv, Shapes
<1>3. Shapes' /\ Shares(mem, disk.files)' /\ ProcessInv'
  BY <1>1, <1>2, DownProcess, Zenon DEF Inv, Shapes, ProcessInv
<1>4. DbInv(mem.db, disk.files, archive.published, used.skipped) /\ mem.db = disk.db
      /\ mem.refs = loadBucketsReferencedByPublishQueue(mem.db.queue)
  BY Zenon DEF Inv, ProcessInv, Shutdown, Idle
<1>5. DbInv(mem.db, disk.files \ Unreferenced(mem), archive.published, used.skipped)
  BY <1>4, NotDropped
<1>6. DbInv(disk.db, disk.files, archive.published, used.skipped)'
  BY <1>1, <1>2, <1>4, <1>5 DEF DbInv, Checkpoints
<1>7. QED
  BY <1>1, <1>3, <1>6, Zenon DEF Inv

\* A start loads a good database, and cleanupStaleFiles keeps what it names and uses.
LEMMA RestartStep == Inv /\ Restart => Inv'
<1> SUFFICES ASSUME Inv, Restart PROVE Inv'
  BY Zenon
<1> DEFINE m == Loaded(disk.db)
           r == publishQueuedHistory(m)
           kept == KeptFiles(m, disk.files)
<1>1. mem' = r /\ archive' = archive /\ used' = used
      /\ DOMAIN disk' = DOMAIN disk /\ disk'.db = disk.db /\ disk'.files = kept
  BY Zenon DEF Restart, Inv, Shapes
<1>2. DbInv(disk.db, disk.files, archive.published, used.skipped)
  BY Zenon DEF Inv
<1>3. /\ DOMAIN m = MemFields /\ m.up = TRUE /\ m.phase = "idle" /\ m.db = disk.db
      /\ m.refs = loadBucketsReferencedByPublishQueue(disk.db.queue)
      /\ m.work = NoWork /\ IsList(m.list) /\ Shares(m, disk.files)
  BY <1>2, LoadedProcess, Zenon DEF DbInv
<1> HIDE DEF m
<1>4. DbInv(disk.db, kept, archive.published, used.skipped)
  <2>1. allBuckets(m.db.has) \subseteq getReferencedBuckets(m)
        /\ \A c \in DOMAIN m.db.queue : allBuckets(m.db.queue[c]) \subseteq getReferencedBuckets(m)
    BY <1>3, Referenced, Zenon
  <2>2. allBuckets(disk.db.has) \subseteq kept
        /\ \A c \in DOMAIN disk.db.queue : allBuckets(disk.db.queue[c]) \subseteq kept
    BY <1>2, <1>3, <2>1, ZenonT(30) DEF KeptFiles, DbInv
  <2>3. QED
    BY <1>2, <2>2, DbKept, Zenon
<1>5. m.shared \subseteq kept
  BY <1>3, Zenon DEF KeptFiles, Shares
<1>6. WorkInv(m.work, m.db.queue, archive)
  BY <1>3, Zenon DEF WorkInv
<1>7. /\ DOMAIN r = MemFields /\ \A f \in MemFields \ {"work"} : r[f] = m[f]
      /\ WorkInv(r.work, m.db.queue, archive)
  BY <1>2, <1>3, <1>6, PublishQueued, ZenonT(30)
<1> HIDE DEF r, kept
<1>8. /\ r.up = TRUE /\ r.phase = "idle" /\ r.db = disk.db /\ r.list = m.list
      /\ r.refs = loadBucketsReferencedByPublishQueue(disk.db.queue)
      /\ r.tasks = m.tasks /\ r.finished = m.finished /\ r.shared = m.shared
  BY <1>3, <1>7, Zenon DEF MemFields
<1>9. Shares(r, kept)
  BY <1>3, <1>5, <1>8, SharesMore, ZenonT(30)
<1>10. Shapes'
  BY <1>1, <1>3, <1>7, <1>8 DEF Shapes, Inv
<1>11. ProcessInv'
  BY <1>1, <1>3, <1>4, <1>7, <1>8 DEF ProcessInv, DbInv, WorkInv, Checkpoints
<1>12. QED
  BY <1>1, <1>4, <1>9, <1>10, <1>11, SMTT(30) DEF Inv, DbInv, Checkpoints

-----------------------------------------------------------------------------
(* Closing a ledger.                                                       *)

\* Adding the batch puts the new buckets on disk before the list names them.
LEMMA AddBatchStep == Inv /\ AddBatch => Inv'
<1> SUFFICES ASSUME Inv, AddBatch PROVE Inv'
  BY Zenon
<1> DEFINE n == mem.db.lcl + 1
           l == addBatch(mem.list, n)
           new == {{n}, l[0].curr}
<1>1. mem.up /\ mem.phase = "idle" /\ ~ MustWait(n) /\ archive' = archive /\ used' = used
      /\ DOMAIN disk' = DOMAIN disk /\ disk'.db = disk.db /\ disk'.files = disk.files \cup new
  BY Zenon DEF AddBatch, Inv, Shapes
<1>2. /\ DOMAIN mem' = MemFields /\ mem'.up = mem.up /\ mem'.phase = "batched"
      /\ mem'.list = l /\ mem'.db = mem.db /\ mem'.refs = mem.refs /\ mem'.work = mem.work
      /\ mem'.tasks = mem.tasks \cup (Started(l, n) \ mem.finished)
      /\ mem'.finished = mem.finished \cup {<<l[0].curr \ {n}, {n}>>}
      /\ mem'.shared = mem.shared \cup new
  BY Zenon DEF AddBatch, startMerges, Started, Inv, Shapes, MemFields
<1>3. \A i \in Level : commits(n, i) /\ isMerging(mem.list[i].next) =>
          MergeKey(mem.list[i].next) \notin mem.tasks
  BY <1>1, Zenon DEF MustWait
<1> HIDE DEF n
<1>4. IsList(mem'.list) /\ Shares(mem', disk.files \cup {{n}, mem'.list[0].curr})
  BY <1>2, <1>3, AddBatchShares, ZenonT(30) DEF Inv, Shapes
<1> HIDE DEF l
<1>5. Shares(mem, disk.files)'
  BY <1>1, <1>2, <1>4, Zenon DEF Shares, Held
<1>6. Shapes'
  BY <1>1, <1>2, <1>4, Zenon DEF Inv, Shapes
<1>7. DbInv(disk.db, disk.files, archive.published, used.skipped)'
  BY <1>1 DEF Inv, DbInv, Checkpoints
<1>8. ProcessInv'
  BY <1>1, <1>2, <1>7, Zenon DEF Inv, ProcessInv, WorkInv
<1>9. QED
  BY <1>1, <1>5, <1>6, <1>7, <1>8, SMTT(30) DEF Inv

\* The database of the ledger that is being closed, in the open transaction.
LEMMA StoredDb ==
    ASSUME NEW db, NEW db2, NEW files, NEW published, NEW skipped, NEW l, NEW n,
           DbInv(db, files, published, skipped), IsList(l), allBuckets(l) \subseteq files,
           n = db.lcl + 1, DOMAIN db2 = {"lcl", "has", "queue"}, db2.lcl = n, db2.has = l,
           IF IsCheckpoint(n)
           THEN db2.queue = [c \in DOMAIN db.queue \cup {n} |-> IF c = n THEN l ELSE db.queue[c]]
           ELSE db2.queue = db.queue
    PROVE  DbInv(db2, files, published, skipped)
<1>1. n \in Nat /\ db.lcl \in Nat
  BY DEF DbInv
<1>2. \A c \in Checkpoints : c \in Nat /\ IsCheckpoint(c)
  BY CheckpointsAreLedgers DEF Checkpoints
<1>3. /\ DOMAIN db.queue \subseteq DOMAIN db2.queue
      /\ DOMAIN db2.queue \subseteq DOMAIN db.queue \cup {n}
      /\ IsCheckpoint(n) => n \in DOMAIN db2.queue
      /\ \A c \in DOMAIN db2.queue : c # n => db2.queue[c] = db.queue[c]
      /\ n \in DOMAIN db2.queue /\ n \notin DOMAIN db.queue => db2.queue[n] = l
  BY Zenon
<1>4. n \notin DOMAIN db.queue
  BY <1>1 DEF DbInv
<1>5. IsFiniteSet(DOMAIN db2.queue)
  <2>1. IsFiniteSet(DOMAIN db.queue)
    BY Zenon DEF DbInv
  <2>2. IsFiniteSet(DOMAIN db.queue \cup {n})
    BY <2>1, FS_AddElement, Zenon
  <2>3. QED
    BY <1>3, <2>2, FS_Subset, Zenon
<1>6. ASSUME NEW c \in DOMAIN db2.queue
      PROVE  /\ c \in Nat /\ c <= n
             /\ IsList(db2.queue[c]) /\ allBuckets(db2.queue[c]) \subseteq files
  BY <1>1, <1>3, <1>4, SMTT(30) DEF DbInv
<1>7. ASSUME NEW c \in Checkpoints, c <= n
      PROVE  c \in DOMAIN db2.queue \cup published \cup skipped
  <2>1. CASE c = n
    BY <1>2, <1>3, <2>1, Zenon
  <2>2. CASE c # n
    <3>1. c <= db.lcl
      BY <1>1, <1>2, <1>7, <2>2, SMTT(30)
    <3>2. QED
      BY <1>3, <3>1, Zenon DEF DbInv
  <2>3. QED
    BY <2>1, <2>2, Zenon
<1>8. ASSUME NEW d \in published
      PROVE  d \in Nat /\ d <= n /\ \A c \in DOMAIN db2.queue : d <= c
  BY <1>1, <1>3, SMTT(30) DEF DbInv
<1>9. QED
  BY <1>1, <1>5, <1>6, <1>7, <1>8, ZenonT(30) DEF DbInv

\* The open transaction names buckets in use only, and queues a checkpoint as the newest.
LEMMA StoreLedgerStep == Inv /\ StoreLedger => Inv'
<1> SUFFICES ASSUME Inv, StoreLedger PROVE Inv'
  BY Zenon
<1> DEFINE n == mem.db.lcl + 1
           l == resolveAnyReadyFutures(mem.list, mem.tasks)
           q == [c \in DOMAIN mem.db.queue \cup {n} |-> IF c = n THEN l ELSE mem.db.queue[c]]
<1>1. mem.phase = "batched" /\ disk' = disk /\ archive' = archive /\ used' = used
  BY Zenon DEF StoreLedger
<1>2. /\ mem.up /\ DOMAIN mem.db = {"lcl", "has", "queue"} /\ DOMAIN mem = MemFields
      /\ DbInv(mem.db, disk.files, archive.published, used.skipped)
      /\ mem.refs = loadBucketsReferencedByPublishQueue(mem.db.queue)
      /\ WorkInv(mem.work, mem.db.queue, archive)
  BY <1>1, Zenon DEF Inv, Shapes, ProcessInv, DbInv
<1>3. /\ IsList(l) /\ allBuckets(l) \subseteq allBuckets(mem.list) \cup Ended(mem.list, mem.tasks)
      /\ MergesOf(l) \subseteq MergesOf(mem.list) \cap mem.tasks
  BY ResolveReady, SMTT(30) DEF Inv, Shapes
<1> HIDE DEF l, n
<1>4. /\ DOMAIN mem' = MemFields /\ mem'.up = mem.up /\ mem'.phase = "stored"
      /\ mem'.list = l /\ mem'.work = mem.work /\ mem'.tasks = mem.tasks
      /\ mem'.finished = mem.finished /\ mem'.shared = mem.shared
      /\ DOMAIN mem'.db = {"lcl", "has", "queue"} /\ mem'.db.lcl = n /\ mem'.db.has = l
      /\ mem'.db.queue = IF IsCheckpoint(n) THEN q ELSE mem.db.queue
      /\ mem'.refs = IF IsCheckpoint(n) THEN addBuckets(mem.refs, allBuckets(l)) ELSE mem.refs
  <2> DEFINE s == [mem EXCEPT !.list = l, !.phase = "stored", !.db.lcl = n, !.db.has = l]
  <2>1. mem' = IF IsCheckpoint(n) THEN queueCurrentHistory(s, n, l) ELSE s
    BY Zenon DEF StoreLedger, l, n
  <2>2. /\ DOMAIN s = MemFields /\ s.up = mem.up /\ s.phase = "stored"
        /\ s.list = l /\ s.work = mem.work /\ s.tasks = mem.tasks
        /\ s.finished = mem.finished /\ s.shared = mem.shared /\ s.refs = mem.refs
        /\ DOMAIN s.db = {"lcl", "has", "queue"} /\ s.db.lcl = n /\ s.db.has = l
        /\ s.db.queue = mem.db.queue
    BY <1>2, Zenon DEF MemFields
  <2> HIDE DEF s
  <2>3. CASE IsCheckpoint(n)
    BY <2>1, <2>2, <2>3, Zenon DEF queueCurrentHistory, MemFields
  <2>4. CASE ~ IsCheckpoint(n)
    BY <2>1, <2>2, <2>4, ZenonT(30)
  <2>5. QED
    BY <2>3, <2>4, Zenon
<1>5. \A b \in Ended(mem.list, mem.tasks) : b = {} \/ b \in mem.shared
  BY SharesFacts, Zenon DEF Ended, Inv
<1>6. allBuckets(l) \subseteq mem.shared
  BY <1>3, <1>5, SharesFacts, AllBuckets, SMTT(30) DEF Inv
<1>7. Shares(mem', disk.files)
  <2>1. \A k \in mem.tasks : \A b \in {k[1], k[2]} : b = {} \/ b \in mem.shared
    BY SharesFacts, Zenon DEF Inv
  <2>2. (\A k \in mem.finished : OutputOf(k) \in mem.shared) /\ mem.shared \subseteq disk.files
    BY SharesFacts, Zenon DEF Inv
  <2>3. MergesOf(mem'.list) \ mem'.tasks = {}
    BY <1>3, <1>4, ZenonT(30)
  <2>4. QED
    BY <1>4, <1>6, <2>1, <2>2, <2>3, SharesList, SMTT(30)
<1>8. DbInv(mem'.db, disk.files, archive.published, used.skipped)
  <2>1. allBuckets(l) \subseteq disk.files
    BY <1>6, Zenon DEF Inv, Shares
  <2>2. QED
    BY <1>2, <1>3, <1>4, <2>1, StoredDb, SMTT(30) DEF n
<1>9. mem'.refs = loadBucketsReferencedByPublishQueue(mem'.db.queue)
  <2>1. IsFiniteSet(DOMAIN mem.db.queue) /\ n \notin DOMAIN mem.db.queue
    BY <1>2, SMTT(30) DEF DbInv, n
  <2>2. addBuckets(mem.refs, allBuckets(l)) = loadBucketsReferencedByPublishQueue(q)
    BY <1>2, <2>1, AddRow, SMTT(30)
  <2>3. QED
    BY <1>2, <1>4, <2>2, Zenon
<1>10. WorkInv(mem'.work, mem'.db.queue, archive)
  <2> SUFFICES ASSUME mem.work # NoWork PROVE WorkInv(mem.work, mem'.db.queue, archive)
    BY <1>4, Zenon DEF WorkInv
  <2>1. /\ n \in Nat /\ n \notin DOMAIN mem.db.queue
        /\ mem.work.ledger \in DOMAIN mem.db.queue /\ mem.work.ledger <= n
    BY <1>2, SMTT(30) DEF DbInv, WorkInv, n
  <2>2. /\ DOMAIN mem'.db.queue \subseteq DOMAIN mem.db.queue \cup {n}
        /\ DOMAIN mem.db.queue \subseteq DOMAIN mem'.db.queue
        /\ mem'.db.queue[mem.work.ledger] = mem.db.queue[mem.work.ledger]
    BY <1>4, <2>1, Zenon
  <2>3. QED
    BY <1>2, <2>1, <2>2, ZenonT(30) DEF WorkInv
<1>11. Shapes'
  BY <1>1, <1>2, <1>3, <1>4, ZenonT(30) DEF Inv, Shapes
<1>12. Shares(mem, disk.files)'
  BY <1>1, <1>7, Zenon
<1>13. DbInv(mem.db, disk.files, archive.published, used.skipped)'
  BY <1>1, <1>8, Zenon
<1>14. WorkInv(mem.work, mem.db.queue, archive)'
  BY <1>1, <1>10, ZenonT(30)
<1>15. ProcessInv'
  BY <1>2, <1>4, <1>9, <1>13, <1>14, SMTT(30) DEF ProcessInv
<1>16. QED
  BY <1>1, <1>11, <1>12, <1>15, ZenonT(30) DEF Inv

\* The commit makes the database of the session the one on disk.
LEMMA CommitLedgerStep == Inv /\ CommitLedger => Inv'
<1> SUFFICES ASSUME Inv, CommitLedger PROVE Inv'
  BY Zenon
<1>1. /\ mem.phase = "stored" /\ archive' = archive /\ used' = used
      /\ DOMAIN disk' = DOMAIN disk /\ disk'.db = mem.db /\ disk'.files = disk.files
  BY Zenon DEF CommitLedger, Inv, Shapes
<1>2. /\ DOMAIN mem' = MemFields /\ mem'.up = mem.up /\ mem'.phase = "committed"
      /\ mem'.list = mem.list /\ mem'.work = mem.work /\ mem'.tasks = mem.tasks
      /\ mem'.finished = mem.finished /\ mem'.shared = mem.shared
      /\ mem'.db = mem.db /\ mem'.refs = mem.refs
  BY Zenon DEF CommitLedger, Inv, Shapes, MemFields
<1>3. mem.up /\ DbInv(mem.db, disk.files, archive.published, used.skipped)
  BY <1>1, Zenon DEF Inv, Shapes, ProcessInv
<1>4. Shares(mem, disk.files)'
  BY <1>1, <1>2, SharesMore, Zenon DEF Inv, Shares
<1>5. Shapes'
  BY <1>1, <1>2, Zenon DEF Inv, Shapes
<1>6. DbInv(disk.db, disk.files, archive.published, used.skipped)'
  BY <1>1, <1>3, Zenon
<1>7. WorkInv(mem.work, mem.db.queue, archive)'
  BY <1>1, <1>2, <1>3, Zenon DEF Inv, ProcessInv
<1>8. ProcessInv'
  BY <1>1, <1>2, <1>3, <1>6, <1>7, SMTT(30) DEF Inv, ProcessInv
<1>9. QED
  BY <1>1, <1>4, <1>5, <1>6, <1>8, ZenonT(30) DEF Inv

\* forgetUnreferencedBuckets keeps what is in use.
LEMMA Forget ==
    ASSUME NEW m, NEW files, DOMAIN m = MemFields, Shares(m, files)
    PROVE  LET r == forgetUnreferencedBuckets(m)
           IN  /\ DOMAIN r = MemFields
               /\ \A f \in MemFields \ {"shared", "finished"} : r[f] = m[f]
               /\ Shares(r, files \ Unreferenced(m))
<1> DEFINE r == forgetUnreferencedBuckets(m)
           gone == Unreferenced(m)
<1>1. /\ DOMAIN r = MemFields
      /\ \A f \in MemFields \ {"shared", "finished"} : r[f] = m[f]
      /\ r.shared = m.shared \ gone
      /\ r.finished = {k \in m.finished : OutputOf(k) \notin gone}
  BY Zenon DEF forgetUnreferencedBuckets, MemFields
<1> HIDE DEF r
<1>2. r.list = m.list /\ r.tasks = m.tasks
  BY <1>1, Zenon DEF MemFields
<1>3. Held(r) = Held(m)
  BY <1>2, Zenon DEF Held
<1>4. Held(m) \cap gone = {}
  BY Zenon DEF Unreferenced
<1>5. Shares(r, files \ gone)
  BY <1>1, <1>3, <1>4, Zenon DEF Shares
<1>6. QED
  BY <1>1, <1>5, Zenon DEF r

\* Garbage collection follows the commit: what the committed database names stays.
LEMMA FinishCloseStep == Inv /\ FinishClose => Inv'
<1> SUFFICES ASSUME Inv, FinishClose PROVE Inv'
  BY Zenon
<1> DEFINE i == [mem EXCEPT !.phase = "idle"]
           m == publishQueuedHistory(i)
           r == forgetUnreferencedBuckets(m)
<1>1. /\ mem.phase = "committed" /\ archive' = archive /\ used' = used /\ mem' = r
      /\ DOMAIN disk' = DOMAIN disk /\ disk'.db = disk.db
      /\ disk'.files = disk.files \ Unreferenced(m)
  BY Zenon DEF FinishClose, Inv, Shapes
<1>2. /\ DOMAIN i = MemFields /\ i.up = mem.up /\ i.phase = "idle"
      /\ i.list = mem.list /\ i.work = mem.work /\ i.tasks = mem.tasks
      /\ i.finished = mem.finished /\ i.shared = mem.shared
      /\ i.db = mem.db /\ i.refs = mem.refs
  BY Zenon DEF Inv, Shapes, MemFields
<1> HIDE DEF i
<1>3. /\ mem.up /\ mem.db = disk.db
      /\ DbInv(mem.db, disk.files, archive.published, used.skipped)
      /\ WorkInv(mem.work, mem.db.queue, archive)
      /\ mem.refs = loadBucketsReferencedByPublishQueue(mem.db.queue)
  BY <1>1, Zenon DEF Inv, Shapes, ProcessInv
<1>4. /\ DOMAIN m = MemFields /\ \A f \in MemFields \ {"work"} : m[f] = i[f]
      /\ WorkInv(m.work, i.db.queue, archive)
  BY <1>2, <1>3, PublishQueued, Zenon
<1> HIDE DEF m
<1>5. /\ m.up = mem.up /\ m.phase = "idle" /\ m.list = mem.list /\ m.tasks = mem.tasks
      /\ m.finished = mem.finished /\ m.shared = mem.shared
      /\ m.db = mem.db /\ m.refs = mem.refs
  BY <1>2, <1>4, Zenon DEF MemFields
<1>6. Shares(m, disk.files)
  BY <1>5, SharesMore, Zenon DEF Inv, Shares
<1>7. /\ DOMAIN r = MemFields
      /\ \A f \in MemFields \ {"shared", "finished"} : r[f] = m[f]
      /\ Shares(r, disk.files \ Unreferenced(m))
  BY <1>4, <1>6, Forget, Zenon
<1> HIDE DEF r
<1>8. /\ r.up = mem.up /\ r.phase = "idle" /\ r.list = mem.list /\ r.db = mem.db
      /\ r.refs = mem.refs /\ r.work = m.work
  BY <1>5, <1>7, Zenon DEF MemFields
<1>9. DbInv(m.db, disk.files \ Unreferenced(m), archive.published, used.skipped)
  BY <1>3, <1>5, NotDropped, Zenon
<1>10. DbInv(disk.db, disk.files, archive.published, used.skipped)'
  BY <1>1, <1>3, <1>5, <1>9, ZenonT(30)
<1>11. Shares(mem, disk.files)'
  BY <1>1, <1>7, Zenon
<1>12. Shapes'
  BY <1>1, <1>7, <1>8, Zenon DEF Inv, Shapes
<1>13. WorkInv(mem.work, mem.db.queue, archive)'
  BY <1>1, <1>2, <1>4, <1>8, Zenon
<1>14. ProcessInv'
  BY <1>1, <1>3, <1>8, <1>10, <1>13, Zenon DEF ProcessInv
<1>15. QED
  BY <1>1, <1>10, <1>11, <1>12, <1>14, SMTT(30) DEF Inv

\* A merge that ends, at any moment, has its output on disk and shared.
LEMMA FinishMergeStep == ASSUME NEW key PROVE Inv /\ FinishMerge(key) => Inv'
<1> SUFFICES ASSUME Inv, FinishMerge(key) PROVE Inv'
  BY Zenon
<1> DEFINE o == OutputOf(key)
<1>1. /\ key \in mem.tasks /\ archive' = archive /\ used' = used
      /\ DOMAIN disk' = DOMAIN disk /\ disk'.db = disk.db
      /\ disk'.files = disk.files \cup {o}
  BY Zenon DEF FinishMerge, Inv, Shapes
<1>2. /\ DOMAIN mem' = MemFields /\ mem'.up = mem.up /\ mem'.phase = mem.phase
      /\ mem'.list = mem.list /\ mem'.work = mem.work /\ mem'.tasks = mem.tasks \ {key}
      /\ mem'.finished = mem.finished \cup {key} /\ mem'.shared = mem.shared \cup {o}
      /\ mem'.db = mem.db /\ mem'.refs = mem.refs /\ mem'.ledger = mem.ledger
  BY Zenon DEF FinishMerge, Inv, Shapes, MemFields
<1>3. mem.up
  BY <1>1, Zenon DEF Inv, ProcessInv, Shapes
<1>4. Shares(mem', disk'.files)
  <2>1. Shares(mem, disk.files)
    BY Zenon DEF Inv
  <2>2. allBuckets(mem'.list) \subseteq mem'.shared
    BY <1>2, <2>1, SharesFacts, Zenon
  <2>3. \A k \in mem'.tasks : \A b \in {k[1], k[2]} : b = {} \/ b \in mem'.shared
    BY <1>2, <2>1, SharesFacts, SMTT(30)
  <2>4. \A k \in MergesOf(mem'.list) \ mem'.tasks : OutputOf(k) = {} \/ OutputOf(k) \in mem'.shared
    BY <1>2, <2>1, SharesFacts, Zenon
  <2>5. (\A k \in mem'.finished : OutputOf(k) \in mem'.shared) /\ mem'.shared \subseteq disk'.files
    BY <1>1, <1>2, <2>1, SharesFacts, ZenonT(30)
  <2>6. QED
    BY <2>2, <2>3, <2>4, <2>5, SharesList, SMTT(30)
<1>5. DbInv(disk.db, disk.files, archive.published, used.skipped)'
  BY <1>1, Zenon DEF Inv, DbInv
<1>6. DbInv(mem.db, disk.files, archive.published, used.skipped)'
  BY <1>1, <1>2, <1>3, Zenon DEF Inv, ProcessInv, DbInv
<1>7. WorkInv(mem.work, mem.db.queue, archive)'
  BY <1>1, <1>2, <1>3, Zenon DEF Inv, ProcessInv
<1>8. ProcessInv'
  BY <1>1, <1>2, <1>3, <1>6, <1>7, ZenonT(30) DEF Inv, ProcessInv
<1>9. Shapes'
  BY <1>1, <1>2, Zenon DEF Inv, Shapes
<1>10. QED
  BY <1>1, <1>4, <1>5, <1>8, <1>9, ZenonT(30) DEF Inv

-----------------------------------------------------------------------------
(* Catching up by buckets.                                                 *)

\* A catchup keeps the buckets of the old database until the new one is stored.
LEMMA ApplyBucketsStep == ASSUME NEW c \in Checkpoints PROVE Inv /\ ApplyBuckets(c) => Inv'
<1> SUFFICES ASSUME Inv, ApplyBuckets(c) PROVE Inv'
  BY Zenon
<1> DEFINE has == ListAt(c)
           b == [mem EXCEPT !.phase = "assumed", !.shared = @ \cup allBuckets(has)]
           m == assumeState(b, has, c)
           got == disk.files \cup allBuckets(has)
           kept == KeptFiles(m, got)
<1>1. /\ mem.up /\ mem.phase = "idle" /\ archive' = archive /\ mem' = m
      /\ DOMAIN used' = DOMAIN used /\ used'.skipped = used.skipped
      /\ DOMAIN disk' = DOMAIN disk /\ disk'.db = disk.db /\ disk'.files = kept
  BY Zenon DEF ApplyBuckets, Inv, Shapes
<1>2. /\ mem.db = disk.db /\ WorkInv(mem.work, mem.db.queue, archive)
      /\ DbInv(mem.db, disk.files, archive.published, used.skipped)
      /\ mem.refs = loadBucketsReferencedByPublishQueue(mem.db.queue)
      /\ Shares(mem, disk.files)
  BY <1>1, Zenon DEF Inv, ProcessInv
<1>3. c \in Nat /\ c > mem.db.lcl
  BY <1>2, CheckpointsAreLedgers, BucketManagerAssumption, SMTT(30) DEF ApplyBuckets, DbInv
<1>4. IsList(has)
  BY ListAtIsList, Zenon
<1> HIDE DEF has
<1>5. /\ DOMAIN b = MemFields /\ b.up = mem.up /\ b.phase = "assumed"
      /\ b.work = mem.work /\ b.tasks = mem.tasks
      /\ b.finished = mem.finished /\ b.shared = mem.shared \cup allBuckets(has)
      /\ b.db = mem.db /\ b.refs = mem.refs
  BY Zenon DEF Inv, Shapes, MemFields
<1> HIDE DEF b
<1>6. /\ \A k \in b.tasks : \A x \in {k[1], k[2]} : x = {} \/ x \in b.shared
      /\ \A k \in b.finished : OutputOf(k) \in b.shared
      /\ b.shared \subseteq got /\ allBuckets(has) \subseteq got
  BY <1>2, <1>5, SharesFacts, SMTT(30)
<1> HIDE DEF got
<1>7. /\ DOMAIN m = MemFields
      /\ \A f \in MemFields \ {"list", "ledger", "shared", "tasks"} : m[f] = b[f]
      /\ m.ledger = c /\ IsList(m.list) /\ Shares(m, got)
  <2>1. Assumed(assumeState(b, has, c), b, c, got)
    BY <1>4, <1>5, <1>6, AssumeState, Zenon
  <2>2. QED
    BY <2>1, Zenon DEF Assumed
<1> HIDE DEF m
<1>8. /\ m.up = mem.up /\ m.phase = "assumed" /\ m.work = mem.work
      /\ m.db = mem.db /\ m.refs = mem.refs
  BY <1>5, <1>7, Zenon DEF MemFields
<1>9. Shares(m, kept)
  BY <1>7, Zenon DEF Shares, KeptFiles
<1>10. DbInv(mem.db, kept, archive.published, used.skipped)
  <2>1. allBuckets(m.db.has) \subseteq getReferencedBuckets(m)
        /\ \A d \in DOMAIN m.db.queue : allBuckets(m.db.queue[d]) \subseteq getReferencedBuckets(m)
    BY <1>2, <1>8, Referenced, Zenon
  <2>2. allBuckets(mem.db.has) \subseteq kept
        /\ \A d \in DOMAIN mem.db.queue : allBuckets(mem.db.queue[d]) \subseteq kept
    BY <1>2, <1>8, <2>1, Zenon DEF KeptFiles, DbInv, got
  <2>3. QED
    BY <1>2, <2>2, DbKept, Zenon
<1> HIDE DEF kept
<1>11. DbInv(disk.db, disk.files, archive.published, used.skipped)'
  BY <1>1, <1>2, <1>10, Zenon
<1>12. WorkInv(mem.work, mem.db.queue, archive)'
  BY <1>1, <1>2, <1>8, Zenon
<1>13. ProcessInv'
  BY <1>1, <1>2, <1>3, <1>7, <1>8, <1>11, <1>12, SMTT(30) DEF ProcessInv
<1>14. Shapes'
  BY <1>1, <1>7, <1>8, Zenon DEF Inv, Shapes
<1>15. QED
  BY <1>1, <1>9, <1>11, <1>13, <1>14, SMTT(30) DEF Inv

\* The ledger caught up to names the buckets of the list.
LEMMA SetLastClosedLedgerStep == Inv /\ SetLastClosedLedger => Inv'
<1> SUFFICES ASSUME Inv, SetLastClosedLedger PROVE Inv'
  BY Zenon
<1> DEFINE db == [mem.db EXCEPT !.lcl = mem.ledger, !.has = mem.list]
           skip == used.skipped \cup (mem.db.lcl + 1 .. mem.ledger)
<1>1. /\ mem.phase = "assumed" /\ archive' = archive
      /\ DOMAIN used' = DOMAIN used /\ used'.skipped = skip
      /\ DOMAIN disk' = DOMAIN disk /\ disk'.db = db /\ disk'.files = disk.files
  BY Zenon DEF SetLastClosedLedger, Inv, Shapes
<1>2. /\ DOMAIN mem' = MemFields /\ mem'.up = mem.up /\ mem'.phase = "idle"
      /\ mem'.list = mem.list /\ mem'.work = mem.work /\ mem'.tasks = mem.tasks
      /\ mem'.finished = mem.finished /\ mem'.shared = mem.shared
      /\ mem'.db = db /\ mem'.refs = mem.refs
  BY Zenon DEF SetLastClosedLedger, Inv, Shapes, MemFields
<1>3. /\ mem.up /\ mem.ledger \in Nat /\ mem.ledger > mem.db.lcl
      /\ DbInv(mem.db, disk.files, archive.published, used.skipped)
      /\ mem.refs = loadBucketsReferencedByPublishQueue(mem.db.queue)
      /\ WorkInv(mem.work, mem.db.queue, archive)
  BY <1>1, Zenon DEF Inv, Shapes, ProcessInv
<1>4. /\ DOMAIN db = {"lcl", "has", "queue"} /\ db.lcl = mem.ledger /\ db.has = mem.list
      /\ db.queue = mem.db.queue
  BY <1>3, Zenon DEF DbInv
<1> HIDE DEF db
<1>5. DbInv(db, disk.files, archive.published, skip)
  <2>1. mem.db.lcl \in Nat
    BY <1>3, Zenon DEF DbInv
  <2>2. IsList(mem.list) /\ allBuckets(mem.list) \subseteq disk.files
    BY SharesFacts, Zenon DEF Inv, Shapes
  <2>3. ASSUME NEW c \in Checkpoints, c <= mem.ledger
        PROVE  c \in DOMAIN mem.db.queue \cup archive.published \cup skip
    <3>1. c \in Nat
      BY CheckpointsAreLedgers, Zenon
    <3>2. CASE c <= mem.db.lcl
      BY <1>3, <3>2, Zenon DEF DbInv
    <3>3. CASE ~ (c <= mem.db.lcl)
      BY <1>3, <2>1, <2>3, <3>1, <3>3, SMTT(30)
    <3>4. QED
      BY <3>2, <3>3, Zenon
  <2> HIDE DEF skip
  <2>4. ASSUME NEW c \in DOMAIN mem.db.queue
        PROVE  /\ c \in Nat /\ c <= mem.ledger
               /\ IsList(mem.db.queue[c]) /\ allBuckets(mem.db.queue[c]) \subseteq disk.files
    BY <1>3, <2>1, SMTT(30) DEF DbInv
  <2>5. ASSUME NEW d \in archive.published
        PROVE  d \in Nat /\ d <= mem.ledger /\ \A c \in DOMAIN mem.db.queue : d <= c
    BY <1>3, <2>1, SMTT(30) DEF DbInv
  <2>6. IsFiniteSet(DOMAIN mem.db.queue)
    BY <1>3, Zenon DEF DbInv
  <2>7. QED
    BY <1>3, <1>4, <2>2, <2>3, <2>4, <2>5, <2>6, SMTT(30) DEF DbInv
<1> HIDE DEF skip
<1>6. Shares(mem, disk.files)'
  BY <1>1, <1>2, SharesMore, Zenon DEF Inv, Shares
<1>7. Shapes'
  BY <1>1, <1>2, Zenon DEF Inv, Shapes
<1>8. DbInv(disk.db, disk.files, archive.published, used.skipped)'
  BY <1>1, <1>5, Zenon
<1>9. WorkInv(mem.work, mem.db.queue, archive)'
  BY <1>1, <1>2, <1>3, <1>4, Zenon
<1>10. ProcessInv'
  BY <1>1, <1>2, <1>3, <1>4, <1>8, <1>9, ZenonT(30) DEF ProcessInv
<1>11. QED
  BY <1>1, <1>6, <1>7, <1>8, <1>10, SMTT(30) DEF Inv

-----------------------------------------------------------------------------
(* Publishing.                                                             *)

\* Between two callbacks the database of the session is the committed one.
LEMMA IdleFacts ==
    ASSUME Inv, Idle
    PROVE  /\ mem.up /\ mem.db = disk.db
           /\ DbInv(mem.db, disk.files, archive.published, used.skipped)
           /\ mem.refs = loadBucketsReferencedByPublishQueue(mem.db.queue)
           /\ WorkInv(mem.work, mem.db.queue, archive)
           /\ DOMAIN mem = MemFields /\ DOMAIN mem.db = {"lcl", "has", "queue"}
           /\ Shares(mem, disk.files)
           /\ \A p \in {"resolve", "get", "files", "state"} :
                 mem.work.phase = p => mem.work # NoWork /\ DOMAIN mem.work = WorkFields
BY DEF Inv, Shapes, ProcessInv, Idle, DbInv, WorkInv, NoWork

\* A step of a publish: it leaves the bucket list, its merges and the files alone.
Publishing ==
    /\ Idle
    /\ DOMAIN used' = DOMAIN used /\ used'.skipped = used.skipped
    /\ DOMAIN archive' = DOMAIN archive /\ allBuckets(archive'.has) \subseteq archive'.files
    /\ DOMAIN disk' = DOMAIN disk /\ disk'.files = disk.files /\ disk'.db = mem'.db
    /\ DOMAIN mem' = MemFields /\ mem'.up = mem.up /\ mem'.phase = mem.phase
    /\ mem'.list = mem.list /\ mem'.tasks = mem.tasks /\ mem'.finished = mem.finished
    /\ mem'.ledger = mem.ledger /\ mem'.db.lcl = mem.db.lcl
    /\ mem.shared \subseteq mem'.shared /\ mem'.shared \subseteq disk.files
    /\ mem'.refs = loadBucketsReferencedByPublishQueue(mem'.db.queue)
    /\ DbInv(mem'.db, disk.files, archive'.published, used.skipped)
    /\ WorkInv(mem'.work, mem'.db.queue, archive')

\* Such a step keeps the invariant.
LEMMA PublishingStep == Inv /\ Publishing => Inv'
<1> SUFFICES ASSUME Inv, Publishing PROVE Inv'
  BY Zenon
<1>1. mem.up
  BY IdleFacts, Zenon DEF Publishing
<1>2. Shares(mem, disk.files)'
  BY SharesMore, Zenon DEF Inv, Publishing
<1>3. Shapes'
  BY Zenon DEF Inv, Shapes, Publishing
<1>4. DbInv(disk.db, disk.files, archive.published, used.skipped)'
  BY Zenon DEF Publishing
<1>5. WorkInv(mem.work, mem.db.queue, archive)'
  BY Zenon DEF Publishing
<1>6. ProcessInv'
  BY <1>1, <1>4, <1>5, Zenon DEF Inv, ProcessInv, Publishing
<1>7. QED
  BY <1>2, <1>3, <1>4, <1>6, SMTT(30) DEF Inv, Publishing

\* The fields of the process that a step of a publish leaves alone.
KeptFields == MemFields \ {"work", "shared", "db", "refs", "posted"}

\* The works of a publish, one lemma each.
LEMMA ResolveSnapshotStep == Inv /\ ResolveSnapshot => Inv'
<1> SUFFICES ASSUME Inv, ResolveSnapshot PROVE Publishing
  BY PublishingStep, Zenon
<1>1. Idle /\ mem.work.phase = "resolve"
  BY Zenon DEF ResolveSnapshot, Working
<1> DEFINE w == [mem.work EXCEPT !.phase = "get"]
<1>2. /\ mem' = [mem EXCEPT !.work = w] /\ disk' = disk /\ archive' = archive /\ used' = used
  BY Zenon DEF ResolveSnapshot
<1>3. /\ DOMAIN w = WorkFields /\ w.phase = "get" /\ w.ledger = mem.work.ledger
      /\ w.has = mem.work.has /\ w.files = mem.work.files /\ w.put = mem.work.put
  BY <1>1, IdleFacts, Zenon DEF WorkFields
<1> HIDE DEF w
<1>4. WorkInv(w, mem.db.queue, archive)
  BY <1>1, <1>3, IdleFacts, Zenon DEF WorkInv
<1>5. /\ DOMAIN mem' = MemFields /\ mem'.work = w /\ mem'.db = mem.db /\ mem'.refs = mem.refs
      /\ mem'.shared = mem.shared /\ \A f \in KeptFields : mem'[f] = mem[f]
  BY <1>1, <1>2, IdleFacts, Zenon DEF MemFields, KeptFields
<1>6. QED
  BY <1>1, <1>2, <1>4, <1>5, IdleFacts, SMTT(30) DEF Publishing, KeptFields, MemFields, Inv, Shares

\* The files picked are those of the row, less what the archive has.
LEMMA GetArchiveStateStep == Inv /\ GetArchiveState => Inv'
<1> SUFFICES ASSUME Inv, GetArchiveState PROVE Publishing
  BY PublishingStep, Zenon
<1>1. Idle /\ mem.work.phase = "get"
  BY Zenon DEF GetArchiveState, Working
<1> DEFINE p == prepareForPublish(mem.work.has)
           files == differingBuckets(p, archive.has)
           w == [mem.work EXCEPT !.phase = "files", !.files = files]
<1>2. /\ mem' = [mem EXCEPT !.work = w, !.shared = @ \cup files]
      /\ disk' = disk /\ archive' = archive /\ used' = used
  BY Zenon DEF GetArchiveState
<1>3. /\ DOMAIN w = WorkFields /\ w.phase = "files" /\ w.ledger = mem.work.ledger
      /\ w.has = mem.work.has /\ w.files = files /\ w.put = mem.work.put
  BY <1>1, IdleFacts, Zenon DEF WorkFields
<1> HIDE DEF w
<1>4. /\ mem.work.ledger \in DOMAIN mem.db.queue
      /\ mem.work.has = mem.db.queue[mem.work.ledger]
  BY <1>1, IdleFacts, Zenon DEF WorkInv
<1>5. IsList(mem.work.has) /\ allBuckets(mem.work.has) \subseteq disk.files
  BY <1>1, <1>4, IdleFacts, SMTT(30) DEF DbInv
<1>6. files \subseteq allBuckets(mem.work.has) /\ files \subseteq disk.files
  BY <1>5, PrepareForPublish, Zenon DEF differingBuckets
<1>7. allBuckets(p) \subseteq files \cup archive.files
  BY Zenon DEF differingBuckets, Inv
<1> HIDE DEF files
<1>8. WorkInv(w, mem.db.queue, archive)
  BY <1>1, <1>3, <1>6, <1>7, IdleFacts, SMTT(30) DEF WorkInv
<1>9. /\ DOMAIN mem' = MemFields /\ mem'.work = w /\ mem'.db = mem.db /\ mem'.refs = mem.refs
      /\ mem'.shared = mem.shared \cup files /\ \A f \in KeptFields : mem'[f] = mem[f]
  BY <1>1, <1>2, IdleFacts, Zenon DEF MemFields, KeptFields
<1>10. QED
  BY <1>1, <1>2, <1>6, <1>8, <1>9, IdleFacts, SMTT(30)
  DEF Publishing, KeptFields, MemFields, Inv, Shares

\* After the files are sent the archive has all buckets of the state to publish.
LEMMA PutFilesStep == Inv /\ PutFiles => Inv'
<1> SUFFICES ASSUME Inv, PutFiles PROVE Publishing
  BY PublishingStep, Zenon
<1>1. Idle /\ mem.work.phase = "files"
  BY Zenon DEF PutFiles, Working
<1> DEFINE w == [mem.work EXCEPT !.phase = "state"]
<1>2. /\ mem' = [mem EXCEPT !.work = w] /\ disk' = disk /\ used' = used
      /\ DOMAIN archive' = DOMAIN archive /\ archive'.has = archive.has
      /\ archive'.files = archive.files \cup mem.work.files
      /\ archive'.published = archive.published
  BY Zenon DEF PutFiles, Inv, Shapes
<1>3. /\ DOMAIN w = WorkFields /\ w.phase = "state" /\ w.ledger = mem.work.ledger
      /\ w.has = mem.work.has /\ w.files = mem.work.files /\ w.put = mem.work.put
  BY <1>1, IdleFacts, Zenon DEF WorkFields
<1> HIDE DEF w
<1>4. WorkInv(w, mem.db.queue, archive')
  BY <1>1, <1>2, <1>3, IdleFacts, SMTT(30) DEF WorkInv
<1>5. /\ DOMAIN mem' = MemFields /\ mem'.work = w /\ mem'.db = mem.db /\ mem'.refs = mem.refs
      /\ mem'.shared = mem.shared /\ \A f \in KeptFields : mem'[f] = mem[f]
  BY <1>1, <1>2, IdleFacts, Zenon DEF MemFields, KeptFields
<1>6. QED
  BY <1>1, <1>2, <1>4, <1>5, IdleFacts, SMTT(30) DEF Publishing, KeptFields, MemFields, Inv, Shares

\* Either state file may come first.
LEMMA PutStateFileStep ==
    ASSUME NEW file \in {"checkpoint", "well-known"} PROVE Inv /\ PutStateFile(file) => Inv'
<1> SUFFICES ASSUME Inv, PutStateFile(file) PROVE Publishing
  BY PublishingStep, Zenon
<1>1. Idle /\ mem.work.phase = "state"
  BY Zenon DEF PutStateFile, Working
<1> DEFINE w == [mem.work EXCEPT !.put = @ \cup {file}]
           p == prepareForPublish(mem.work.has)
<1>2. /\ mem' = [mem EXCEPT !.work = w] /\ disk' = disk /\ used' = used
      /\ DOMAIN archive' = DOMAIN archive /\ archive'.files = archive.files
      /\ archive'.has = IF file = "checkpoint" THEN archive.has ELSE p
      /\ archive'.published = IF file = "checkpoint"
                              THEN archive.published \cup {mem.work.ledger}
                              ELSE archive.published
  BY Zenon DEF PutStateFile, Inv, Shapes
<1>3. /\ DOMAIN w = WorkFields /\ w.phase = "state" /\ w.ledger = mem.work.ledger
      /\ w.has = mem.work.has /\ w.files = mem.work.files /\ w.put = mem.work.put \cup {file}
  BY <1>1, IdleFacts, Zenon DEF WorkFields
<1> HIDE DEF w, p
<1>4. /\ mem.work.ledger \in DOMAIN mem.db.queue /\ allBuckets(p) \subseteq archive.files
      /\ \A c \in DOMAIN mem.db.queue : mem.work.ledger <= c
  BY <1>1, IdleFacts, ZenonT(30) DEF WorkInv, p
<1>5. WorkInv(w, mem.db.queue, archive')
  BY <1>1, <1>2, <1>3, IdleFacts, SMTT(30) DEF WorkInv
<1>6. DbInv(mem.db, disk.files, archive'.published, used.skipped)
  <2>1. mem.work.ledger \in Nat /\ mem.work.ledger <= mem.db.lcl
    BY <1>1, <1>4, IdleFacts, SMTT(30) DEF DbInv
  <2>2. QED
    BY <1>1, <1>2, <1>4, <2>1, IdleFacts, SMTT(30) DEF DbInv
<1>7. /\ DOMAIN mem' = MemFields /\ mem'.work = w /\ mem'.db = mem.db /\ mem'.refs = mem.refs
      /\ mem'.shared = mem.shared /\ \A f \in KeptFields : mem'[f] = mem[f]
  BY <1>1, <1>2, IdleFacts, Zenon DEF MemFields, KeptFields
<1>8. allBuckets(archive'.has) \subseteq archive'.files
  BY <1>2, <1>4, Zenon DEF Inv
<1>9. QED
  BY <1>1, <1>2, <1>5, <1>6, <1>7, <1>8, IdleFacts, SMTT(30)
  DEF Publishing, KeptFields, MemFields, Shares

\* The row goes after the archive has had the state.
LEMMA PublishSucceedsStep == Inv /\ PublishSucceeds => Inv'
<1> SUFFICES ASSUME Inv, PublishSucceeds PROVE Publishing
  BY PublishingStep, Zenon
<1>1. Idle /\ mem.work.phase = "state" /\ mem.work.put = {"checkpoint", "well-known"}
  BY Zenon DEF PublishSucceeds, Working
<1> DEFINE n == mem.work.ledger
           q == Dequeued(mem.db.queue, n)
           db == [mem.db EXCEPT !.queue = q]
           refs == removeBuckets(mem.refs, allBuckets(mem.work.has))
<1>2. /\ mem' = [mem EXCEPT !.db = db, !.refs = refs, !.posted = TRUE, !.work = NoWork]
      /\ archive' = archive /\ used' = used
      /\ DOMAIN disk' = DOMAIN disk /\ disk'.files = disk.files /\ disk'.db = db
  BY Zenon DEF PublishSucceeds, historyPublished, Inv, Shapes
<1>3. /\ n \in DOMAIN mem.db.queue /\ mem.work.has = mem.db.queue[n] /\ n \in archive.published
  BY <1>1, IdleFacts, Zenon DEF WorkInv
<1>4. /\ DOMAIN db = {"lcl", "has", "queue"} /\ db.lcl = mem.db.lcl /\ db.has = mem.db.has
      /\ db.queue = q
  BY <1>1, IdleFacts, Zenon
<1>5. refs = loadBucketsReferencedByPublishQueue(q)
  <2>1. IsFiniteSet(DOMAIN mem.db.queue)
    BY <1>1, IdleFacts, Zenon DEF DbInv
  <2>2. QED
    BY <1>1, <1>3, <2>1, IdleFacts, RemoveRow, SMTT(30)
<1>6. DOMAIN q = DOMAIN mem.db.queue \ {n} /\ \A c \in DOMAIN q : q[c] = mem.db.queue[c]
  BY Zenon DEF Dequeued
<1> HIDE DEF db, refs, q
<1>7. IsFiniteSet(DOMAIN q)
  BY <1>1, <1>6, IdleFacts, FS_Subset, SMTT(30) DEF DbInv
<1>8. DbInv(db, disk.files, archive.published, used.skipped)
  BY <1>1, <1>3, <1>4, <1>6, <1>7, IdleFacts, SMTT(30) DEF DbInv
<1>9. /\ DOMAIN mem' = MemFields /\ mem'.work = NoWork /\ mem'.db = db /\ mem'.refs = refs
      /\ mem'.shared = mem.shared /\ \A f \in KeptFields : mem'[f] = mem[f]
  BY <1>1, <1>2, IdleFacts DEF MemFields, KeptFields
<1>10. WorkInv(NoWork, q, archive)
  BY Zenon DEF WorkInv
<1>11. QED
  BY <1>1, <1>2, <1>4, <1>5, <1>8, <1>9, <1>10, IdleFacts, SMTT(30)
  DEF Publishing, KeptFields, MemFields, Inv, Shares

\* A publish that fails leaves the row.
LEMMA PublishFailsStep == Inv /\ PublishFails => Inv'
<1> SUFFICES ASSUME Inv, PublishFails PROVE Publishing
  BY PublishingStep, Zenon
<1>1. Idle
  BY Zenon DEF PublishFails
<1>2. /\ mem' = [mem EXCEPT !.db = mem.db, !.refs = mem.refs, !.posted = TRUE, !.work = NoWork]
      /\ archive' = archive /\ DOMAIN used' = DOMAIN used /\ used'.skipped = used.skipped
      /\ DOMAIN disk' = DOMAIN disk /\ disk'.files = disk.files /\ disk'.db = mem.db
  BY Zenon DEF PublishFails, historyPublished, Inv, Shapes
<1>3. /\ DOMAIN mem' = MemFields /\ mem'.work = NoWork /\ mem'.db = mem.db /\ mem'.refs = mem.refs
      /\ mem'.shared = mem.shared /\ \A f \in KeptFields : mem'[f] = mem[f]
  BY <1>1, <1>2, IdleFacts, Zenon DEF MemFields, KeptFields
<1>4. WorkInv(NoWork, mem.db.queue, archive)
  BY Zenon DEF WorkInv
<1>5. QED
  BY <1>1, <1>2, <1>3, <1>4, IdleFacts, SMTT(30) DEF Publishing, KeptFields, MemFields, Inv, Shares

\* The posted callback takes the oldest row.
LEMMA PublishNextStep == Inv /\ PublishNext => Inv'
<1> SUFFICES ASSUME Inv, PublishNext PROVE Publishing
  BY PublishingStep, Zenon
<1> DEFINE r == publishQueuedHistory(mem)
<1>1. Idle
  BY Zenon DEF PublishNext
<1>2. mem' = [r EXCEPT !.posted = FALSE] /\ disk' = disk /\ archive' = archive /\ used' = used
  BY Zenon DEF PublishNext
<1>3. /\ DOMAIN r = MemFields /\ \A f \in MemFields \ {"work"} : r[f] = mem[f]
      /\ WorkInv(r.work, mem.db.queue, archive)
  BY <1>1, IdleFacts, PublishQueued
<1> HIDE DEF r
<1>4. /\ DOMAIN mem' = MemFields /\ mem'.work = r.work /\ mem'.db = mem.db /\ mem'.refs = mem.refs
      /\ mem'.shared = mem.shared /\ \A f \in KeptFields : mem'[f] = mem[f]
  BY <1>2, <1>3, Zenon DEF MemFields, KeptFields
<1>5. QED
  BY <1>1, <1>2, <1>3, <1>4, IdleFacts, SMTT(30) DEF Publishing, KeptFields, MemFields, Inv, Shares

-----------------------------------------------------------------------------
(* The theorems.                                                           *)

\* Every step keeps the invariant.
LEMMA NextInv == Inv /\ [Next]_vars => Inv'
<1> SUFFICES ASSUME Inv, [Next]_vars PROVE Inv'
  BY Zenon
<1>1. CASE UNCHANGED vars
  BY <1>1 DEF vars, Inv, Shapes, ProcessInv, Shares, Held, DbInv, WorkInv
<1>2. CASE PublishStep
  BY <1>2, ResolveSnapshotStep, GetArchiveStateStep, PutFilesStep, PutStateFileStep,
     PublishSucceedsStep, PublishNextStep, ZenonT(30) DEF PublishStep
<1>3. CASE Merge
  BY <1>3, FinishMergeStep, Zenon DEF Merge
<1>4. CASE CloseStep
  BY <1>4, AddBatchStep, StoreLedgerStep, CommitLedgerStep, FinishCloseStep,
     SetLastClosedLedgerStep, SMTT(30) DEF CloseStep
<1>5. CASE Restart
  BY <1>5, RestartStep, Zenon
<1>6. CASE Fault
  BY <1>6, CrashStep, ShutdownStep, PublishFailsStep, ApplyBucketsStep, SMTT(30) DEF Fault
<1>7. QED
  BY <1>1, <1>2, <1>3, <1>4, <1>5, <1>6, SMTT(30) DEF Next, Progress

\* The invariant holds of every behaviour of the bucket manager.
THEOREM Invariance == Spec => []Inv
<1>1. QED
  BY InitInv, NextInv, PTL DEF Spec

\* A node that dies at any moment finds every bucket that its database names: neither
\* forgetUnreferencedBuckets nor cleanupStaleFiles removes one too many.
THEOREM RestartSafeHolds == Spec => []RestartSafe
<1>1. QED
  BY Invariance, InvImplies, PTL

\* Every bucket that the list, a future, a running merge or a publish uses is on disk.
THEOREM InUseOnDiskHolds == Spec => []InUseOnDisk
<1>1. QED
  BY Invariance, InvImplies, PTL

\* Publishing is safe against crashes, failures of the archive and catchups.
THEOREM PublishSafeHolds == Spec => []PublishSafe
<1>1. QED
  BY Invariance, InvImplies, PTL

-----------------------------------------------------------------------------
(* The lists of the process.                                               *)

\* A merge that has ended leaves the list right.
LEMMA ResolveRight ==
    ASSUME NEW l, NEW n, NEW tasks, IsList(l), ListRight(l, n)
    PROVE  ListRight(resolveAnyReadyFutures(l, tasks), n)
<1> DEFINE r == resolveAnyReadyFutures(l, tasks)
           ends(i) == isMerging(l[i].next) /\ MergeKey(l[i].next) \notin tasks
<1>1. \A i \in Level :
          r[i] = IF ends(i) THEN [l[i] EXCEPT !.next = FutureOutput(resolve(l[i].next))] ELSE l[i]
  BY Zenon DEF resolveAnyReadyFutures, IsList
<1> HIDE DEF r
<1>2. ASSUME NEW i \in Level
      PROVE  /\ r[i].curr = l[i].curr /\ r[i].snap = l[i].snap
             /\ r[i].next # FutureClear <=> l[i].next # FutureClear
             /\ l[i].next # FutureClear => resolve(r[i].next) = resolve(l[i].next)
  <2>1. CASE ~ ends(i)
    BY <1>1, <2>1, Zenon
  <2>2. CASE ends(i)
    <3>1. l[i].next # FutureClear
      BY <2>2, Futures, Zenon
    <3> HIDE DEF ends
    <3>2. /\ r[i].curr = l[i].curr /\ r[i].snap = l[i].snap
          /\ r[i].next = FutureOutput(resolve(l[i].next))
      BY <1>1, <2>2, Zenon DEF IsList
    <3>3. QED
      BY <3>1, <3>2, Resolves, Zenon
  <2>3. QED
    BY <2>1, <2>2, Zenon
<1>3. LevelsRight(r, n)
  BY <1>2, Zenon DEF ListRight, LevelsRight
<1>4. ASSUME NEW i \in Level, i # 0 PROVE NextRight(r[i].next, n, i)
  <2>1. NextRight(l[i].next, n, i)
    BY <1>4, Zenon DEF ListRight
  <2>2. QED
    BY <1>2, <2>1, Zenon DEF NextRight
<1>5. QED
  BY <1>3, <1>4, Zenon DEF ListRight, r

\* The state that a catchup assumes can be restarted.
LEMMA ListAtRestartable ==
    ASSUME NEW n \in Ledger
    PROVE  Restartable(ListAt(n), n)
<1>1. \A i \in Level : ListAt(n)[i] = [curr |-> CurrAt(n, i), snap |-> SnapAt(n, i), next |-> FutureClear]
  BY ListAtIs, Zenon
<1>2. ASSUME NEW i \in Level
      PROVE  /\ ListAt(n)[i].curr = CurrAt(n, i) /\ ListAt(n)[i].snap = SnapAt(n, i)
             /\ ListAt(n)[i].next = FutureClear
  <2> DEFINE v == [curr |-> CurrAt(n, i), snap |-> SnapAt(n, i), next |-> FutureClear]
  <2>1. v.curr = CurrAt(n, i) /\ v.snap = SnapAt(n, i) /\ v.next = FutureClear
    BY Zenon
  <2>2. ListAt(n)[i] = v
    BY <1>1, Zenon
  <2> HIDE DEF v
  <2>3. QED
    BY <2>1, <2>2, Zenon
<1>3. QED
  BY <1>2, Zenon DEF Restartable, LevelsRight

\* A right list is the one every node has, but for its futures.
LEMMA RightIsListAt ==
    ASSUME NEW l, NEW n \in Ledger, IsList(l), ListRight(l, n)
    PROVE  prepareForPublish(l) = ListAt(n)
<1>1. ASSUME NEW i \in Level
      PROVE  [l[i] EXCEPT !.next = FutureClear] =
                [curr |-> CurrAt(n, i), snap |-> SnapAt(n, i), next |-> FutureClear]
  <2> DEFINE v == [l[i] EXCEPT !.next = FutureClear]
             w == [curr |-> CurrAt(n, i), snap |-> SnapAt(n, i), next |-> FutureClear]
             F == {"curr", "snap", "next"}
  <2>1. l[i].curr = CurrAt(n, i) /\ l[i].snap = SnapAt(n, i) /\ DOMAIN l[i] = F
    BY Zenon DEF ListRight, LevelsRight, IsList
  <2>2. /\ v = [f \in F |-> v[f]] /\ v.curr = CurrAt(n, i) /\ v.snap = SnapAt(n, i)
        /\ v.next = FutureClear
    BY <2>1, Zenon
  <2>3. /\ w = [f \in F |-> w[f]] /\ w.curr = CurrAt(n, i) /\ w.snap = SnapAt(n, i)
        /\ w.next = FutureClear
    <3>1. w.curr = CurrAt(n, i) /\ w.snap = SnapAt(n, i) /\ w.next = FutureClear
      BY Zenon
    <3>2. w = [f \in F |-> w[f]]
      BY SMT
    <3>3. QED
      BY <3>1, <3>2, Zenon
  <2> HIDE DEF v, w
  <2>4. \A f \in F : v[f] = w[f]
    BY <2>2, <2>3, Zenon
  <2>5. v = w
    BY <2>2, <2>3, <2>4, Zenon
  <2>6. QED
    BY <2>5, Zenon DEF v, w
<1>2. QED
  BY <1>1, ListAtIs, Zenon DEF prepareForPublish

-----------------------------------------------------------------------------
(* The list depends on its ledger alone.                                   *)

\* The list of the last closed ledger and the list in memory are right, and the latter
\* is a ledger ahead while one is being closed.
ListInv ==
    /\ disk.db.lcl \in Ledger /\ ListRight(disk.db.has, disk.db.lcl)
    /\ mem.up =>
          /\ mem.db.lcl \in Ledger /\ ListRight(mem.db.has, mem.db.lcl)
          /\ mem.ledger \in Ledger /\ ListRight(mem.list, mem.ledger)
          /\ mem.phase = "batched" => mem.ledger = mem.db.lcl + 1
          /\ mem.phase \notin {"batched", "assumed"} => mem.ledger = mem.db.lcl

\* The step leaves the lists and their ledgers, or commits the database.
Quiet ==
    /\ mem'.up = mem.up /\ mem'.list = mem.list /\ mem'.ledger = mem.ledger
    /\ mem'.db.lcl = mem.db.lcl /\ mem'.db.has = mem.db.has
    /\ \/ mem'.phase = mem.phase
       \/ mem.phase \in {"stored", "committed"} /\ mem'.phase \in {"idle", "committed"}
    /\ \/ disk'.db.lcl = disk.db.lcl /\ disk'.db.has = disk.db.has
       \/ mem.up /\ disk'.db.lcl = mem.db.lcl /\ disk'.db.has = mem.db.has

\* Such a step keeps the invariant.
LEMMA QuietList == ListInv /\ Quiet => ListInv'
<1> SUFFICES ASSUME ListInv, Quiet PROVE ListInv'
  BY Zenon
<1>1. disk'.db.lcl \in Ledger /\ ListRight(disk'.db.has, disk'.db.lcl)
  BY Zenon DEF ListInv, Quiet
<1>2. mem'.up => /\ mem'.db.lcl \in Ledger /\ ListRight(mem'.db.has, mem'.db.lcl)
                 /\ mem'.ledger \in Ledger /\ ListRight(mem'.list, mem'.ledger)
  BY Zenon DEF ListInv, Quiet
<1>3. /\ mem'.phase = "batched" => mem.phase = "batched"
      /\ mem'.phase \notin {"batched", "assumed"} => mem.phase \notin {"batched", "assumed"}
  BY SMT DEF Quiet
<1>4. mem'.up => /\ mem'.phase = "batched" => mem'.ledger = mem'.db.lcl + 1
                 /\ mem'.phase \notin {"batched", "assumed"} => mem'.ledger = mem'.db.lcl
  BY <1>3, Zenon DEF ListInv, Quiet
<1>5. QED
  BY <1>1, <1>2, <1>4, Zenon DEF ListInv, ListRight, LevelsRight, NextRight

\* publishQueuedHistory changes the work alone.
LEMMA PublishLeaves ==
    ASSUME NEW m, DOMAIN m = MemFields
    PROVE  LET r == publishQueuedHistory(m)
           IN  /\ DOMAIN r = MemFields /\ r.up = m.up /\ r.phase = m.phase /\ r.list = m.list
               /\ r.ledger = m.ledger /\ r.db = m.db
<1> DEFINE q == m.db.queue
           c == CHOOSE d \in DOMAIN q : \A e \in DOMAIN q : d <= e
           w == [phase |-> "resolve", ledger |-> c, has |-> q[c], files |-> {}, put |-> {}]
<1>1. publishQueuedHistory(m) = m \/ publishQueuedHistory(m) = [m EXCEPT !.work = w]
  BY Zenon DEF publishQueuedHistory
<1> HIDE DEF w
<1>2. QED
  BY <1>1, Zenon DEF MemFields

\* The process that loads a right state has a right list.
LEMMA LoadedRight ==
    ASSUME NEW db, IsList(db.has), db.lcl \in Ledger, ListRight(db.has, db.lcl)
    PROVE  LET m == Loaded(db)
           IN  /\ m.up = TRUE /\ m.phase = "idle" /\ m.db = db /\ m.ledger = db.lcl
               /\ ListRight(m.list, db.lcl)
<1> DEFINE refs == loadBucketsReferencedByPublishQueue(db.queue)
           b == [up |-> TRUE, phase |-> "idle", list |-> db.has, ledger |-> db.lcl, db |-> db,
                 shared |-> {}, tasks |-> {}, finished |-> {}, refs |-> refs,
                 work |-> NoWork, posted |-> FALSE]
           m == Loaded(db)
<1> HIDE DEF refs
<1>1. DOMAIN b = MemFields /\ b.up = TRUE /\ b.phase = "idle" /\ b.db = db
  BY Zenon DEF MemFields
<1>2. m = assumeState(b, db.has, db.lcl)
  BY Zenon DEF Loaded, refs
<1> HIDE DEF b, m
<1>3. /\ m.up = b.up /\ m.phase = b.phase /\ m.db = b.db /\ m.ledger = db.lcl
      /\ m.list = restartMerges(db.has, db.lcl)
  BY <1>1, <1>2, Zenon DEF assumeState, startMerges, MemFields
<1>4. Restartable(db.has, db.lcl) /\ db.lcl \in Nat
  BY Zenon DEF Restartable, ListRight, Ledger
<1>5. ListRight(m.list, db.lcl)
  BY <1>3, <1>4, RestartRight, Zenon
<1>6. QED
  BY <1>1, <1>3, <1>5, Zenon DEF m

\* A node starts with a right list.
LEMMA InitList == Init => ListInv
<1> SUFFICES ASSUME Init PROVE ListInv
  BY Zenon
<1> DEFINE R(n) == restartMerges(ListAt(n), n)
           H(n) == resolveAnyReadyFutures(R(n), {})
           D(n) == [lcl |-> n, has |-> H(n), queue |-> << >>]
<1>1. PICK n \in InitialLcl : disk = [files |-> allBuckets(H(n)), db |-> D(n)] /\ mem = Loaded(D(n))
  BY Zenon DEF Init
<1>2. n \in Ledger /\ n \in Nat
  BY BucketManagerAssumption, Zenon DEF Ledger
<1>3. IsList(R(n)) /\ ListRight(R(n), n)
  BY <1>2, ListAtIsList, ListAtRestartable, RestartMerges, RestartRight, Zenon
<1> HIDE DEF R
<1>4. IsList(H(n)) /\ ListRight(H(n), n)
  BY <1>3, ResolveReady, ResolveRight, Zenon
<1> HIDE DEF H
<1> DEFINE db == D(n)
<1>5. db.lcl = n /\ db.has = H(n)
  BY Zenon
<1>6. disk.db = db /\ mem = Loaded(db)
  BY <1>1, Zenon
<1> HIDE DEF db, D
<1>7. mem.phase = "idle" /\ mem.db = db /\ mem.ledger = db.lcl /\ ListRight(mem.list, db.lcl)
  BY <1>2, <1>4, <1>5, <1>6, LoadedRight, Zenon
<1>8. mem.phase \notin {"batched", "assumed"}
  BY <1>7, SMT
<1>9. mem.phase # "batched"
  BY <1>7, SMT
<1>10. QED
  BY <1>2, <1>4, <1>5, <1>6, <1>7, <1>8, <1>9, Zenon DEF ListInv

\* A process that dies leaves the committed list.
LEMMA DownList == Inv /\ ListInv /\ (Crash \/ Shutdown) => ListInv'
<1> SUFFICES ASSUME Inv, ListInv, Crash \/ Shutdown PROVE ListInv'
  BY Zenon
<1>1. mem' = Down /\ disk'.db = disk.db
  BY Zenon DEF Crash, Shutdown, Inv, Shapes
<1>2. ~ mem'.up
  BY <1>1, DownProcess, Zenon
<1>3. QED
  BY <1>1, <1>2, Zenon DEF ListInv

\* A start restarts the merges of the committed list.
LEMMA RestartList == Inv /\ ListInv /\ Restart => ListInv'
<1> SUFFICES ASSUME Inv, ListInv, Restart PROVE ListInv'
  BY Zenon
<1> DEFINE m == Loaded(disk.db)
<1>1. mem' = publishQueuedHistory(m) /\ disk'.db = disk.db
  BY Zenon DEF Restart, Inv, Shapes
<1>2. IsList(disk.db.has) /\ allBuckets(disk.db.has) \subseteq disk.files
  BY Zenon DEF Inv, DbInv
<1>3. DOMAIN m = MemFields
  BY <1>2, LoadedProcess, Zenon
<1>4. /\ m.phase = "idle" /\ m.db = disk.db /\ m.ledger = disk.db.lcl
      /\ ListRight(m.list, disk.db.lcl)
  BY <1>2, LoadedRight, Zenon DEF ListInv
<1> HIDE DEF m
<1>5. mem'.phase = "idle" /\ mem'.db = disk.db /\ mem'.ledger = disk.db.lcl /\ mem'.list = m.list
  BY <1>1, <1>3, <1>4, PublishLeaves, Zenon
<1>6. mem'.phase # "batched" /\ mem'.phase \notin {"batched", "assumed"}
  BY <1>5, SMT
<1>7. QED
  BY <1>1, <1>4, <1>5, <1>6, Zenon DEF ListInv

\* Closing a ledger adds its batch to the list of the ledger before.
LEMMA AddBatchRightStep == Inv /\ ListInv /\ AddBatch => ListInv'
<1> SUFFICES ASSUME Inv, ListInv, AddBatch PROVE ListInv'
  BY Zenon
<1> DEFINE n == mem.db.lcl + 1
<1>1. mem.up /\ mem.phase = "idle" /\ disk'.db = disk.db
  BY Zenon DEF AddBatch, Inv, Shapes
<1>2. /\ mem'.phase = "batched" /\ mem'.list = addBatch(mem.list, n) /\ mem'.db = mem.db
      /\ mem'.ledger = n
  BY Zenon DEF AddBatch, startMerges, Inv, Shapes, MemFields
<1>3. mem.phase \notin {"batched", "assumed"}
  BY <1>1, SMT
<1>4. /\ mem.db.lcl \in Ledger /\ ListRight(mem.db.has, mem.db.lcl)
      /\ mem.ledger = mem.db.lcl /\ ListRight(mem.list, mem.db.lcl)
  BY <1>1, <1>3, Zenon DEF ListInv
<1>5. n \in Ledger /\ n - 1 = mem.db.lcl
  BY <1>4, SMT DEF Ledger
<1>6. ListRight(addBatch(mem.list, n), n)
  <2> HIDE DEF n
  <2>1. ListRight(mem.list, n - 1)
    BY <1>4, <1>5, Zenon
  <2>2. QED
    BY <1>5, <2>1, AddBatchRight, Zenon
<1>7. QED
  BY <1>1, <1>2, <1>4, <1>5, <1>6, Zenon DEF ListInv

\* The list that is stored is the one in memory with its ready futures resolved.
LEMMA StoreLedgerList == Inv /\ ListInv /\ StoreLedger => ListInv'
<1> SUFFICES ASSUME Inv, ListInv, StoreLedger PROVE ListInv'
  BY Zenon
<1> DEFINE n == mem.db.lcl + 1
           l == resolveAnyReadyFutures(mem.list, mem.tasks)
<1>1. mem.phase = "batched" /\ disk' = disk
  BY Zenon DEF StoreLedger
<1>2. mem.up /\ DOMAIN mem = MemFields /\ IsList(mem.list) /\ DOMAIN mem.db = {"lcl", "has", "queue"}
  BY <1>1, Zenon DEF Inv, Shapes, ProcessInv, DbInv
<1>3. mem.ledger = n /\ mem.ledger \in Ledger /\ ListRight(mem.list, mem.ledger)
  BY <1>1, <1>2, Zenon DEF ListInv
<1>4. ListRight(l, mem.ledger)
  BY <1>2, <1>3, ResolveRight, Zenon
<1> HIDE DEF l, n
<1>5. /\ mem'.phase = "stored" /\ mem'.list = l /\ mem'.ledger = mem.ledger
      /\ mem'.db.lcl = n /\ mem'.db.has = l
  <2> DEFINE s == [mem EXCEPT !.list = l, !.phase = "stored", !.db.lcl = n, !.db.has = l]
  <2>1. mem' = IF IsCheckpoint(n) THEN queueCurrentHistory(s, n, l) ELSE s
    BY Zenon DEF StoreLedger, l, n
  <2>2. /\ DOMAIN s = MemFields /\ s.phase = "stored" /\ s.list = l /\ s.ledger = mem.ledger
        /\ DOMAIN s.db = {"lcl", "has", "queue"} /\ s.db.lcl = n /\ s.db.has = l
    BY <1>2, Zenon DEF MemFields
  <2> HIDE DEF s
  <2>3. CASE IsCheckpoint(n)
    BY <2>1, <2>2, <2>3, Zenon DEF queueCurrentHistory, MemFields
  <2>4. CASE ~ IsCheckpoint(n)
    BY <2>1, <2>2, <2>4, ZenonT(30)
  <2>5. QED
    BY <2>3, <2>4, Zenon
<1>6. mem'.phase # "batched"
  BY <1>5, SMT
<1>7. QED
  BY <1>1, <1>3, <1>4, <1>5, <1>6, Zenon DEF ListInv

\* A catchup assumes the list of its checkpoint, whose merges are restarted.
LEMMA ApplyBucketsList ==
    ASSUME NEW c \in Checkpoints
    PROVE  Inv /\ ListInv /\ ApplyBuckets(c) => ListInv'
<1> SUFFICES ASSUME Inv, ListInv, ApplyBuckets(c) PROVE ListInv'
  BY Zenon
<1> DEFINE has == ListAt(c)
           b == [mem EXCEPT !.phase = "assumed", !.shared = @ \cup allBuckets(has)]
<1>1. mem.up /\ disk'.db = disk.db /\ mem' = assumeState(b, has, c)
  BY Zenon DEF ApplyBuckets, Inv, Shapes
<1>2. c \in Ledger /\ c \in Nat
  BY CheckpointsAreLedgers, Zenon DEF Ledger
<1>3. ListRight(restartMerges(has, c), c)
  BY <1>2, ListAtIsList, ListAtRestartable, RestartRight, Zenon
<1> HIDE DEF has
<1>4. DOMAIN b = MemFields /\ b.phase = "assumed" /\ b.db = mem.db
  BY Zenon DEF Inv, Shapes, MemFields
<1> HIDE DEF b
<1>5. /\ mem'.phase = b.phase /\ mem'.db = b.db /\ mem'.ledger = c
      /\ mem'.list = restartMerges(has, c)
  BY <1>1, <1>4, Zenon DEF assumeState, startMerges, MemFields
<1>6. mem'.phase # "batched" /\ mem'.phase \in {"batched", "assumed"}
  BY <1>4, <1>5, SMT
<1>7. QED
  BY <1>1, <1>2, <1>3, <1>4, <1>5, <1>6, Zenon DEF ListInv

\* The ledger caught up to is stored with the list that was assumed.
LEMMA SetLastClosedList == Inv /\ ListInv /\ SetLastClosedLedger => ListInv'
<1> SUFFICES ASSUME Inv, ListInv, SetLastClosedLedger PROVE ListInv'
  BY Zenon
<1> DEFINE db == [mem.db EXCEPT !.lcl = mem.ledger, !.has = mem.list]
<1>1. mem.phase = "assumed" /\ disk'.db = db
  BY Zenon DEF SetLastClosedLedger, Inv, Shapes
<1>2. mem'.phase = "idle" /\ mem'.list = mem.list /\ mem'.ledger = mem.ledger /\ mem'.db = db
  BY Zenon DEF SetLastClosedLedger, Inv, Shapes, MemFields
<1>3. mem.up /\ DOMAIN mem.db = {"lcl", "has", "queue"}
  BY <1>1, Zenon DEF Inv, Shapes, ProcessInv, DbInv
<1>4. db.lcl = mem.ledger /\ db.has = mem.list
  BY <1>3, Zenon
<1> HIDE DEF db
<1>5. mem'.phase # "batched"
  BY <1>2, SMT
<1>6. mem.ledger \in Ledger /\ ListRight(mem.list, mem.ledger)
  BY <1>3, Zenon DEF ListInv
<1>7. QED
  BY <1>1, <1>2, <1>4, <1>5, <1>6, Zenon DEF ListInv

\* The remaining steps of closing a ledger, and a merge that ends, are quiet.
LEMMA CloseQuiet == Inv /\ (CommitLedger \/ FinishClose \/ Merge) => Quiet
<1> SUFFICES ASSUME Inv, CommitLedger \/ FinishClose \/ Merge PROVE Quiet
  BY Zenon
<1>0. DOMAIN mem = MemFields /\ DOMAIN disk = {"files", "db"}
  BY Zenon DEF Inv, Shapes
<1>1. CASE CommitLedger
  <2>1. mem.phase = "stored" /\ disk'.db = mem.db /\ mem' = [mem EXCEPT !.phase = "committed"]
    BY <1>0, <1>1, Zenon DEF CommitLedger
  <2>2. mem.up
    BY <2>1, Zenon DEF Inv, Shapes, ProcessInv
  <2>3. /\ mem'.up = mem.up /\ mem'.list = mem.list /\ mem'.ledger = mem.ledger
        /\ mem'.db = mem.db /\ mem'.phase = "committed"
    BY <1>0, <2>1, Zenon DEF MemFields
  <2>4. QED
    BY <2>1, <2>2, <2>3, Zenon DEF Quiet
<1>2. CASE FinishClose
  <2> DEFINE i == [mem EXCEPT !.phase = "idle"]
             m == publishQueuedHistory(i)
  <2>1. mem.phase = "committed" /\ mem' = forgetUnreferencedBuckets(m) /\ disk'.db = disk.db
    BY <1>0, <1>2, Zenon DEF FinishClose
  <2>2. /\ DOMAIN i = MemFields /\ i.up = mem.up /\ i.phase = "idle" /\ i.list = mem.list
        /\ i.ledger = mem.ledger /\ i.db = mem.db
    BY <1>0, Zenon DEF MemFields
  <2> HIDE DEF i
  <2>3. /\ DOMAIN m = MemFields /\ m.up = i.up /\ m.phase = i.phase /\ m.list = i.list
        /\ m.ledger = i.ledger /\ m.db = i.db
    BY <2>2, PublishLeaves, Zenon
  <2> HIDE DEF m
  <2>4. /\ mem'.up = m.up /\ mem'.phase = m.phase /\ mem'.list = m.list
        /\ mem'.ledger = m.ledger /\ mem'.db = m.db
    BY <2>1, <2>3, Zenon DEF forgetUnreferencedBuckets, MemFields
  <2>5. QED
    BY <2>1, <2>2, <2>3, <2>4, Zenon DEF Quiet
<1>3. CASE Merge
  <2>1. PICK key \in mem.tasks :
            /\ mem' = [mem EXCEPT !.tasks = @ \ {key}, !.shared = @ \cup {OutputOf(key)},
                                  !.finished = @ \cup {key}]
            /\ disk' = [disk EXCEPT !.files = @ \cup {OutputOf(key)}]
    BY <1>3, Zenon DEF Merge, FinishMerge
  <2>2. /\ mem'.up = mem.up /\ mem'.phase = mem.phase /\ mem'.list = mem.list
        /\ mem'.ledger = mem.ledger /\ mem'.db = mem.db
    BY <1>0, <2>1, Zenon DEF MemFields
  <2>3. disk'.db = disk.db
    BY <1>0, <2>1, Zenon
  <2>4. QED
    BY <2>2, <2>3, Zenon DEF Quiet
<1>4. QED
  BY <1>1, <1>2, <1>3, Zenon

\* And so are the works of a publish.
LEMMA PublishQuiet == Inv /\ (PublishStep \/ PublishFails) => Quiet
<1> SUFFICES ASSUME Inv, PublishStep \/ PublishFails PROVE Quiet
  BY Zenon
<1> DEFINE Same == /\ mem'.up = mem.up /\ mem'.phase = mem.phase /\ mem'.list = mem.list
                   /\ mem'.ledger = mem.ledger
<1>0. DOMAIN mem = MemFields /\ DOMAIN disk = {"files", "db"}
  BY Zenon DEF Inv, Shapes
<1>1. SUFFICES /\ Same /\ mem'.db.lcl = mem.db.lcl /\ mem'.db.has = mem.db.has
               /\ disk'.db.lcl = disk.db.lcl /\ disk'.db.has = disk.db.has
  BY Zenon DEF Quiet
<1>2. CASE ResolveSnapshot
  BY <1>0, <1>2, Zenon DEF ResolveSnapshot, MemFields
<1>3. CASE GetArchiveState
  BY <1>0, <1>3, Zenon DEF GetArchiveState, MemFields
<1>4. CASE PutFiles
  BY <1>0, <1>4, Zenon DEF PutFiles, MemFields
<1>5. CASE \E file \in {"checkpoint", "well-known"} : PutStateFile(file)
  BY <1>0, <1>5, Zenon DEF PutStateFile, MemFields
<1>6. CASE PublishSucceeds
  <2> DEFINE q == Dequeued(mem.db.queue, mem.work.ledger)
             refs == removeBuckets(mem.refs, allBuckets(mem.work.has))
             db == [mem.db EXCEPT !.queue = q]
  <2>1. Idle /\ mem' = [mem EXCEPT !.db = db, !.refs = refs, !.posted = TRUE, !.work = NoWork]
        /\ disk'.db = db
    BY <1>0, <1>6, Zenon DEF PublishSucceeds, historyPublished, Working
  <2>2. mem.db = disk.db /\ DOMAIN mem.db = {"lcl", "has", "queue"}
    BY <2>1, IdleFacts, Zenon
  <2>3. db.lcl = mem.db.lcl /\ db.has = mem.db.has
    BY <2>2, Zenon
  <2> HIDE DEF db, refs
  <2>4. Same /\ mem'.db = db
    BY <1>0, <2>1, Zenon DEF MemFields
  <2>5. QED
    BY <2>1, <2>2, <2>3, <2>4, Zenon
<1>7. CASE PublishFails
  <2>1. Idle /\ mem' = [mem EXCEPT !.db = mem.db, !.refs = mem.refs, !.posted = TRUE, !.work = NoWork]
        /\ disk'.db = mem.db
    BY <1>0, <1>7, Zenon DEF PublishFails, historyPublished
  <2>2. mem.db = disk.db
    BY <2>1, IdleFacts, Zenon
  <2>3. Same /\ mem'.db = mem.db
    BY <1>0, <2>1, Zenon DEF MemFields
  <2>4. QED
    BY <2>1, <2>2, <2>3, Zenon
<1>8. CASE PublishNext
  <2> DEFINE r == publishQueuedHistory(mem)
  <2>1. mem' = [r EXCEPT !.posted = FALSE] /\ disk' = disk
    BY <1>8, Zenon DEF PublishNext
  <2>2. /\ DOMAIN r = MemFields /\ r.up = mem.up /\ r.phase = mem.phase /\ r.list = mem.list
        /\ r.ledger = mem.ledger /\ r.db = mem.db
    BY <1>0, PublishLeaves, Zenon
  <2> HIDE DEF r
  <2>3. Same /\ mem'.db = mem.db
    BY <2>1, <2>2, Zenon DEF MemFields
  <2>4. QED
    BY <2>1, <2>3, Zenon
<1>9. QED
  BY <1>2, <1>3, <1>4, <1>5, <1>6, <1>7, <1>8, ZenonT(30) DEF PublishStep

\* Every step keeps the lists right.
LEMMA NextList == Inv /\ ListInv /\ [Next]_vars => ListInv'
<1> SUFFICES ASSUME Inv, ListInv, [Next]_vars PROVE ListInv'
  BY Zenon
<1>1. CASE UNCHANGED vars
  <2>1. Quiet
    BY <1>1, Zenon DEF vars, Quiet
  <2>2. QED
    BY <2>1, QuietList, Zenon
<1>2. CASE PublishStep \/ PublishFails
  BY <1>2, PublishQuiet, QuietList, Zenon
<1>3. CASE CommitLedger \/ FinishClose \/ Merge
  BY <1>3, CloseQuiet, QuietList, Zenon
<1>4. CASE AddBatch \/ StoreLedger \/ SetLastClosedLedger
  BY <1>4, AddBatchRightStep, StoreLedgerList, SetLastClosedList, Zenon
<1>5. CASE Restart
  BY <1>5, RestartList, Zenon
<1>6. CASE Crash \/ Shutdown
  BY <1>6, DownList, Zenon
<1>7. CASE \E c \in Checkpoints : ApplyBuckets(c)
  BY <1>7, ApplyBucketsList, Zenon
<1>8. QED
  BY <1>1, <1>2, <1>3, <1>4, <1>5, <1>6, <1>7, ZenonT(30) DEF Next, Progress, Fault, CloseStep

\* And that is what the run checks.
LEMMA ListInvImplies == Inv /\ ListInv => ListDetermined
BY RightIsListAt, Zenon DEF ListInv, ListDetermined, Inv, Shapes

\* The buckets of the list depend on its ledger alone, whatever the number of levels:
\* crashes, restarted merges, catchups and the moments at which merges end leave no trace
\* in the bucketListHash.
THEOREM ListDeterminedHolds == Spec => []ListDetermined
<1>1. Spec => []ListInv
  BY Invariance, InitList, NextList, PTL DEF Spec
<1>2. QED
  BY <1>1, Invariance, ListInvImplies, PTL
=============================================================================
