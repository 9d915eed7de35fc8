----------------------------- MODULE QuorumSet -----------------------------
(***************************************************************************)
(* Quorum sets and the algorithms on them: src/scp/LocalNode.cpp and          *)
(* src/scp/QuorumSetUtils.cpp.  A quorum set is a threshold over entries,      *)
(* which are nodes (numbered, since the code sorts them) and quorum sets.      *)
(* FBAS.tla, on which the protocol modules stand, knows only the slices of a   *)
(* quorum set: the properties here say that the code's tests on quorum sets    *)
(* are the ones FBAS.tla defines on slices.                                    *)
(***************************************************************************)
EXTENDS Integers, SequencesExt

CONSTANTS
    Node,           \* positive integers
    QSets,          \* the ways nodes may choose their quorum sets: functions of the node
    Self            \* the local node

ASSUME NodeAssumption == Node \subseteq Nat \ {0} /\ Self \in Node

VARIABLES
    qset,           \* the quorum set of every node
    filtered,       \* the nodes whose statement satisfies the predicate
    pNodes,         \* those isQuorum has not ruled out
    stable          \* isQuorum's loop is done

vars == <<qset, filtered, pNodes, stable>>

UINT32_MAX == 2147483647    \* the largest integer TLC has; no quorum set has as many entries

Entries(q) == Len(q.validators) + Len(q.innerSets)

RECURSIVE forAllNodes(_)
forAllNodes(q) ==
    ToSet(q.validators) \cup UNION {forAllNodes(q.innerSets[i]) : i \in DOMAIN q.innerSets}

-----------------------------------------------------------------------------
(***************************************************************************)
(* Slices and v-blocking sets.                                                *)
(***************************************************************************)
RECURSIVE isQuorumSliceInternal(_, _)
\* thresholdLeft is unsigned: a threshold of 0 is never met.
isQuorumSliceInternal(q, S) ==
    LET hits == Cardinality({i \in DOMAIN q.validators : q.validators[i] \in S})
              + Cardinality({i \in DOMAIN q.innerSets : isQuorumSliceInternal(q.innerSets[i], S)})
    IN  hits >= (IF q.threshold = 0 THEN UINT32_MAX ELSE q.threshold)

RECURSIVE isVBlockingLate(_, _)
\* Mutant: one entry too many is asked for.
isVBlockingLate(q, S) ==
    LET hits == Cardinality({i \in DOMAIN q.validators : q.validators[i] \in S})
              + Cardinality({i \in DOMAIN q.innerSets : isVBlockingLate(q.innerSets[i], S)})
    IN  hits >= 2 + Entries(q) - q.threshold

RECURSIVE isVBlockingInternal(_, _)
isVBlockingInternal(q, S) ==
    LET hits == Cardinality({i \in DOMAIN q.validators : q.validators[i] \in S})
              + Cardinality({i \in DOMAIN q.innerSets : isVBlockingInternal(q.innerSets[i], S)})
    IN  q.threshold # 0 /\ hits > 0 /\ hits >= 1 + Entries(q) - q.threshold

\* computeWeight(m, total, threshold): m * threshold / total, rounded up.
computeWeight(m, total, threshold) == (m * threshold + total - 1) \div total

UINT64_MAX == 1000000       \* the weight of certainty; products stay exact

RECURSIVE getNodeWeight(_, _)
getNodeWeight(n, q) ==
    LET leaf == {i \in DOMAIN q.innerSets : getNodeWeight(n, q.innerSets[i]) # 0}
        first == CHOOSE i \in leaf : \A j \in leaf : i <= j
    IN  CASE n \in ToSet(q.validators) ->
                computeWeight(UINT64_MAX, Entries(q), q.threshold)
          [] n \notin ToSet(q.validators) /\ leaf # {} ->
                computeWeight(getNodeWeight(n, q.innerSets[first]), Entries(q), q.threshold)
          [] OTHER -> 0

RECURSIVE findClosestVBlocking(_, _)
\* findClosestVBlocking(qset, nodes, nullptr): what is missing to block the nodes
\* that agree.  Validators first, then inner sets by size.
findClosestVBlocking(q, nodes) ==
    LET inner == [i \in DOMAIN q.innerSets |-> findClosestVBlocking(q.innerSets[i], nodes)]
        open == SortSeq(SelectSeq(inner, LAMBDA r : r # << >>),
                        LAMBDA r1, r2 : Len(r1) < Len(r2))
        mine == SelectSeq(q.validators, LAMBDA n : n \in nodes)
        left == 1 + Entries(q) - q.threshold
                  - (Len(q.validators) - Len(mine)) - (Len(inner) - Len(open))
        res == SubSeq(mine, 1, IF Len(mine) < left THEN Len(mine) ELSE left)
        subsets == left - Len(res)
    IN  IF left <= 0 THEN << >>
        ELSE res \o FlattenSeq(SubSeq(open, 1, IF subsets < Len(open) THEN subsets ELSE Len(open)))

-----------------------------------------------------------------------------
(***************************************************************************)
(* Sanity.  The total number of nodes, at most 1000, is left out: no instance  *)
(* comes near it.                                                              *)
(***************************************************************************)
MAXIMUM_QUORUM_NESTING_LEVEL == 4

RECURSIVE validatorsOf(_)
\* Every node of a quorum set, as often as it occurs.
validatorsOf(q) ==
    q.validators \o FlattenSeq([i \in DOMAIN q.innerSets |-> validatorsOf(q.innerSets[i])])

RECURSIVE checkSanity(_, _, _)
\* checkSanity but for the duplicate nodes.
checkSanity(q, extraChecks, depth) ==
    /\ depth <= MAXIMUM_QUORUM_NESTING_LEVEL
    /\ q.threshold \in 1 .. Entries(q)
    /\ extraChecks => q.threshold >= Entries(q) - q.threshold + 1
    /\ \A i \in DOMAIN q.innerSets : checkSanity(q.innerSets[i], extraChecks, depth + 1)

isQuorumSetSane(q, extraChecks) ==
    /\ checkSanity(q, extraChecks, 0)
    /\ IsInjective(validatorsOf(q))
    /\ validatorsOf(q) # << >>

-----------------------------------------------------------------------------
(***************************************************************************)
(* Normalisation.  idToRemove = 0 stands for the null pointer.                *)
(***************************************************************************)
isSingleton(q) == q.threshold = 1 /\ Len(q.validators) = 1 /\ q.innerSets = << >>

RECURSIVE normalizeQSetSimplifyKeep(_, _)
\* Mutant: a node is removed, but still asked for.
normalizeQSetSimplifyKeep(q, idToRemove) ==
    LET v == SelectSeq(q.validators, LAMBDA n : n # idToRemove)
        inner == [i \in DOMAIN q.innerSets |-> normalizeQSetSimplifyKeep(q.innerSets[i], idToRemove)]
        merged == SelectSeq(inner, isSingleton)
        rest == SelectSeq(inner, LAMBDA r : ~ isSingleton(r))
    IN  IF q.threshold = 1 /\ v \o merged = << >> /\ Len(rest) = 1
          THEN rest[1]
          ELSE [threshold |-> q.threshold,
                validators |-> v \o [i \in DOMAIN merged |-> merged[i].validators[1]],
                innerSets |-> rest]

RECURSIVE normalizeQSetSimplify(_, _)
normalizeQSetSimplify(q, idToRemove) ==
    LET v == SelectSeq(q.validators, LAMBDA n : n # idToRemove)
        threshold == q.threshold - (Len(q.validators) - Len(v))
        inner == [i \in DOMAIN q.innerSets |-> normalizeQSetSimplify(q.innerSets[i], idToRemove)]
        merged == SelectSeq(inner, isSingleton)
        rest == SelectSeq(inner, LAMBDA r : ~ isSingleton(r))
    IN  IF threshold = 1 /\ v \o merged = << >> /\ Len(rest) = 1
          THEN rest[1]
          ELSE [threshold |-> threshold,
                validators |-> v \o [i \in DOMAIN merged |-> merged[i].validators[1]],
                innerSets |-> rest]

\* intLexicographicalCompare(l, r) < 0, where less[i] and same[i] compare the i-th
\* elements.
lexicographicalLess(l, r, less, same) ==
    \E k \in 1 .. Len(r) :
        /\ \A i \in 1 .. k - 1 : i <= Len(l) /\ same[i]
        /\ k > Len(l) \/ less[k]

RECURSIVE qSetCompareInt(_, _)
\* qSetCompareInt(l, r) < 0: by validators, then inner sets, then threshold.
qSetCompareInt(l, r) ==
    LET common(s, t) == 1 .. (IF Len(s) < Len(t) THEN Len(s) ELSE Len(t))
        lv == l.validators   rv == r.validators
        li == l.innerSets    ri == r.innerSets
    IN  \/ lexicographicalLess(lv, rv, [i \in common(lv, rv) |-> lv[i] < rv[i]],
                                       [i \in common(lv, rv) |-> lv[i] = rv[i]])
        \/ lv = rv /\ lexicographicalLess(li, ri,
                          [i \in common(li, ri) |-> qSetCompareInt(li[i], ri[i])],
                          [i \in common(li, ri) |-> li[i] = ri[i]])
        \/ lv = rv /\ li = ri /\ l.threshold < r.threshold

RECURSIVE normalizeReorderShallow(_)
\* Mutant: inner sets are ordered among themselves before they are normalised.
normalizeReorderShallow(q) ==
    LET sorted == SortSeq(q.innerSets, qSetCompareInt)
    IN  [threshold |-> q.threshold,
         validators |-> SortSeq(q.validators, LAMBDA m, n : m < n),
         innerSets |-> [i \in DOMAIN sorted |-> normalizeReorderShallow(sorted[i])]]

RECURSIVE normalizeQuorumSetReorder(_)
normalizeQuorumSetReorder(q) ==
    [threshold |-> q.threshold,
     validators |-> SortSeq(q.validators, LAMBDA m, n : m < n),
     innerSets |-> SortSeq([i \in DOMAIN q.innerSets |-> normalizeQuorumSetReorder(q.innerSets[i])],
                           qSetCompareInt)]

normalizeQSet(q, idToRemove) ==
    normalizeQuorumSetReorder(normalizeQSetSimplify(q, idToRemove))

-----------------------------------------------------------------------------
(***************************************************************************)
(* LocalNode::isQuorum, one step for each turn of its loop.                    *)
(***************************************************************************)
Init ==
    /\ qset \in QSets
    /\ filtered \in SUBSET Node
    /\ pNodes = filtered
    /\ stable = FALSE

\* Mutant: one turn of the loop is taken to be enough.
quorumFilterOnce(S) == TRUE

\* The loop's exit condition.
quorumFilterDone(S) == S = pNodes

quorumFilter ==
    LET fNodes == {n \in pNodes : isQuorumSliceInternal(qset[n], pNodes)}
    IN  /\ ~ stable
        /\ pNodes' = fNodes
        /\ stable' = quorumFilterDone(fNodes)
        /\ UNCHANGED <<qset, filtered>>

Next == quorumFilter

Spec == Init /\ [][Next]_vars

-----------------------------------------------------------------------------
(***************************************************************************)
(* What the algorithms promise.                                               *)
(***************************************************************************)
Slices(q) == {S \in SUBSET Node : isQuorumSliceInternal(q, S)}

q0 == qset[Self]

\* isQuorum answers for the largest quorum among the filtered nodes: it says yes
\* exactly when some set of them contains a slice of the local node and of each of
\* its members ("the filtered nodes V form a quorum"), as FBAS.tla and
\* BallotProtocol.tla define it.
IsQuorumRight ==
    stable => ( isQuorumSliceInternal(q0, pNodes)
                <=> \E Q \in SUBSET filtered :
                        Q \in Slices(q0) /\ \A n \in Q : Q \in Slices(qset[n]) )

\* A set is v-blocking exactly when it meets every slice (isVBlockingInternal counts
\* entries, and never looks at slices); findClosestVBlocking finds a smallest set of
\* agreeing nodes whose failure leaves no slice ("computes the distance to the set of
\* v-blocking sets"); and every slice of a quorum set that passes the extra checks of
\* isQuorumSetSane is v-blocking ("Threshold is lower than the v-blocking size
\* (< 51%)"), so that any two of its slices intersect.
VBlockingRight ==
    LET closest == ToSet(findClosestVBlocking(q0, filtered))
        blocks(S) == filtered \ S \notin Slices(q0)
    IN  /\ \A S \in SUBSET Node :
              isVBlockingInternal(q0, S) <=> \A T \in Slices(q0) : S \cap T # {}
        /\ closest \subseteq filtered
        /\ blocks(closest)
        /\ \A S \in SUBSET filtered : blocks(S) => Cardinality(closest) <= Cardinality(S)
        /\ isQuorumSetSane(q0, TRUE) => \A S, T \in Slices(q0) : S \cap T # {}

\* normalizeQSet keeps the meaning of a quorum set, and its sanity.  The normal form
\* is one: normalising again changes nothing, and the order in which entries were
\* written does not matter, so that equal quorum sets have equal hashes.
NormalizeRight ==
    LET q == normalizeQSet(q0, 0)
        swapped == [q0 EXCEPT !.validators = Reverse(@),
                              !.innerSets = Reverse([i \in DOMAIN @ |->
                                  [@[i] EXCEPT !.validators = Reverse(@)]])]
    IN  /\ Slices(q) = Slices(q0)
        /\ isQuorumSetSane(q, FALSE)
        /\ normalizeQSet(q, 0) = q
        /\ normalizeQSet(swapped, 0) = q

RECURSIVE positiveThresholds(_)
positiveThresholds(q) ==
    q.threshold > 0 /\ \A i \in DOMAIN q.innerSets : positiveThresholds(q.innerSets[i])

\* The leader election (updateRoundLeaders) works with the quorum set without the
\* local node.  Removing it leaves a quorum set of the others that never asks for less
\* than the original asks for besides the local node, and for no more either unless
\* some threshold drops to 0.  A node has weight in the election exactly when it is in
\* the quorum set, and weight is never more than certainty.
LeaderElectionRight ==
    LET q == normalizeQSet(q0, Self)
    IN  /\ forAllNodes(q) = forAllNodes(q0) \ {Self}
        /\ \A S \in SUBSET (Node \ {Self}) :
              /\ S \in Slices(q) => S \cup {Self} \in Slices(q0)
              /\ S \cup {Self} \in Slices(q0) /\ positiveThresholds(q) /\ S # {} => S \in Slices(q)
        /\ \A n \in Node : /\ getNodeWeight(n, q0) > 0 <=> n \in forAllNodes(q0)
                           /\ getNodeWeight(n, q0) <= UINT64_MAX
=============================================================================
