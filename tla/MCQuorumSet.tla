---------------------------- MODULE MCQuorumSet ----------------------------
(***************************************************************************)
(* Small quorum sets for QuorumSet.                                           *)
(***************************************************************************)
EXTENDS QuorumSet

QSet(t, v, i) == [threshold |-> t, validators |-> v, innerSets |-> i]

Ascending(S) == SetToSortSeq(S, LAMBDA m, n : m < n)

Descending(S) == Reverse(Ascending(S))

\* One level of inner sets, two of them at most, and one of them perhaps in a set
\* of its own.  The entries are written in an order that normalisation changes.
Nested ==
    LET pools == {S \in SUBSET Node : Cardinality(S) \in 1 .. 2}
        flat(S) == {QSet(t, Descending(S), << >>) : t \in 1 .. Cardinality(S)}
        boxed(S) == {QSet(1, << >>, <<q>>) : q \in flat(S)}
        innerLists == {<< >>}
                      \cup {<<q>> : q \in UNION {flat(S) \cup boxed(S) : S \in pools}}
                      \cup UNION {{<<q, r>> : q \in flat(S), r \in flat(T)} :
                                    S \in pools, T \in pools}
    IN  {q \in {QSet(t, Descending(S), i) : t \in 1 .. 3, S \in SUBSET Node, i \in innerLists} :
            isQuorumSetSane(q, FALSE)}

\* The quorum set of the local node is any nested one, the others are alone.
NestedQSets ==
    {[n \in Node |-> IF n = Self THEN q ELSE QSet(1, <<n>>, << >>)] : q \in Nested}

\* The quorum sets of the first three nodes are flat, and the fourth is alone.
FlatQSets ==
    LET flat == {QSet(t, Ascending(S), << >>) : t \in 1 .. 3, S \in SUBSET (1 .. 3)}
        sane == {q \in flat : isQuorumSetSane(q, FALSE)}
    IN  {[n \in Node |-> IF n = 4 THEN QSet(1, <<4>>, << >>) ELSE f[n]] : f \in [1 .. 3 -> sane]}

SmallQSets == NestedQSets \cup FlatQSets
=============================================================================
