-------------------------------- MODULE FBAS --------------------------------
(***************************************************************************)
(* The federated quorum system an SCP node votes in.  Slices[n] is the set   *)
(* of node sets that satisfy the quorum set of n (LocalNode::isQuorumSlice); *)
(* it is closed upwards.  Intact nodes run the code of src/scp; nothing is    *)
(* assumed of the others, which may send any statement to anyone.             *)
(***************************************************************************)
CONSTANTS Node, Intact, Slices

ASSUME SlicesAssumption ==
    /\ Intact \subseteq Node
    /\ Slices \in [Node -> SUBSET SUBSET Node]

\* The property threshold quorum sets have that SCP uses: more nodes never hurt.
ASSUME SlicesUpwardClosed ==
    \A n \in Node : \A S \in Slices[n] : \A T \in SUBSET Node :
        S \subseteq T => T \in Slices[n]

\* LocalNode::isVBlocking: a set of nodes that meets every slice of n.
isVBlocking(n, S) == \A T \in Slices[n] : S \cap T # {}

\* A quorum contains a slice of each of its intact members.
Quorum == {Q \in SUBSET Node : \A n \in Q \cap Intact : Q \in Slices[n]}

\* The quorums that can convince n: they contain a slice of n.
QuorumFor(n) == {Q \in Quorum : Q \in Slices[n]}

(***************************************************************************)
(* What SCP assumes of the network's configuration.  Any two quorums that    *)
(* convince intact nodes share an intact node (checked at run time by         *)
(* src/herder/QuorumIntersectionCheckerImpl.cpp), and the nodes that are not  *)
(* intact block no intact node.                                               *)
(***************************************************************************)
ASSUME QuorumIntersection ==
    \A m, n \in Intact : \A Q \in QuorumFor(m), R \in QuorumFor(n) :
        Q \cap R \cap Intact # {}

ASSUME IntactNotBlocked ==
    \A n \in Intact : ~ isVBlocking(n, Node \ Intact)
=============================================================================
