------------------------------- MODULE Network ------------------------------
(* Nodes, and which of them are peers of each other.                         *)
EXTENDS FiniteSets

CONSTANTS
    Nodes,
    Neighbours   \* the peers of each node

ASSUME NetworkAssumption ==
    /\ IsFiniteSet(Nodes)
    /\ Neighbours \in [Nodes -> SUBSET Nodes]
    /\ \A n \in Nodes : \A p \in Neighbours[n] : p # n /\ n \in Neighbours[p]

\* The directions of the connections: from a node, to a node.
Links == {l \in Nodes \X Nodes : l[2] \in Neighbours[l[1]]}
=============================================================================
