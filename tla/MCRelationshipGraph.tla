------------------------ MODULE MCRelationshipGraph -------------------------
(* Instances of RelationshipGraph for TLC.                                 *)
EXTENDS RelationshipGraph, TLC

CONSTANTS n1, n2, n3, owns

Row(a, b) == [src |-> a, tgt |-> b, type |-> owns]
MCKind == [n \in Nodes |-> "entity"]

\* A cycle of three rows, and the mirror image of one of them.
MCAsked == {Row(n1, n2), Row(n2, n3), Row(n3, n1), Row(n2, n1)}

Symmetry == Permutations(Requests)
=============================================================================
