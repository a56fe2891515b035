------------------------------- MODULE MCSystem -------------------------------
(* A small instance of System for TLC: the leader makes the only request and *)
(* floods it.                                                                *)
EXTENDS System

CONSTANTS n1, n2, n3, n4, a

OriginLeader == (a :> n1)

\* duplicate: every peer is a child of the origin.
Floods == [o \in Nodes |-> {[n \in Nodes |-> IF n = o THEN Peers(o) ELSE {}]}]

\* Peers that make no request differ in nothing but their names.
Symm == Permutations({n2, n3, n4})
=============================================================================
