--------------------------- MODULE MCDuplication ---------------------------
(* Small instances of Duplication for TLC. *)
EXTENDS Duplication, Tree

CONSTANTS n1, n2, n3, n4, n5, n6, n7, a, b

OriginOne   == (a :> n1)
OriginTwice == (a :> n1) @@ (b :> n1)

\* treeDuplicate: the tree of makeTree with two children per node, over the
\* peers in this order.
BinaryTree ==
  LET ids == SelectSeq(<<n2, n3, n4, n5, n6, n7>>, LAMBDA n : n \in Nodes)
      children == MakeTree(n1, ids, 2)
  IN  [n \in Nodes |-> ToSet(children[n])]
OneTree == [o \in Nodes |-> IF o = n1 THEN {BinaryTree} ELSE {}]

\* The tree, or the flood of duplicate.
TwoModes ==
  [o \in Nodes |-> OneTree[o] \cup {[n \in Nodes |-> IF n = o THEN Peers(o) ELSE {}]}]

\* The peers make no request; what differs is their place in the tree.
Automorphisms ==
  {p \in Permutations(Peers(n1)) :
     /\ {p[c] : c \in BinaryTree[n1]} = BinaryTree[n1]
     /\ \A n \in Peers(n1) : {p[c] : c \in BinaryTree[n]} = BinaryTree[p[n]]}

\* The state in which connect has returned everywhere and nothing else happened.
ConnectedInit == FreshStart /\ connected = [n \in Nodes |-> TRUE]
ConnectedSpec == ConnectedInit /\ [][Next]_vars
=============================================================================
