-------------------------------- MODULE Tree --------------------------------
(***************************************************************************)
(* The tree that a request travels along in tree mode: makeTree of         *)
(* zpbft/tree.go.                                                          *)
(***************************************************************************)
EXTENDS Integers, SequencesExt

\* The tree before makeTree's loop, for nodes of the set ids.
NewTree(root, ids) ==
  [children |-> [n \in ids |-> << >>], current |-> root, noChild |-> << >>]

\* id becomes the next child of parent, and waits for children behind noChild.
Place(t, parent, noChild, id) ==
  [children |-> [t.children EXCEPT ![parent] = Append(@, id)],
   current  |-> parent,
   noChild  |-> Append(noChild, id)]

\* Mutant: the node that is full stays in the queue.
AddNodeAndKeep(t, id, childNum) ==
  IF Len(t.children[t.current]) < childNum \/ t.noChild = << >>
    THEN Place(t, t.current, t.noChild, id)
    ELSE Place(t, Head(t.noChild), t.noChild, id)

\* The body of makeTree's loop: fill the current node, then the node that has
\* waited longest without children.
AddNode(t, id, childNum) ==
  CASE Len(t.children[t.current]) < childNum -> Place(t, t.current, t.noChild, id)
    [] Len(t.children[t.current]) >= childNum /\ t.noChild # << >> ->
         Place(t, Head(t.noChild), Tail(t.noChild), id)
    [] OTHER -> t

\* makeTree, for the keys of id2srvCli in this order: the children of each node.
MakeTree(root, ids, childNum) ==
  LET Step(t, id) == AddNode(t, id, childNum)
  IN  FoldLeft(Step, NewTree(root, {root} \cup ToSet(ids)), ids).children
=============================================================================
