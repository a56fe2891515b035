---------------------------- MODULE BroadcastTree ----------------------------
(***************************************************************************)
(* A process of the deployment broadcasts in tree mode: InitConfig; the    *)
(* loop of makeTree, one peer per step, over the keys of id2srvCli, which  *)
(* Go hands out in any order, with the busy hosts moved behind the idle    *)
(* ones; then the calls of TreeDuplicateRpc down the tree.  A node that is *)
(* called finds its children with traverseTree, one round per step.        *)
(*                                                                         *)
(* The walks of two nodes share nothing, so there is one at a time.        *)
(***************************************************************************)
EXTENDS Tree, Deployment

CONSTANT ChildNum     \* children per node; treeDuplicate passes 2

ASSUME TreeAssumption == ChildNum \in Nat \ {0}

VARIABLES root,       \* the process that broadcasts
          order,      \* treeIp as far as it has been walked
          tree,
          calls,      \* how often a node is told to broadcast
          answered,   \* how often it has
          walking,    \* the node that traverses the tree, if any
          queue       \* its tempNode

treeVars == <<order, tree>>
callVars == <<calls, answered, walking, queue>>
vars == <<root, configVars, treeVars, callVars>>

TreeInit ==
  /\ ConfigInit
  /\ root \in Processes
  /\ order = << >> /\ tree = NewTree(Id(root), ProcessIds)
  /\ calls = [n \in ProcessIds |-> IF n = Id(root) THEN 1 ELSE 0]
  /\ answered = [n \in ProcessIds |-> 0]
  /\ walking = {} /\ queue = << >>

-----------------------------------------------------------------------------
(* makeTree.                                                               *)

\* The keys of id2srvCli at the root, and the ones makeTree calls busy.
Ids  == Id2Node \ {Id(root)}
Busy == {id \in Ids : id \div 100 = 148045}

\* Mutant: the map's order is kept.
NextIdInMapOrder(id) == id \in Ids \ ToSet(order)

\* idleIp comes before busyIp, each in the order of the map.
NextId(id) ==
  /\ id \in Ids \ ToSet(order)
  /\ id \in Busy => Ids \ ToSet(order) \subseteq Busy

AddClient ==
  /\ Configured
  /\ \E id \in Ids : /\ NextId(id)
                     /\ order' = Append(order, id)
                     /\ tree' = AddNode(tree, id, ChildNum)
  /\ UNCHANGED <<root, configVars, callVars>>

Built == Configured /\ ToSet(order) = Ids

-----------------------------------------------------------------------------
(* treeDuplicate at the root, TreeDuplicateRpc at the others.              *)

\* traverseTree begins at the root of the tree, wherever it is called.
StartWalk(n) ==
  /\ Built /\ walking = {}
  /\ answered[n] < calls[n]
  /\ walking' = {n} /\ queue' = <<Id(root)>>
  /\ UNCHANGED <<root, configVars, treeVars, calls, answered>>

Found == queue # << >> /\ Head(queue) \in walking

\* Mutant: the children replace the rest of the queue.
VisitOnePath ==
  /\ queue # << >> /\ ~Found
  /\ queue' = tree.children[Head(queue)]
  /\ UNCHANGED <<root, configVars, treeVars, calls, answered, walking>>

\* A round of traverseTree: breadth first until the node is found.
Visit ==
  /\ queue # << >> /\ ~Found
  /\ queue' = Tail(queue) \o tree.children[Head(queue)]
  /\ UNCHANGED <<root, configVars, treeVars, calls, answered, walking>>

\* The node calls the children it has found, none if it is not in the tree.  Nobody
\* is its own child, which TreeDuplicateRpc would leave out.
Forward(n) ==
  /\ n \in walking
  /\ Found \/ queue = << >>
  /\ LET nextNodes == IF Found THEN tree.children[n] ELSE << >>
     IN  calls' = [m \in ProcessIds |->
           calls[m] + Cardinality({i \in DOMAIN nextNodes : nextNodes[i] = m})]
  /\ answered' = [answered EXCEPT ![n] = @ + 1]
  /\ walking' = {} /\ queue' = << >>
  /\ UNCHANGED <<root, configVars, treeVars>>

Quiet == Built /\ calls = answered

TreeNext ==
  \/ InitConfig /\ UNCHANGED <<root, treeVars, callVars>>
  \/ AddClient
  \/ \E n \in ProcessIds : StartWalk(n) \/ Forward(n)
  \/ Visit
  \/ Quiet /\ UNCHANGED vars

TreeSpec == TreeInit /\ [][TreeNext]_vars

-----------------------------------------------------------------------------
\* A broadcast reaches every node, and none twice: the children that the nodes find
\* for themselves cover the tree.
EveryNodeOnce ==
  /\ \A n \in ProcessIds : calls[n] <= 1
  /\ Quiet => \A n \in ProcessIds : calls[n] = 1

\* A busy node forwards to busy nodes only: the order of treeIp is what keeps the
\* work of forwarding on the idle ones.
BusyForwardsToBusy ==
  \A n \in Busy : ToSet(tree.children[n]) \subseteq Busy

\* The ids tell processes apart: no two share map entries, connections or a
\* place in a tree.
OneProcessPerId == \A p \in Processes : Id(p) = Id(root) => p = root

\* The processes that the file has before p.
Before(p) == {q \in Processes : q[1] < p[1] \/ (q[1] = p[1] /\ q[2] < p[2])}

\* The processes that take themselves for proposers are the first ProposerNum of
\* the file, although each looks only for itself: with ProposerNum = 1 there is
\* one leader.  Processes are counted, not the hosts they run on.
ProposersAgree ==
  Configured => (IsProposer(root) <=> Cardinality(Before(root)) < ProposerNum)

\* What the comment on the proposers says and InitConfig does not do: the first
\* ProposerNum hosts of PeerIps propose.
FirstHostsPropose ==
  Configured =>
    \A g \in Hosts \cap 1 .. ProposerNum : \E p \in Processes : p[1] = g /\ IsProposer(p)

-----------------------------------------------------------------------------
(* The inductive invariant.                                                *)

\* The first processes of the file have their ids in PeerIds, in the order of the
\* file.
PeersInv ==
  /\ host \in 1 .. Len(PeerIps) + 1
  /\ IF Configured THEN j = 0 ELSE j \in 0 .. ProcessNumArray[host]
  /\ PeerIds \in Seq(ProcessIds)
  /\ Len(PeerIds) = Cardinality(Before(<<host, j + 1>>))
  /\ \A p \in Before(<<host, j + 1>>) :
       /\ Cardinality(Before(p)) < Len(PeerIds)
       /\ PeerIds[Cardinality(Before(p)) + 1] = Id(p)
  /\ \A m \in 1 .. Len(PeerIds) :
       \E p \in Processes : PeerIds[m] = Id(p) /\ Cardinality(Before(p)) = m - 1

TreeTypeOK ==
  /\ root \in Processes
  /\ order \in Seq(Ids) /\ IsInjective(order) /\ (~Configured => order = << >>)
  /\ tree \in [children : [ProcessIds -> Seq(ProcessIds)], current : ProcessIds,
               noChild : Seq(ProcessIds)]
  /\ calls \in [ProcessIds -> 0 .. 1] /\ answered \in [ProcessIds -> 0 .. 1]
  /\ queue \in Seq(ProcessIds)

\* The nodes of the tree in the order in which they were placed.
Number == <<Id(root)>> \o order

\* The first i nodes have the first Upto(i) of the others below them.
Upto(i) == IF i * ChildNum < Len(order) THEN i * ChildNum ELSE Len(order)

Children(i) == SubSeq(order, Upto(i - 1) + 1, Upto(i))

\* The tree is the complete tree in the order of the walk: every node is full
\* before the next gets a child, and noChild are those that have none.
CompleteTree ==
  /\ \A i \in 1 .. Len(Number) : tree.children[Number[i]] = Children(i)
  /\ \A n \in ProcessIds \ ToSet(Number) : tree.children[n] = << >>
  /\ \E c \in 1 .. Len(Number) :
       /\ (c - 1) * ChildNum <= Len(order) /\ Len(order) <= c * ChildNum
       /\ tree.current = Number[c]
       /\ tree.noChild = SubSeq(Number, c + 1, Len(Number))

\* Once a busy node is placed, only busy ones follow.
IdleFirst ==
  \A k \in 1 .. Len(order) : order[k] \in Busy =>
    /\ \A l \in k + 1 .. Len(order) : order[l] \in Busy
    /\ Ids \ ToSet(order) \subseteq Busy

\* A walk has looked at the first v nodes and has the rest of their children
\* before it.
WalkInv ==
  /\ walking = {} => queue = << >>
  /\ walking # {} =>
       \E n \in ProcessIds, v \in 0 .. Len(order) :
         /\ Built /\ walking = {n} /\ answered[n] < calls[n]
         /\ \A i \in 1 .. v : Number[i] # n
         /\ queue = SubSeq(Number, v + 1, Upto(v) + 1)

\* A node is called when its parent has forwarded, and not before.
CallsInv ==
  /\ ~Built => answered = [n \in ProcessIds |-> 0]
  /\ calls[Id(root)] = 1
  /\ \A n \in ProcessIds : answered[n] <= calls[n]
  /\ \A n \in ProcessIds \ ToSet(Number) : calls[n] = 0
  /\ \A k \in 1 .. Len(order) :
       calls[order[k]] = answered[Number[(k - 1) \div ChildNum + 1]]

TreeInv ==
  PeersInv /\ TreeTypeOK /\ CompleteTree /\ IdleFirst /\ WalkInv /\ CallsInv
=============================================================================
