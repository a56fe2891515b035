------------------------- MODULE ReliableBroadcast --------------------------
(***************************************************************************)
(* What the duplication phase promises to the ordering phase.              *)
(*                                                                         *)
(* An origin makes one request at a time, its payload spreads to the other *)
(* nodes, and the origin announces the request, once, when FaultNum others *)
(* have confirmed that they store the payload.  An announced request may   *)
(* be put in a block although some nodes do not hold its payload yet.      *)
(***************************************************************************)
EXTENDS Config

CONSTANTS Reqs,    \* the sequence numbers handed out by assignSeq
          Origin   \* Origin[u] is the node whose makeReq made u

ASSUME OriginAssumption == Origin \in [Reqs -> Nodes]

VARIABLES held,      \* held[n]: requests whose certificate on n has req # nil
          announced  \* requests whose certificate reached DuplicatedStage

rbVars == <<held, announced>>

RBInit ==
  /\ held = [n \in Nodes |-> {}]
  /\ announced = {}

\* makeReq: called at start-up and then by verifyBallot after an announcement,
\* so a node never has two requests that are not announced.
Make(u) ==
  /\ u \notin held[Origin[u]]
  /\ \A v \in held[Origin[u]] : Origin[v] = Origin[u] => v \in announced
  /\ held' = [held EXCEPT ![Origin[u]] = @ \cup {u}]
  /\ UNCHANGED announced

\* A peer stores the payload: cert.set in DuplicateRpc or TreeDuplicateRpc.
Store(n, u) ==
  /\ u \in held[Origin[u]] \ held[n]
  /\ held' = [held EXCEPT ![n] = @ \cup {u}]
  /\ UNCHANGED announced

Holders(u) == {n \in Peers(Origin[u]) : u \in held[n]}

\* verifyBallot: it runs when a confirmation has come back, and passes when
\* the ballot has reached FaultNum.
Announce(u) ==
  /\ u \in held[Origin[u]] \ announced
  /\ Holders(u) # {}
  /\ Cardinality(Holders(u)) >= FaultNum
  /\ announced' = announced \cup {u}
  /\ UNCHANGED held

RBNext ==
  \E u \in Reqs : Make(u) \/ Announce(u) \/ \E n \in Nodes : Store(n, u)

RBSpec == RBInit /\ [][RBNext]_rbVars
=============================================================================
