------------------------------- MODULE Config -------------------------------
(***************************************************************************)
(* The static configuration every process loads (zpbft/config.go,          *)
(* InitConfig): the set of processes and the fault number derived from it. *)
(***************************************************************************)
EXTENDS Integers, FiniteSets

CONSTANT Nodes     \* the keys of KConfig.Id2Node, one per server process

ASSUME NodesAssumption == IsFiniteSet(Nodes) /\ Nodes # {}

\* KConfig.FaultNum; Go's / on non-negative operands is \div.
FaultNum == (Cardinality(Nodes) - 1) \div 3

\* The keys of id2srvCli on node n: connect() skips n itself.
Peers(n) == Nodes \ {n}
=============================================================================
