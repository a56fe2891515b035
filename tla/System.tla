-------------------------------- MODULE System --------------------------------
(***************************************************************************)
(* A whole process: the duplication phase and the ordering phase on the    *)
(* same nodes.  They share up, held, announced and the pool: verifyBallot  *)
(* appends to it, Sending and Receiving empty it, and execute looks for    *)
(* the payloads that duplication has stored.                               *)
(*                                                                         *)
(* Ordering has the duplication phase only as ReliableBroadcast puts it;   *)
(* here its own actions stand in the place of that abstraction, and the    *)
(* system is shown to implement Ordering.                                  *)
(***************************************************************************)
EXTENDS Duplication

CONSTANTS Leader, ChanSize, MaxHeight      \* as in Ordering

ASSUME OrderingAssumption ==
  Leader \in Nodes /\ ChanSize \in Nat \ {0} /\ MaxHeight \in Nat

VARIABLES torn, sendPc, block, logged, content, prepared, committed, executed,
          prepareConfirms, commitConfirms, call, reply, execCh, aheadSet, db

O == INSTANCE Ordering

dupOnly   == <<connected, making, seqCh, tree, rpc, confirmQ, voted>>
orderOnly == <<torn, sendPc, block, logged, content, prepared, committed, executed,
               prepareConfirms, commitConfirms, call, reply, execCh, aheadSet, db>>
sysVars   == <<vars, orderOnly>>

SysInit == DupInit /\ O!OrderingInit

\* A step of the duplication phase.  The leader's verifyBallot cannot append to a
\* slice that is torn: O!LeaderSegfault is what happens instead.
DupStep ==
  /\ Next
  /\ torn => \A u \in announced' \ announced : Origin[u] # Leader
  /\ UNCHANGED orderOnly

\* verifyBallot appends a request while Broadcast clears the pool.
RaceStep ==
  \E u \in Reqs, q \in Nodes :
    /\ Origin[u] = Leader
    /\ VerifyPasses(q, u)
    /\ O!BroadcastDuring(<<u>>, call)
    /\ UNCHANGED reply

OrderStep ==
  /\ \/ O!BuildBlock \/ O!RecordBlock \/ O!Broadcast \/ O!LeaderSegfault
     \/ \E p \in O!Followers, h \in O!Heights :
          \/ O!BroadcastRacesMerge(p, h)
          \/ O!Receiving(p, h) \/ O!Returning(p, h) \/ O!CallFails(p, h)
     \/ \E n \in Nodes : O!Execute(n) \/ O!ConcurrentMapAccess(n)
  /\ UNCHANGED dupOnly

SysNext == DupStep \/ RaceStep \/ OrderStep

SysSpec == SysInit /\ [][SysNext]_sysVars

-----------------------------------------------------------------------------
(* Safety.                                                                 *)

\* With the duplication phase as it is in the place of its abstraction, the
\* system does nothing that Ordering does not allow.
ImplementsOrdering == O!Spec

\* A request that is in a block is stored by FaultNum nodes besides its origin.
BlocksAreStored ==
  \A i \in 1 .. Len(block) : \A u \in ToSet(block[i]) :
    Cardinality({n \in Peers(Origin[u]) : u \in held[n]}) >= FaultNum

\* Before it has dialled its peers a node makes no request.
ConnectedInv == \A n \in Nodes : Mine(n) # {} => connected[n]

SysInv == DupInv /\ ConnectedInv

\* The ordering phase carries announced requests only, and those are stored by
\* FaultNum nodes besides their origin.
CarriedInv ==
  /\ pool \in [Nodes -> Seq(announced)]
  /\ reply \in [O!Followers -> [O!Heights -> Seq(announced)]]
  /\ block \in Seq(Seq(announced))
  /\ \A u \in announced :
       Cardinality({n \in Peers(Origin[u]) : u \in held[n]}) >= FaultNum

\* The inductive invariant of the system.
SystemInv == SysInv /\ CarriedInv
=============================================================================
