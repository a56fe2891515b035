---------------------------- MODULE SystemProofs ----------------------------
(***************************************************************************)
(* The composition of the duplication phase and the ordering phase         *)
(* implements Ordering, for any number of nodes, requests and heights, any *)
(* trees and any number of failures.                                       *)
(***************************************************************************)
EXTENDS System, DuplicationProofs, FiniteSetTheorems

\* A step of the duplication phase keeps the invariant: a request of a node's own
\* appears only in MakeReq, which waits for connect.
LEMMA DupStepInv ==
  ASSUME SysInv, Next
  PROVE  SysInv'
<1> USE DupConstants
<1>1. DupInv'
  BY DupNextInv DEF SysInv
<1>2. ASSUME NEW u \in Reqs, MakeReq(u) PROVE ConnectedInv'
  BY <1>2 DEF MakeReq, SysInv, DupInv, TypeOK, ConnectedInv, Mine
<1>3. ASSUME NEW u \in Reqs, NEW q \in Nodes, Store(q, u) PROVE ConnectedInv'
  <2>1. q # Origin[u]
    BY <1>3 DEF Store, SysInv, DupInv, SentInv
  <2> QED
    BY <1>3, <2>1 DEF Store, nodeVars, SysInv, DupInv, TypeOK, ConnectedInv, Mine
<1>4. ASSUME NEW n \in Nodes, Connect(n) PROVE ConnectedInv'
  BY <1>4 DEF Connect, SysInv, DupInv, TypeOK, ConnectedInv, Mine
<1>5. ASSUME UNCHANGED <<held, connected>> PROVE ConnectedInv'
  BY <1>5 DEF SysInv, ConnectedInv, Mine
<1>6. ASSUME NEW n \in Nodes, Fail(n) PROVE UNCHANGED <<held, connected>>
  BY <1>6 DEF Fail, Kill, BackFails, ClientMissing, CallFails, Stop
<1>7. ASSUME NEW n \in Nodes, NEW q \in Nodes, NEW u \in Reqs, Confirm(n, q, u)
      PROVE  UNCHANGED <<held, connected>>
  BY <1>7 DEF Confirm, Forward, Return, ReceiveBack, nodeVars
<1>8. ASSUME NEW q \in Nodes, NEW u \in Reqs, Verify(q, u) PROVE UNCHANGED <<held, connected>>
  BY <1>8 DEF Verify, VerifyLate, VerifyFew, VerifyPasses, Confirmed
<1>9. ASSUME NEW u \in Reqs, NEW t, Duplicate(u, t) PROVE UNCHANGED <<held, connected>>
  BY <1>9 DEF Duplicate
<1>10. ConnectedInv'
  BY <1>2, <1>3, <1>4, <1>5, <1>6, <1>7, <1>8, <1>9 DEF Next, Progress, Send
<1> QED
  BY <1>1, <1>10 DEF SysInv

\* The ordering phase stops processes and leaves the rest of this phase alone.
LEMMA OrderStepFrame ==
  ASSUME SysInv, OrderStep
  PROVE  /\ up' \in [Nodes -> BOOLEAN]
         /\ UNCHANGED <<connected, making, seqCh, held, tree, rpc, confirmQ, voted, announced>>
<1>1. UNCHANGED <<connected, making, seqCh, tree, rpc, confirmQ, voted>>
  BY DEF OrderStep, dupOnly
<1>2. up \in [Nodes -> BOOLEAN]
  BY DEF SysInv, DupInv, TypeOK
<1>3. ASSUME O!BuildBlock \/ O!RecordBlock \/ O!Broadcast \/ O!LeaderSegfault
      PROVE  up' \in [Nodes -> BOOLEAN] /\ UNCHANGED <<held, announced>>
  BY <1>2, <1>3 DEF O!BuildBlock, O!RecordBlock, O!Broadcast, O!LeaderSegfault,
                    O!rbVars
<1>4. ASSUME NEW p \in O!Followers, NEW h \in O!Heights,
             O!BroadcastRacesMerge(p, h) \/ O!CallFails(p, h)
      PROVE  up' \in [Nodes -> BOOLEAN] /\ UNCHANGED <<held, announced>>
  BY <1>2, <1>4 DEF O!BroadcastRacesMerge, O!BroadcastDuring, O!CallFails, O!rbVars
<1>5. ASSUME NEW p \in O!Followers, NEW h \in O!Heights,
             O!Receiving(p, h) \/ O!Returning(p, h)
      PROVE  up' \in [Nodes -> BOOLEAN] /\ UNCHANGED <<held, announced>>
  BY <1>2, <1>5 DEF O!Receiving, O!StartReceiving, O!InsertPrepared, O!LookupCommit,
                    O!InsertCommitted, O!Reply, O!Returning, O!CountReply, O!MergeReply, O!rbVars
<1>6. ASSUME NEW n \in Nodes, O!Execute(n) \/ O!ConcurrentMapAccess(n)
      PROVE  up' \in [Nodes -> BOOLEAN] /\ UNCHANGED <<held, announced>>
  BY <1>2, <1>6 DEF O!Execute, O!ExecRecv, O!ExecNext, O!ConcurrentMapAccess, O!rbVars
<1> QED
  BY <1>1, <1>3, <1>4, <1>5, <1>6 DEF OrderStep

\* The duplication phase keeps its invariant whatever the ordering phase does.
LEMMA SysNextInv ==
  ASSUME SysInv, [SysNext]_sysVars
  PROVE  SysInv'
<1>1. CASE UNCHANGED sysVars
  <2>1. UNCHANGED vars
    BY <1>1 DEF sysVars
  <2>2. DupInv'
    BY <2>1, DupNextInv DEF SysInv
  <2> QED
    BY <2>1, <2>2 DEF SysInv, ConnectedInv, Mine, vars, nodeVars
<1>2. CASE DupStep
  BY <1>2, DupStepInv DEF DupStep
<1>3. CASE RaceStep
  <2>1. PICK u \in Reqs, q \in Nodes : VerifyPasses(q, u)
    BY <1>3 DEF RaceStep
  <2>2. DupInv'
    BY <2>1, VerifyInv DEF SysInv
  <2> QED
    BY <2>1, <2>2 DEF VerifyPasses, Confirmed, SysInv, ConnectedInv, Mine
<1>4. CASE OrderStep
  <2>1. /\ up' \in [Nodes -> BOOLEAN]
        /\ UNCHANGED <<connected, making, seqCh, held, tree, rpc, confirmQ, voted, announced>>
    BY <1>4, OrderStepFrame
  <2>2. connected' \in [Nodes -> BOOLEAN]
    BY <2>1 DEF SysInv, DupInv, TypeOK
  <2>3. DupInv'
    BY <2>1, <2>2, DupFrame DEF SysInv
  <2> QED
    BY <2>1, <2>3 DEF SysInv, ConnectedInv, Mine
<1> QED
  BY <1>1, <1>2, <1>3, <1>4 DEF SysNext

\* In the composed system, too, confirmations are votes of nodes that store the
\* payload, one request per origin is under way, and nodes connect first.
THEOREM SystemInvariant == SysSpec => []SysInv
<1>1. SysInit => SysInv
  BY DupInitInv DEF SysInit, SysInv, ConnectedInv, Mine, DupInit, FreshStart
<1>2. SysInv /\ [SysNext]_sysVars => SysInv'
  BY SysNextInv
<1> QED
  BY <1>1, <1>2, PTL DEF SysSpec

-----------------------------------------------------------------------------
(* The refinement.                                                         *)

\* The instance has copies of its own of the operators it extends.
LEMMA OrderingCopies ==
  /\ \A S : O!Cardinality(S) = Cardinality(S)
  /\ O!FaultNum = FaultNum
  /\ \A n : O!Peers(n) = Peers(n)
<1>1. \A S : O!Cardinality(S) = Cardinality(S)
  BY Zenon DEF O!Cardinality, Cardinality
<1> QED
  BY <1>1 DEF O!FaultNum, FaultNum, O!Peers, Peers

\* The ballot passes: the abstract announcement, but for the pool.
LEMMA AnnounceInOrdering ==
  ASSUME DupInv, NEW q \in Nodes, NEW u \in Reqs, VerifyPasses(q, u)
  PROVE  O!Announce(u)
<1>1. RB!Announce(u)
  BY AnnounceStep
<1>2. O!Holders(u) = RB!Holders(u)
  BY DEF O!Holders, RB!Holders, O!Peers, RB!Peers
<1>3. RB!FaultNum = FaultNum
  BY InstanceCardinality DEF RB!FaultNum, FaultNum
<1> QED
  BY <1>1, <1>2, <1>3, InstanceCardinality, OrderingCopies DEF RB!Announce, O!Announce

\* A process of the duplication phase stops for a reason that the abstraction knows.
LEMMA FailInOrdering ==
  ASSUME SysInv, NEW n \in Nodes, Fail(n), UNCHANGED orderOnly
  PROVE  O!DuplicationFails(n) \/ O!Kill(n)
<1> USE DupConstants
<1>1. ASSUME Stop(n)
      PROVE  /\ up[n] /\ up' = [up EXCEPT ![n] = FALSE]
             /\ UNCHANGED <<O!rbVars, O!poolVars, O!sendVars, O!logVars, O!flagVars,
                            O!callVars, O!execVars>>
  BY <1>1 DEF Stop, voteVars, orderOnly, O!rbVars, O!poolVars, O!sendVars, O!logVars,
              O!flagVars, O!callVars, O!execVars
<1>2. CASE Kill(n)
  <2>1. Stop(n) /\ O!Cardinality({m \in Nodes : ~up[m]}) < MaxKills
    BY <1>2, OrderingCopies DEF Kill
  <2> QED
    BY <1>1, <2>1 DEF O!Kill
<1>3. ASSUME NEW u \in Reqs, n = Origin[u] \/ n \in Handled(u), Stop(n),
             NEW q \in Nodes, ~up[q], u \in Mine(Origin[u])
      PROVE  O!DuplicationFails(n)
  <2>1. u \in held[n]
    BY <1>3 DEF SysInv, DupInv, ConfirmInv, Mine
  <2>2. q \in O!Peers(n)
    BY <1>1, <1>3 DEF O!Peers
  <2> QED
    BY <1>1, <1>3, <2>1, <2>2 DEF O!DuplicationFails
<1>4. ASSUME NEW u \in Reqs, NEW q \in Nodes, CallFails(n, q, u) PROVE O!DuplicationFails(n)
  <2>1. u \in Mine(Origin[u])
    BY <1>4 DEF CallFails, SysInv, DupInv, SentInv
  <2> QED
    BY <1>3, <1>4, <2>1 DEF CallFails
<1>5. ASSUME NEW u \in Reqs, BackFails(n, u) PROVE O!DuplicationFails(n)
  <2>1. u \in Mine(Origin[u])
    BY <1>5 DEF BackFails, AllGathered, Handled, SysInv, DupInv, SentInv
  <2> QED
    BY <1>3, <1>5, <2>1 DEF BackFails, AllGathered
<1>6. ASSUME NEW u \in Reqs, ClientMissing(n, u) PROVE O!DuplicationFails(n)
  <2>1. u \in held[n]
    BY <1>6 DEF ClientMissing, SysInv, DupInv, ConfirmInv
  <2>2. \A v \in held[n] : Origin[v] # n
    BY <1>6 DEF ClientMissing, SysInv, ConnectedInv, Mine
  <2> QED
    BY <1>1, <1>6, <2>1, <2>2 DEF ClientMissing, O!DuplicationFails
<1> QED
  BY <1>2, <1>4, <1>5, <1>6 DEF Fail

\* A step of the duplication phase is one of its abstraction, or invisible.
LEMMA DupStepInOrdering ==
  ASSUME SysInv, DupStep
  PROVE  [O!Next]_(O!vars)
<1> USE DupConstants
<1>1. /\ DupInv /\ Next /\ UNCHANGED orderOnly
      /\ torn => \A u \in announced' \ announced : Origin[u] # Leader
  BY DEF DupStep, SysInv
<1>2. UNCHANGED <<torn, O!sendVars, O!logVars, O!flagVars, O!callVars, O!execVars>>
  BY <1>1 DEF orderOnly, O!sendVars, O!logVars, O!flagVars, O!callVars, O!execVars
<1>3. ASSUME UNCHANGED <<up, held, announced, pool>> PROVE UNCHANGED O!vars
  BY <1>2, <1>3 DEF O!vars, O!rbVars, O!poolVars
<1>4. ASSUME NEW u \in Reqs, MakeReq(u) PROVE O!Next
  <2>1. O!Make(u)
    BY <1>1, <1>4 DEF MakeReq, O!Make, voteVars, DupInv, OneAtATimeInv, Mine
  <2>2. O!MakeReq(u)
    BY <1>2, <1>4, <2>1 DEF MakeReq, voteVars, O!MakeReq, O!poolVars
  <2> QED
    BY <2>2 DEF O!Next, O!Duplicating
<1>5. ASSUME NEW u \in Reqs, NEW q \in Nodes, Store(q, u) PROVE [O!Next]_(O!vars)
  <2>1. /\ up[q] /\ held' = [held EXCEPT ![q] = held[q] \cup {u}]
        /\ UNCHANGED <<up, announced, pool>> /\ u \in held[Origin[u]]
    BY <1>1, <1>5 DEF Store, nodeVars, voteVars, DupInv, SentInv, Mine
  <2>2. CASE u \in held[q]
    BY <1>1, <1>3, <2>1, <2>2 DEF DupInv, TypeOK
  <2>3. CASE u \notin held[q]
    <3>1. O!StoreReq(q, u)
      BY <1>2, <2>1, <2>3 DEF O!StoreReq, O!Store, O!poolVars
    <3> QED
      BY <3>1 DEF O!Next, O!Duplicating
  <2> QED
    BY <2>2, <2>3
<1>6. ASSUME NEW u \in Reqs, NEW q \in Nodes, Verify(q, u) PROVE [O!Next]_(O!vars)
  <2>1. CASE VerifyPasses(q, u) /\ pool' = [pool EXCEPT ![Origin[u]] = Append(pool[Origin[u]], u)]
    <3>1. O!Announce(u)
      BY <1>1, <2>1, AnnounceInOrdering
    <3>2. up[Origin[u]] /\ UNCHANGED up /\ u \in announced' \ announced
      BY <2>1 DEF VerifyPasses, Confirmed, Vote
    <3>3. O!AnnounceReq(u)
      BY <1>1, <1>2, <2>1, <3>1, <3>2 DEF O!AnnounceReq
    <3> QED
      BY <3>3 DEF O!Next, O!Duplicating
  <2>2. CASE VerifyLate(q, u) \/ VerifyFew(q, u)
    BY <1>3, <2>2 DEF VerifyLate, VerifyFew, Confirmed, voteVars
  <2> QED
    BY <1>6, <2>1, <2>2 DEF Verify
<1>7. ASSUME NEW n \in Nodes, Fail(n) PROVE O!Next
  <2>1. O!DuplicationFails(n) \/ O!Kill(n)
    BY <1>1, <1>7, FailInOrdering
  <2> QED
    BY <2>1 DEF O!Next, O!Duplicating
<1>8. ASSUME NEW n \in Nodes, Connect(n) PROVE UNCHANGED O!vars
  BY <1>3, <1>8 DEF Connect, voteVars
<1>9. ASSUME NEW n \in Nodes, NEW q \in Nodes, NEW u \in Reqs, Confirm(n, q, u)
      PROVE  UNCHANGED O!vars
  BY <1>3, <1>9 DEF Confirm, Forward, Return, ReceiveBack, nodeVars, voteVars
<1>10. ASSUME NEW u \in Reqs, NEW t, Duplicate(u, t) PROVE UNCHANGED O!vars
  BY <1>3, <1>10 DEF Duplicate, voteVars
<1> QED
  BY <1>1, <1>4, <1>5, <1>6, <1>7, <1>8, <1>9, <1>10 DEF Next, Progress, Send

\* Every step of the system is one of Ordering.
LEMMA SysRefinementStep ==
  ASSUME SysInv, [SysNext]_sysVars
  PROVE  [O!Next]_(O!vars)
<1>1. CASE UNCHANGED sysVars
  BY <1>1 DEF sysVars, vars, nodeVars, voteVars, orderOnly, O!vars, O!rbVars, O!poolVars,
              O!sendVars, O!logVars, O!flagVars, O!callVars, O!execVars
<1>2. CASE DupStep
  BY <1>2, DupStepInOrdering
<1>3. CASE RaceStep
  <2>1. PICK u \in Reqs, q \in Nodes :
          /\ Origin[u] = Leader /\ VerifyPasses(q, u)
          /\ O!BroadcastDuring(<<u>>, call) /\ UNCHANGED reply
    BY <1>3 DEF RaceStep
  <2>2. O!Announce(u)
    BY <2>1, AnnounceInOrdering DEF SysInv
  <2>3. O!BroadcastRacesAnnounce(u)
    BY <2>1, <2>2 DEF O!BroadcastRacesAnnounce
  <2> QED
    BY <2>3 DEF O!Next, O!Progress, O!Sending
<1>4. CASE OrderStep
  BY <1>4 DEF OrderStep, O!Next, O!Progress, O!Sending
<1> QED
  BY <1>1, <1>2, <1>3, <1>4 DEF SysNext

\* What is proved of Ordering holds of the whole process: with the duplication
\* phase as the code has it, the system implements the ordering phase.
THEOREM SystemRefines == SysSpec => ImplementsOrdering
<1>1. SysInit => O!OrderingInit
  BY DEF SysInit
<1>2. SysInv /\ [SysNext]_sysVars => [O!Next]_(O!vars)
  BY SysRefinementStep
<1> QED
  BY <1>1, <1>2, SystemInvariant, PTL DEF SysSpec, ImplementsOrdering, O!Spec

-----------------------------------------------------------------------------
(* What is in a block is stored.                                           *)

\* Requests announced by now are announced later.
LEMMA SeqGrows ==
  ASSUME NEW S, NEW T, S \subseteq T
  PROVE  Seq(S) \subseteq Seq(T)
OBVIOUS

\* Payloads stay, announcements stay, and FaultNum peers hold what is announced.
LEMMA AnnouncedStep ==
  ASSUME SysInv, [O!Next]_(O!vars)
  PROVE  /\ announced \subseteq announced' /\ \A n \in Nodes : held[n] \subseteq held'[n]
         /\ \A u \in announced' \ announced :
              Cardinality({n \in Peers(Origin[u]) : u \in held[n]}) >= FaultNum
<1> DEFINE Goal == /\ announced \subseteq announced'
                   /\ \A n \in Nodes : held[n] \subseteq held'[n]
                   /\ \A u \in announced' \ announced :
                        Cardinality({n \in Peers(Origin[u]) : u \in held[n]}) >= FaultNum
<1>1. held \in [Nodes -> SUBSET Reqs]
  BY DEF SysInv, DupInv, TypeOK
<1>2. ASSUME UNCHANGED O!rbVars PROVE Goal
  BY <1>2 DEF O!rbVars
<1>3. ASSUME NEW u \in Reqs, NEW n \in Nodes, O!MakeReq(u) \/ O!StoreReq(n, u) PROVE Goal
  BY <1>1, <1>3 DEF O!MakeReq, O!StoreReq, O!Make, O!Store
<1>4. ASSUME NEW u \in Reqs, O!AnnounceReq(u) \/ O!BroadcastRacesAnnounce(u) PROVE Goal
  <2>1. O!Announce(u)
    BY <1>4 DEF O!AnnounceReq, O!BroadcastRacesAnnounce
  <2>2. Cardinality({n \in Peers(Origin[u]) : u \in held[n]}) >= FaultNum
    BY <2>1, OrderingCopies DEF O!Announce, O!Holders
  <2> QED
    BY <2>1, <2>2 DEF O!Announce
<1>5. ASSUME NEW n \in Nodes,
             \/ O!DuplicationFails(n) \/ O!Execute(n) \/ O!ConcurrentMapAccess(n) \/ O!Kill(n)
      PROVE  UNCHANGED O!rbVars
  BY <1>5 DEF O!DuplicationFails, O!Execute, O!ExecRecv, O!ExecNext, O!ConcurrentMapAccess,
              O!Kill
<1>6. ASSUME \/ O!BuildBlock \/ O!RecordBlock \/ O!Broadcast \/ O!LeaderSegfault \/ O!Finished
             \/ UNCHANGED O!vars
      PROVE  UNCHANGED O!rbVars
  BY <1>6 DEF O!BuildBlock, O!RecordBlock, O!Broadcast, O!LeaderSegfault, O!Finished,
                    O!vars
<1>7. ASSUME NEW p \in O!Followers, NEW h \in O!Heights,
             \/ O!BroadcastRacesMerge(p, h) \/ O!Receiving(p, h) \/ O!Returning(p, h)
             \/ O!CallFails(p, h)
      PROVE  UNCHANGED O!rbVars
  BY <1>7 DEF O!BroadcastRacesMerge, O!Receiving, O!StartReceiving, O!InsertPrepared,
              O!LookupCommit, O!InsertCommitted, O!Reply, O!Returning, O!CountReply,
              O!MergeReply, O!CallFails
<1> HIDE DEF Goal
<1>8. Goal
  BY <1>2, <1>3, <1>4, <1>5, <1>6, <1>7, DupConstants DEF O!Next, O!Progress, O!Duplicating, O!Sending
<1> QED
  BY <1>8 DEF Goal

\* Every step of Ordering carries announced requests only.
LEMMA CarriedStep ==
  ASSUME SysInv, CarriedInv, [O!Next]_(O!vars)
  PROVE  CarriedInv'
<1> DEFINE Carried(A) == /\ pool' \in [Nodes -> Seq(A)]
                         /\ reply' \in [O!Followers -> [O!Heights -> Seq(A)]]
                         /\ block' \in Seq(Seq(A))
<1> USE DupConstants
<1>1. /\ announced \subseteq announced' /\ \A n \in Nodes : held[n] \subseteq held'[n]
      /\ \A u \in announced' \ announced :
           Cardinality({n \in Peers(Origin[u]) : u \in held[n]}) >= FaultNum
  BY AnnouncedStep
<1>2. /\ pool \in [Nodes -> Seq(announced)]
      /\ reply \in [O!Followers -> [O!Heights -> Seq(announced)]]
      /\ block \in Seq(Seq(announced))
  BY DEF CarriedInv
<1>3. /\ pool \in [Nodes -> Seq(announced')]
      /\ reply \in [O!Followers -> [O!Heights -> Seq(announced')]]
      /\ block \in Seq(Seq(announced'))
  <2>1. Seq(announced) \subseteq Seq(announced')
    BY <1>1, SeqGrows
  <2>2. Seq(Seq(announced)) \subseteq Seq(Seq(announced'))
    BY <2>1, SeqGrows
  <2> QED
    BY <1>2, <2>1, <2>2
<1>4. << >> \in Seq(announced')
  OBVIOUS
<1>5. ASSUME NEW b \in Seq(announced'), O!ClearRaces(b)
      PROVE  pool' \in [Nodes -> Seq(announced')]
  <2>1. \A k \in 1 .. Len(b) : SubSeq(b, k, Len(b)) \in Seq(announced')
    OBVIOUS
  <2>2. pool[Leader] \in Seq(announced')
    BY <1>3, OrderingAssumption
  <2>3. pool[Leader] \o b \in Seq(announced')
    BY <2>2
  <2>4. PICK s \in Seq(announced') : pool' = [pool EXCEPT ![Leader] = s]
    BY <1>4, <1>5, <2>1, <2>3 DEF O!ClearRaces
  <2>5. pool \in [Nodes -> Seq(announced')]
    BY <1>3
  <2> QED
    BY <2>4, <2>5
<1>6. ASSUME UNCHANGED <<O!poolVars, block, reply>> PROVE Carried(announced')
  BY <1>3, <1>6 DEF O!poolVars
<1>7. ASSUME NEW u \in Reqs, O!AnnounceReq(u) PROVE Carried(announced')
  <2>1. u \in announced' /\ UNCHANGED <<reply, block>>
    BY <1>7 DEF O!AnnounceReq, O!Announce, O!callVars, O!sendVars
  <2>2. Append(pool[Origin[u]], u) \in Seq(announced')
    BY <1>3, <2>1
  <2> QED
    BY <1>3, <1>7, <2>1, <2>2 DEF O!AnnounceReq
<1>8. ASSUME NEW u \in Reqs, O!BroadcastRacesAnnounce(u) PROVE Carried(announced')
  <2>1. u \in announced' /\ UNCHANGED <<reply, block>> /\ O!ClearRaces(<<u>>)
    BY <1>8 DEF O!BroadcastRacesAnnounce, O!BroadcastDuring, O!Announce
  <2>2. <<u>> \in Seq(announced')
    BY <2>1
  <2> QED
    BY <1>3, <1>5, <2>1, <2>2
<1>9. ASSUME NEW p \in O!Followers, NEW h \in O!Heights,
             O!BroadcastRacesMerge(p, h) \/ O!MergeReply(p, h)
      PROVE  Carried(announced')
  <2>1. /\ reply' = [reply EXCEPT ![p][h] = << >>] /\ UNCHANGED block
        /\ reply[p][h] \in Seq(announced')
    <3>1. reply[p][h] \in Seq(announced')
      BY <1>3
    <3> QED
      BY <1>9, <3>1 DEF O!BroadcastRacesMerge, O!BroadcastDuring, O!MergeReply, O!sendVars
  <2>2. reply' \in [O!Followers -> [O!Heights -> Seq(announced')]]
    BY <1>3, <1>4, <2>1
  <2>3. CASE O!BroadcastRacesMerge(p, h)
    BY <1>3, <1>5, <2>1, <2>2, <2>3 DEF O!BroadcastRacesMerge, O!BroadcastDuring
  <2>4. CASE O!MergeReply(p, h)
    <3>1. pool[Leader] \o reply[p][h] \in Seq(announced')
      BY <1>3, <2>1, OrderingAssumption
    <3> QED
      BY <1>3, <2>1, <2>2, <2>4, <3>1 DEF O!MergeReply
  <2> QED
    BY <1>9, <2>3, <2>4
<1>10. ASSUME NEW p \in O!Followers, NEW h \in O!Heights, O!Reply(p, h)
       PROVE  Carried(announced')
  <2>1. p \in Nodes
    BY DEF O!Followers, O!Peers
  <2>2. UNCHANGED block
    BY <1>10 DEF O!Reply, O!sendVars
  <2> QED
    BY <1>3, <1>4, <1>10, <2>1, <2>2 DEF O!Reply
<1>11. ASSUME O!Broadcast PROVE Carried(announced')
  <2>1. UNCHANGED <<block, reply>>
    BY <1>11 DEF O!Broadcast
  <2> QED
    BY <1>3, <1>4, <1>11, <2>1 DEF O!Broadcast
<1>12. ASSUME O!BuildBlock PROVE Carried(announced')
  <2>1. UNCHANGED <<pool, reply>>
    BY <1>12 DEF O!BuildBlock, O!poolVars, O!callVars
  <2>2. pool[Leader] \in Seq(announced')
    BY <1>3, OrderingAssumption
  <2> QED
    BY <1>3, <1>12, <2>1, <2>2 DEF O!BuildBlock
<1>13. ASSUME NEW u \in Reqs, NEW n \in Nodes, O!MakeReq(u) \/ O!StoreReq(n, u)
       PROVE  UNCHANGED <<O!poolVars, block, reply>>
  BY <1>13 DEF O!MakeReq, O!StoreReq, O!sendVars, O!callVars
<1>14. ASSUME NEW n \in Nodes,
              \/ O!DuplicationFails(n) \/ O!Execute(n) \/ O!ConcurrentMapAccess(n) \/ O!Kill(n)
       PROVE  UNCHANGED <<O!poolVars, block, reply>>
  BY <1>14 DEF O!DuplicationFails, O!Execute, O!ExecRecv, O!ExecNext, O!ConcurrentMapAccess,
               O!Kill, O!sendVars, O!callVars
<1>15. ASSUME O!RecordBlock \/ O!LeaderSegfault \/ O!Finished \/ UNCHANGED O!vars
       PROVE  UNCHANGED <<O!poolVars, block, reply>>
  BY <1>15 DEF O!RecordBlock, O!LeaderSegfault, O!Finished, O!vars, O!sendVars,
                     O!callVars
<1>16. ASSUME NEW p \in O!Followers, NEW h \in O!Heights,
              \/ O!StartReceiving(p, h) \/ O!InsertPrepared(p, h) \/ O!LookupCommit(p, h)
              \/ O!InsertCommitted(p, h) \/ O!CountReply(p, h) \/ O!CallFails(p, h)
       PROVE  UNCHANGED <<O!poolVars, block, reply>>
  BY <1>16 DEF O!StartReceiving, O!InsertPrepared, O!LookupCommit, O!InsertCommitted,
               O!CountReply, O!CallFails, O!sendVars, O!callVars
<1> HIDE DEF Carried
<1>17. Carried(announced')
  BY <1>6, <1>7, <1>8, <1>9, <1>10, <1>11, <1>12, <1>13, <1>14, <1>15, <1>16
     DEF O!Next, O!Progress, O!Duplicating, O!Sending, O!Receiving, O!Returning
<1>18. ASSUME NEW u \in announced'
       PROVE  Cardinality({n \in Peers(Origin[u]) : u \in held'[n]}) >= FaultNum
  <2> DEFINE H == {n \in Peers(Origin[u]) : u \in held[n]}
             G == {n \in Peers(Origin[u]) : u \in held'[n]}
  <2>1. Cardinality(H) >= FaultNum
    BY <1>1 DEF CarriedInv
  <2>2. H \subseteq G /\ G \subseteq Nodes
    BY <1>1 DEF Peers
  <2>3. /\ IsFiniteSet(G) /\ Cardinality(G) \in Nat /\ Cardinality(H) \in Nat
        /\ Cardinality(H) <= Cardinality(G)
    BY <2>2, FS_Subset, FS_CardinalityType
  <2>4. FaultNum \in Nat
    BY NodesAssumption, FS_CardinalityType, FS_EmptySet DEF FaultNum
  <2> HIDE DEF H, G
  <2>5. Cardinality(G) >= FaultNum
    BY <2>1, <2>3, <2>4
  <2> QED
    BY <2>5 DEF G
<1> QED
  BY <1>17, <1>18 DEF Carried, CarriedInv

\* The inductive invariant of the composed system: that of the duplication phase, and
\* pools, replies and blocks carry announced requests only, which FaultNum nodes
\* besides the origin store.
THEOREM SystemCorrect == SysSpec => []SystemInv
<1>1. SysInit => CarriedInv
  <2> SUFFICES ASSUME SysInit PROVE CarriedInv
    OBVIOUS
  <2>1. << >> \in Seq(announced) /\ << >> \in Seq(Seq(announced))
    OBVIOUS
  <2>2. /\ pool = [n \in Nodes |-> << >>] /\ announced = {} /\ block = << >>
        /\ reply = [p \in O!Followers |-> [h \in O!Heights |-> << >>]]
    BY DEF SysInit, DupInit, FreshStart, O!OrderingInit
  <2> QED
    BY <2>1, <2>2 DEF CarriedInv
<1>2. SysInv /\ CarriedInv /\ [SysNext]_sysVars => CarriedInv'
  BY SysRefinementStep, CarriedStep
<1>3. SysInv /\ CarriedInv => SystemInv
  BY DEF SystemInv
<1> QED
  BY <1>1, <1>2, <1>3, SystemInvariant, PTL DEF SysSpec

\* A request that is in a block is stored by FaultNum nodes besides its origin.
THEOREM BlocksStored == SysSpec => []BlocksAreStored
<1>1. SystemInv => BlocksAreStored
  <2> SUFFICES ASSUME CarriedInv, NEW i \in 1 .. Len(block), NEW u \in ToSet(block[i])
               PROVE  u \in announced
    BY DEF SystemInv, CarriedInv, BlocksAreStored
  <2>1. block[i] \in Seq(announced)
    BY DEF CarriedInv
  <2> QED
    BY <2>1 DEF ToSet
<1> QED
  BY <1>1, SystemCorrect, PTL
=============================================================================
