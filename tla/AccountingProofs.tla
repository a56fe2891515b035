-------------------------- MODULE AccountingProofs --------------------------
(***************************************************************************)
(* What the ordering phase does once: a height is queued and run once, a   *)
(* reply is counted once, a request is reported once.  All of it rests on  *)
(* OrderingInv, which OrderingProofs shows to hold, for every number of    *)
(* nodes, requests, blocks and kills.                                      *)
(***************************************************************************)
EXTENDS OrderingProofs, FiniteSetTheorems

USE DEF Followers, Peers, Heights, Heights0

-----------------------------------------------------------------------------
(* A height is queued once.                                                *)

\* Sending a height that the channel does not hold keeps its heights distinct.
LEMMA InjectiveAppend ==
  ASSUME NEW S, NEW s \in Seq(S), NEW e \in S, IsInjective(s), e \notin ToSet(s)
  PROVE  IsInjective(Append(s, e))
<1> DEFINE t == Append(s, e)
<1>1. /\ DOMAIN s = 1 .. Len(s) /\ DOMAIN t = 1 .. Len(s) + 1 /\ Len(s) \in Nat
      /\ \A i \in 1 .. Len(s) : t[i] = s[i]
      /\ t[Len(s) + 1] = e
  OBVIOUS
<1>2. \A i \in DOMAIN t : i \in DOMAIN s \/ i = Len(s) + 1
  BY <1>1
<1>3. \A i \in DOMAIN s : s[i] # e
  BY DEF ToSet
<1> HIDE DEF t
<1>4. IsInjective(t)
  BY <1>1, <1>2, <1>3 DEF IsInjective
<1> QED
  BY <1>4 DEF t

\* What is received from such a channel is not left in it.
LEMMA InjectiveTail ==
  ASSUME NEW S, NEW s \in Seq(S), s # << >>, IsInjective(s)
  PROVE  IsInjective(Tail(s)) /\ Head(s) \notin ToSet(Tail(s))
<1> DEFINE t == Tail(s)
<1>1. /\ DOMAIN s = 1 .. Len(s) /\ Len(s) \in Nat /\ Len(s) >= 1 /\ Head(s) = s[1]
      /\ DOMAIN t = 1 .. (Len(s) - 1)
      /\ \A i \in 1 .. (Len(s) - 1) : t[i] = s[i + 1]
  OBVIOUS
<1> HIDE DEF t
<1>2. \A i, j \in DOMAIN t : t[i] = t[j] => i = j
  <2> TAKE i, j \in DOMAIN t
  <2>1. i + 1 \in DOMAIN s /\ j + 1 \in DOMAIN s /\ t[i] = s[i + 1] /\ t[j] = s[j + 1]
    BY <1>1
  <2>2. t[i] = t[j] => i + 1 = j + 1
    BY <2>1 DEF IsInjective
  <2> QED
    BY <1>1, <2>2
<1>3. \A i \in DOMAIN t : t[i] # s[1]
  <2> TAKE i \in DOMAIN t
  <2>1. i + 1 \in DOMAIN s /\ 1 \in DOMAIN s /\ t[i] = s[i + 1] /\ i + 1 # 1
    BY <1>1
  <2> QED
    BY <2>1 DEF IsInjective
<1>4. IsInjective(t) /\ Head(s) \notin ToSet(t)
  BY <1>1, <1>2, <1>3 DEF IsInjective, ToSet
<1> QED
  BY <1>4 DEF t

\* At every node, what is queued has its executed flag.
LEMMA PendingExecuted ==
  ASSUME OrderingInv, NEW n \in Nodes
  PROVE  Pending(n) \subseteq executed[n]
<1>1. CASE n = Leader
  BY <1>1 DEF OrderingInv, LeaderInv
<1>2. CASE n \in Followers
  BY <1>2 DEF OrderingInv, FollowerInv, FollowerExecInv
<1> QED
  BY <1>1, <1>2

\* A step that leaves channel, set and database of n alone.
LEMMA RunOnceFrame ==
  ASSUME NEW n \in Nodes, RunOnceInv(n), UNCHANGED <<execCh[n], aheadSet[n], db[n]>>,
         executed[n] \subseteq executed'[n]
  PROVE  RunOnceInv(n)'
BY DEF RunOnceInv, Pending

\* A height is queued only when its executed flag was not set.
LEMMA RunOnceQueue ==
  ASSUME OrderingInv, NEW n \in Nodes, RunOnceInv(n), NEW k \in Heights0, NEW ready,
         QueueIf(n, k, ready), ready => k \notin executed[n], UNCHANGED <<aheadSet, db>>
  PROVE  RunOnceInv(n)'
<1>1. /\ execCh \in [Nodes -> Seq(Heights0)] /\ executed \in [Nodes -> SUBSET Heights0]
      /\ execCh[n] \in Seq(Heights0)
  BY DEF OrderingInv, TypeOK, ExecTypeOK, LogTypeOK
<1>2. CASE ~ready
  BY <1>2, RunOnceFrame DEF QueueIf
<1>3. CASE ready
  <2>1. /\ execCh'[n] = Append(execCh[n], k)
        /\ executed'[n] = executed[n] \cup {k}
        /\ execCh[n] \in Seq(Heights0) /\ k \in Heights0
    BY <1>1, <1>3 DEF QueueIf
  <2>2. k \notin Pending(n) /\ k \notin 1 .. Len(db[n])
    BY <1>3, PendingExecuted DEF RunOnceInv
  <2>3. ToSet(execCh'[n]) = ToSet(execCh[n]) \cup {k}
    <3> HIDE DEF Heights0
    <3> QED
      BY <2>1, ToSetAppend
  <2>4. IsInjective(execCh'[n])
    <3>1. IsInjective(execCh[n]) /\ k \notin ToSet(execCh[n])
      BY <2>2 DEF RunOnceInv, Pending
    <3>2. IsInjective(Append(execCh[n], k))
      BY <1>1, <3>1, InjectiveAppend
    <3> QED
      BY <2>1, <3>2
  <2>5. Pending(n)' = Pending(n) \cup {k}
    BY <2>3 DEF Pending
  <2> QED
    BY <2>1, <2>2, <2>3, <2>4, <2>5 DEF RunOnceInv, Pending
<1> QED
  BY <1>2, <1>3

\* The range loop moves a height or drops one that has run; the inner loop runs
\* one that is in the set and nowhere else.
LEMMA RunOnceExecute ==
  ASSUME OrderingInv, NEW n \in Nodes, RunOnceInv(n), Execute(n)
  PROVE  RunOnceInv(n)'
<1>1. /\ execCh \in [Nodes -> Seq(Heights0)] /\ execCh[n] \in Seq(Heights0)
      /\ aheadSet \in [Nodes -> SUBSET Heights0]
      /\ db \in [Nodes -> Seq(Seq(Reqs))] /\ db[n] \in Seq(Seq(Reqs)) /\ Len(db[n]) \in Nat
      /\ UNCHANGED executed
  BY DEF OrderingInv, TypeOK, ExecTypeOK, Execute, ExecRecv, ExecNext, logVars
<1>2. CASE ExecRecv(n)
  <2> DEFINE h == Head(execCh[n])
  <2>1. /\ execCh[n] # << >> /\ execCh'[n] = Tail(execCh[n]) /\ UNCHANGED db
        /\ \/ UNCHANGED aheadSet
           \/ aheadSet'[n] = aheadSet[n] \cup {h}
    BY <1>1, <1>2 DEF ExecRecv
  <2>2. /\ IsInjective(execCh'[n]) /\ h \notin ToSet(execCh'[n])
        /\ h \in ToSet(execCh[n]) /\ ToSet(execCh'[n]) \subseteq ToSet(execCh[n])
    BY <1>1, <2>1, InjectiveTail, ToSetTail DEF RunOnceInv
  <2> HIDE DEF h
  <2> QED
    BY <1>1, <2>1, <2>2 DEF RunOnceInv, Pending
<1>3. CASE ExecNext(n)
  <2> DEFINE h == Len(db[n]) + 1
  <2>1. /\ h \in aheadSet[n] /\ UNCHANGED execCh /\ aheadSet'[n] = aheadSet[n] \ {h}
        /\ db' = db \/ db' = [db EXCEPT ![n] = Append(@, content[n][h])]
    BY <1>1, <1>3 DEF ExecNext, CurExecHeight
  <2>2. CASE db' = db
    BY <1>1, <2>1, <2>2 DEF RunOnceInv, Pending
  <2>3. CASE db' = [db EXCEPT ![n] = Append(@, content[n][h])]
    <3>1. db'[n] = Append(db[n], content[n][h])
      BY <1>1, <2>3
    <3>2. Len(db'[n]) = h
      BY <1>1, <3>1
    <3>3. \A i \in 1 .. h : i = h \/ i \in 1 .. Len(db[n])
      BY <1>1
    <3>4. h \in executed[n]
      BY <2>1, PendingExecuted DEF Pending
    <3> HIDE DEF h
    <3> QED
      BY <1>1, <2>1, <3>2, <3>3, <3>4 DEF RunOnceInv, Pending
  <2> QED
    BY <2>1, <2>2, <2>3
<1> QED
  BY <1>2, <1>3 DEF Execute

\* n may queue height k, which it has not queued before.
Queueing(n, k) ==
  /\ \E S : QueueIf(n, k, k \in S \ executed[n])
  /\ UNCHANGED <<aheadSet, db>>

\* How a step can bear on the flags, the channel and the database of a node.
LEMMA QueueKinds ==
  ASSUME TypeOK, [Next]_vars
  PROVE  \/ UNCHANGED execVars /\ \A n \in Nodes : executed'[n] \subseteq executed[n]
         \/ \E n \in Nodes, k \in Heights0 : Queueing(n, k)
         \/ \E n \in Nodes : Execute(n)
<1> USE Constants
<1>1. executed \in [Nodes -> SUBSET Heights0]
  BY DEF TypeOK, LogTypeOK
<1>2. CASE Elsewhere \/ BuildBlock \/ Broadcasting
  BY <1>2 DEF Elsewhere, BuildBlock, Broadcasting, Broadcast,
              BroadcastRacesAnnounce, BroadcastRacesMerge, BroadcastDuring, logVars
<1>3. CASE RecordBlock
  BY <1>1, <1>3 DEF RecordBlock, PutLog
<1>4. ASSUME NEW p \in Followers, NEW h \in Heights,
             StartReceiving(p, h) \/ Reply(p, h) \/ MergeReply(p, h)
      PROVE  UNCHANGED <<execVars, executed>>
  BY <1>4 DEF StartReceiving, Reply, MergeReply, logVars
<1>5. ASSUME NEW p \in Followers, NEW h \in Heights,
             InsertPrepared(p, h) \/ InsertCommitted(p, h)
      PROVE  UNCHANGED execVars /\ \A n \in Nodes : executed'[n] \subseteq executed[n]
  BY <1>1, <1>5 DEF InsertPrepared, InsertCommitted, PutLog
<1>6. ASSUME NEW p \in Followers, NEW h \in Heights, LookupCommit(p, h)
      PROVE  UNCHANGED <<execVars, executed>> \/ Queueing(p, h - 1)
  <2>1. UNCHANGED <<aheadSet, db>>
    BY <1>6 DEF LookupCommit
  <2>2. CASE QueueIf(p, h - 1, h - 1 \in prepared[p] \ executed[p])
    BY <2>1, <2>2, Zenon DEF Queueing
  <2>3. CASE UNCHANGED <<executed, execCh>>
    BY <2>1, <2>3 DEF execVars
  <2> QED
    BY <1>6, <2>2, <2>3 DEF LookupCommit
<1>7. ASSUME NEW p \in Followers, NEW h \in Heights, CountReply(p, h)
      PROVE  Queueing(Leader, h - 1)
  <2>1. UNCHANGED <<aheadSet, db>>
    BY <1>7 DEF CountReply
  <2>2. PICK S : QueueIf(Leader, h - 1, h - 1 \in S \ executed[Leader])
    BY <1>7, Zenon DEF CountReply
  <2> QED
    BY <2>1, <2>2, Zenon DEF Queueing
<1>8. \A h \in Heights : h - 1 \in Heights0
  OBVIOUS
<1> QED
  BY <1>2, <1>3, <1>4, <1>5, <1>6, <1>7, <1>8, StepKinds DEF Receiving

\* Every step keeps the invariant of the queue.
LEMMA RunOnceNext ==
  ASSUME OrderingInv, OrderingInv', \A n \in Nodes : RunOnceInv(n), [Next]_vars
  PROVE  \A n \in Nodes : RunOnceInv(n)'
<1> SUFFICES ASSUME NEW n \in Nodes PROVE RunOnceInv(n)'
  OBVIOUS
<1>1. executed[n] \subseteq executed'[n]
  BY FrozenStep
<1>2. CASE UNCHANGED execVars
  BY <1>1, <1>2, RunOnceFrame DEF execVars
<1>3. ASSUME NEW m \in Nodes, NEW k \in Heights0, Queueing(m, k) PROVE RunOnceInv(n)'
  <2> DEFINE ready(S) == k \in S \ executed[m]
  <2>4. PICK S : QueueIf(m, k, ready(S))
    BY <1>3 DEF Queueing
  <2>3. (ready(S) => k \notin executed[m]) /\ UNCHANGED <<aheadSet, db>>
    BY <1>3 DEF Queueing
  <2> HIDE DEF ready
  <2>1. CASE n = m
    BY <2>4, <2>1, <2>3, RunOnceQueue
  <2>2. CASE n # m
    <3>1. UNCHANGED execCh[n]
      BY <2>4, <2>2, QueueIfOthers DEF OrderingInv, TypeOK
    <3> QED
      BY <1>1, <2>3, <3>1, RunOnceFrame
  <2> QED
    BY <2>1, <2>2
<1>4. ASSUME NEW m \in Nodes, Execute(m) PROVE RunOnceInv(n)'
  <2>1. CASE n = m
    BY <1>4, <2>1, RunOnceExecute
  <2>2. CASE n # m
    <3>1. UNCHANGED <<execCh[n], aheadSet[n], db[n]>>
      BY <1>4, <2>2 DEF Execute, ExecRecv, ExecNext, OrderingInv, TypeOK, ExecTypeOK
    <3> QED
      BY <1>1, <3>1, RunOnceFrame
  <2> QED
    BY <2>1, <2>2
<1> QED
  BY <1>2, <1>3, <1>4, QueueKinds DEF OrderingInv

\* Nothing is queued at the start.
LEMMA RunOnceInit ==
  ASSUME OrderingInit, NEW n \in Nodes
  PROVE  RunOnceInv(n)
<1>1. execCh[n] = << >> /\ aheadSet[n] = {} /\ db[n] = << >>
  BY DEF OrderingInit
<1> QED
  BY <1>1 DEF RunOnceInv, Pending, IsInjective, ToSet

\* The invariant of the queue holds throughout.
LEMMA RunOnce == Spec => [](\A n \in Nodes : RunOnceInv(n))
<1>1. OrderingInit => \A n \in Nodes : RunOnceInv(n)
  BY RunOnceInit
<1>2. OrderingInv /\ OrderingInv' /\ (\A n \in Nodes : RunOnceInv(n)) /\ [Next]_vars
        => (\A n \in Nodes : RunOnceInv(n))'
  BY RunOnceNext
<1> QED
  BY <1>1, <1>2, InvCorrect, PTL DEF Spec

\* No height is queued twice, or again after its block has run.
THEOREM QueueOnce == Spec => []QueuedOnce
<1>1. (\A n \in Nodes : RunOnceInv(n)) => QueuedOnce
  BY DEF RunOnceInv, QueuedOnce
<1> QED
  BY <1>1, RunOnce, PTL

\* The range loop takes the head out of the channel and nothing else.
LEMMA ToSetReceive ==
  ASSUME NEW S, NEW s \in Seq(S), s # << >>
  PROVE  ToSet(s) = ToSet(Tail(s)) \cup {Head(s)}
<1> DEFINE t == Tail(s)
<1>1. /\ DOMAIN s = 1 .. Len(s) /\ Len(s) \in Nat /\ Len(s) >= 1 /\ Head(s) = s[1]
      /\ DOMAIN t = 1 .. (Len(s) - 1)
      /\ \A i \in 1 .. (Len(s) - 1) : t[i] = s[i + 1]
  OBVIOUS
<1>2. \A i \in DOMAIN s : i = 1 \/ (i - 1 \in DOMAIN t /\ s[i] = t[i - 1])
  BY <1>1
<1>3. \A i \in DOMAIN t : i + 1 \in DOMAIN s /\ t[i] = s[i + 1]
  BY <1>1
<1> HIDE DEF t
<1>4. ToSet(s) \subseteq ToSet(t) \cup {Head(s)}
  BY <1>1, <1>2 DEF ToSet
<1>5. ToSet(t) \cup {Head(s)} \subseteq ToSet(s)
  BY <1>1, <1>3 DEF ToSet
<1> QED
  BY <1>4, <1>5 DEF t

\* The height that is due runs, when all its payloads are there: its log is fit to
\* run.
LEMMA DueRuns ==
  ASSUME OrderingInv, NEW n \in Nodes, ExecNext(n), NEW h, h = Len(db[n]) + 1,
         ToSet(content[n][h]) \subseteq held[n]
  PROVE  Len(db'[n]) = h
<1>1. /\ db \in [Nodes -> Seq(Seq(Reqs))] /\ Len(db[n]) \in Nat /\ db[n] \in Seq(Seq(Reqs))
      /\ content \in [Nodes -> [Heights0 -> Seq(Reqs)]]
  BY DEF OrderingInv, TypeOK, ExecTypeOK, LogTypeOK
<1>2. h \in Pending(n)
  BY DEF ExecNext, CurExecHeight, Pending
<1>3. h \in logged[n] \cap prepared[n] \cap committed[n]
  <2>1. CASE n = Leader
    BY <1>2, <2>1 DEF OrderingInv, LeaderInv
  <2>2. CASE n \in Followers
    BY <1>2, <2>2 DEF OrderingInv, FollowerInv, FollowerLogInv, FollowerExecInv, LoggedAsSent
  <2> QED
    BY <2>1, <2>2
<1>4. db'[n] = Append(db[n], content[n][h])
  BY <1>1, <1>3 DEF ExecNext, CurExecHeight
<1> QED
  BY <1>1, <1>4

\* How a height can leave the queue of a node.
LEMMA QueueLeaves ==
  ASSUME OrderingInv, NEW n \in Nodes, [Next]_vars,
         NEW h \in Pending(n), h \notin Pending(n)',
         ToSet(content[n][h]) \subseteq held[n]
  PROVE  h <= Len(db'[n])
<1> USE Constants
<1>1. /\ execCh \in [Nodes -> Seq(Heights0)] /\ aheadSet \in [Nodes -> SUBSET Heights0]
      /\ db \in [Nodes -> Seq(Seq(Reqs))] /\ Len(db[n]) \in Nat
      /\ execCh[n] \in Seq(Heights0) /\ h \in Heights0
  <2>1. \A s \in Seq(Heights0) : ToSet(s) \subseteq Heights0
    BY DEF ToSet
  <2> QED
    BY <2>1 DEF OrderingInv, TypeOK, ExecTypeOK, Pending
<1>2. ~UNCHANGED execVars
  BY DEF Pending, execVars
<1>3. ASSUME NEW m \in Nodes, NEW k \in Heights0, Queueing(m, k) PROVE FALSE
  <2> DEFINE ready(S) == k \in S \ executed[m]
  <2>1. PICK S : QueueIf(m, k, ready(S))
    BY <1>3 DEF Queueing
  <2> HIDE DEF ready
  <2>2. UNCHANGED aheadSet
    BY <1>3 DEF Queueing
  <2>3. UNCHANGED execCh[n] \/ execCh'[n] = Append(execCh[n], k)
    BY <1>1, <2>1 DEF QueueIf
  <2>4. ToSet(execCh[n]) \subseteq ToSet(execCh'[n])
    <3>1. CASE UNCHANGED execCh[n]
      BY <3>1
    <3>2. CASE execCh'[n] = Append(execCh[n], k)
      <4>1. execCh[n] \in Seq(Heights0) /\ k \in Heights0
        BY <1>1
      <4> HIDE DEF Heights0
      <4>2. ToSet(Append(execCh[n], k)) = ToSet(execCh[n]) \cup {k}
        BY <4>1, ToSetAppend
      <4> QED
        BY <3>2, <4>2
    <3> QED
      BY <2>3, <3>1, <3>2
  <2> QED
    BY <2>2, <2>4 DEF Pending
<1>4. ASSUME NEW m \in Nodes, Execute(m) PROVE h <= Len(db'[n])
  <2>1. n = m
    BY <1>1, <1>4 DEF Execute, ExecRecv, ExecNext, Pending
  <2>2. CASE ExecRecv(n)
    <3>1. /\ execCh[n] # << >> /\ execCh'[n] = Tail(execCh[n])
          /\ \/ Head(execCh[n]) < Len(db[n]) + 1 /\ UNCHANGED aheadSet
             \/ aheadSet'[n] = aheadSet[n] \cup {Head(execCh[n])}
          /\ UNCHANGED db
      BY <1>1, <2>2 DEF ExecRecv, CurExecHeight
    <3>2. ToSet(execCh[n]) = ToSet(execCh'[n]) \cup {Head(execCh[n])}
      <4>1. execCh[n] \in Seq(Heights0)
        BY <1>1
      <4> HIDE DEF Heights0
      <4>2. ToSet(execCh[n]) = ToSet(Tail(execCh[n])) \cup {Head(execCh[n])}
        BY <3>1, <4>1, ToSetReceive
      <4> QED
        BY <3>1, <4>2
    <3>3. h = Head(execCh[n]) /\ h < Len(db[n]) + 1
      BY <3>1, <3>2 DEF Pending
    <3>4. h \in Nat
      BY <1>1
    <3> QED
      BY <1>1, <3>1, <3>3, <3>4
  <2>3. CASE ExecNext(n)
    <3>1. h = Len(db[n]) + 1
      BY <1>1, <2>3 DEF ExecNext, CurExecHeight, Pending
    <3>2. Len(db'[n]) = h
      BY <2>3, <3>1, DueRuns
    <3> QED
      BY <1>1, <3>1, <3>2
  <2> QED
    BY <1>4, <2>1, <2>2, <2>3 DEF Execute
<1> QED
  BY <1>2, <1>3, <1>4, QueueKinds DEF OrderingInv

\* What is queued runs when its turn comes, unless a payload has not arrived.
THEOREM QueuedRuns == Spec => QueuedRunsOrLacksPayload
<1>1. OrderingInv /\ [Next]_vars
        => [\A n \in Nodes : \A h \in Pending(n) \ Pending(n)' :
              h <= Len(db'[n]) \/ ~(ToSet(content[n][h]) \subseteq held[n])]_vars
  BY QueueLeaves
<1> QED
  BY <1>1, InvCorrect, PTL DEF Spec, QueuedRunsOrLacksPayload

-----------------------------------------------------------------------------
(* The leader's lists are as long as the calls say.                        *)

\* The fault number, and the followers that can be counted.
LEMMA Quorums ==
  /\ FaultNum \in Nat
  /\ IsFiniteSet(Followers)
  /\ \A S \in SUBSET Followers : IsFiniteSet(S) /\ Cardinality(S) \in Nat
<1>1. Cardinality(Nodes) \in Nat /\ Cardinality(Nodes) # 0
  BY NodesAssumption, FS_CardinalityType, FS_EmptySet
<1>2. FaultNum \in Nat
  BY <1>1 DEF FaultNum
<1>3. IsFiniteSet(Followers)
  BY NodesAssumption, FS_RemoveElement
<1>4. \A S \in SUBSET Followers : IsFiniteSet(S) /\ Cardinality(S) \in Nat
  BY <1>3, FS_Subset, FS_CardinalityType
<1> QED
  BY <1>2, <1>3, <1>4

\* A step that counts no reply and sets none of the leader's flags.
LEMMA CountFrame ==
  ASSUME CountInv, UNCHANGED flagVars,
         \A h \in Heights : Counted(h)' = Counted(h),
         prepared'[Leader] \subseteq prepared[Leader],
         committed'[Leader] \subseteq committed[Leader]
  PROVE  CountInv'
BY DEF CountInv, flagVars, Check

\* Counting a reply makes both lists longer by one, and sets a flag only when its
\* list is long enough.
LEMMA CountStep ==
  ASSUME TypeOK, CountInv, NEW p \in Followers, NEW h \in Heights, CountReply(p, h)
  PROVE  CountInv'
<1> USE Constants
<1>1. /\ prepareConfirms \in [Heights0 -> Nat] /\ commitConfirms \in [Heights0 -> Nat]
      /\ prepared \in [Nodes -> SUBSET Heights0] /\ committed \in [Nodes -> SUBSET Heights0]
      /\ call \in [Followers -> [Heights -> CallStates]]
  BY DEF TypeOK, FlagTypeOK, LogTypeOK, CallTypeOK
<1>2. /\ call[p][h] = "replied"
      /\ prepareConfirms' = [prepareConfirms EXCEPT ![h] = @ + 1]
      /\ commitConfirms' = [commitConfirms EXCEPT ![h - 1] = @ + 1]
      /\ \E s \in {"done", "counted"} : call' = [call EXCEPT ![p][h] = s]
  BY DEF CountReply
<1>3. h \in Heights0 /\ h - 1 \in Heights0 /\ h \in Nat
  OBVIOUS
<1>4. /\ p \notin Counted(h) /\ Counted(h)' = Counted(h) \cup {p}
      /\ \A k \in Heights \ {h} : Counted(k)' = Counted(k)
  <2>1. p \notin Counted(h)
    BY <1>2 DEF Counted
  <2>2. /\ call'[p][h] \in {"counted", "done"}
        /\ \A q \in Followers, k \in Heights :
             q # p \/ k # h => call'[q][k] = call[q][k]
    <3>1. PICK s \in {"done", "counted"} : call' = [call EXCEPT ![p][h] = s]
      BY <1>2
    <3>2. call[p] \in [Heights -> CallStates]
      BY <1>1
    <3>3. call'[p] = [call[p] EXCEPT ![h] = s] /\ \A q \in Followers \ {p} : call'[q] = call[q]
      BY <1>1, <3>1
    <3>4. call'[p][h] = s /\ \A k \in Heights \ {h} : call'[p][k] = call[p][k]
      BY <3>2, <3>3
    <3> QED
      BY <3>3, <3>4
  <2>3. Counted(h)' = Counted(h) \cup {p}
    BY <2>2 DEF Counted
  <2>4. \A k \in Heights \ {h} : Counted(k)' = Counted(k)
    BY <2>2 DEF Counted
  <2> QED
    BY <2>1, <2>3, <2>4
<1>5. Cardinality(Counted(h)') = Cardinality(Counted(h)) + 1
  <2>1. IsFiniteSet(Counted(h))
    BY Quorums DEF Counted
  <2> QED
    BY <1>4, <2>1, FS_AddElement
<1>6. ASSUME NEW k \in Heights
      PROVE  /\ prepareConfirms'[k] = Cardinality(Counted(k)')
             /\ commitConfirms'[k - 1] = Cardinality(Counted(k)')
  <2>1. CASE k = h
    BY <1>1, <1>2, <1>5, <1>3, <2>1 DEF CountInv
  <2>2. CASE k # h
    <3>1. k \in Heights0 /\ k - 1 \in Heights0 /\ k - 1 # h - 1
      BY <2>2
    <3>2. prepareConfirms'[k] = prepareConfirms[k] /\ commitConfirms'[k - 1] = commitConfirms[k - 1]
      BY <1>1, <1>2, <2>2, <3>1
    <3> QED
      BY <1>4, <2>2, <3>2 DEF CountInv
  <2> QED
    BY <2>1, <2>2
<1>7. ASSUME NEW k \in Heights0
      PROVE  /\ Check(prepareConfirms[k]) => Check(prepareConfirms'[k])
             /\ Check(commitConfirms[k]) => Check(commitConfirms'[k])
  <2>1. /\ prepareConfirms[k] \in Nat /\ commitConfirms[k] \in Nat
        /\ prepareConfirms'[k] \in {prepareConfirms[k], prepareConfirms[k] + 1}
        /\ commitConfirms'[k] \in {commitConfirms[k], commitConfirms[k] + 1}
    BY <1>1, <1>2
  <2> QED
    BY <2>1, Quorums DEF Check
<1>8. /\ prepared'[Leader] \subseteq prepared[Leader] \cup {k \in Heights0 : Check(prepareConfirms'[k])}
      /\ committed'[Leader] \subseteq committed[Leader] \cup {k \in Heights0 : Check(commitConfirms'[k])}
  BY <1>1, <1>3 DEF CountReply
<1> QED
  BY <1>1, <1>6, <1>7, <1>8 DEF CountInv

\* No other step moves a call into or out of the counted ones.
LEMMA CountedKept ==
  ASSUME OrderingInv, [Next]_vars,
         \A p \in Followers, h \in Heights : ~CountReply(p, h)
  PROVE  \A h \in Heights : Counted(h)' = Counted(h)
<1> USE Constants
<1>1. /\ TypeOK
      /\ call \in [Followers -> [Heights -> CallStates]]
      /\ sendPc # "idle" => Len(block) \in Heights /\ \A p \in Followers : call[p][Len(block)] = "none"
  BY DEF OrderingInv, TypeOK, CallTypeOK, SendTypeOK, FollowerInv, CallsInv
<1>2. CASE Elsewhere \/ BuildBlock \/ RecordBlock \/ \E n \in Nodes : Execute(n)
  <2>1. UNCHANGED call
    BY <1>2 DEF Elsewhere, BuildBlock, RecordBlock, Execute, ExecRecv, ExecNext, callVars
  <2> QED
    BY <2>1 DEF Counted
<1>3. CASE Broadcast \/ \E u \in Reqs : BroadcastRacesAnnounce(u)
  <2>1. call' = SendingCalls(call) /\ sendPc # "idle"
    BY <1>3 DEF Broadcast, BroadcastRacesAnnounce, BroadcastDuring
  <2> QED
    BY <1>1, <2>1 DEF SendingCalls, Counted
<1>4. ASSUME NEW p \in Followers, NEW h \in Heights, BroadcastRacesMerge(p, h)
      PROVE  \A k \in Heights : Counted(k)' = Counted(k)
  <2>1. /\ call' = SendingCalls([call EXCEPT ![p][h] = "done"]) /\ sendPc # "idle"
        /\ call[p][h] = "counted"
    BY <1>4 DEF BroadcastRacesMerge, BroadcastDuring
  <2> QED
    BY <1>1, <2>1 DEF SendingCalls, Counted
<1>5. ASSUME NEW p \in Followers, NEW h \in Heights, Receiving(p, h)
      PROVE  \A k \in Heights : Counted(k)' = Counted(k)
  <2>1. /\ call[p][h] \in {"sent", "insert", "prepared", "insertCommit", "committed"}
        /\ \E s \in {"insert", "prepared", "insertCommit", "committed", "replied"} :
             call' = [call EXCEPT ![p][h] = s]
    BY <1>5 DEF Receiving, StartReceiving, InsertPrepared, LookupCommit, InsertCommitted, Reply
  <2> QED
    BY <1>1, <2>1 DEF Counted
<1>6. ASSUME NEW p \in Followers, NEW h \in Heights, MergeReply(p, h)
      PROVE  \A k \in Heights : Counted(k)' = Counted(k)
  BY <1>1, <1>6 DEF MergeReply, Counted
<1> QED
  BY <1>2, <1>3, <1>4, <1>5, <1>6, StepKinds DEF Broadcasting

\* No other step touches the lists or sets one of the leader's flags.
LEMMA FlagsKept ==
  ASSUME TypeOK, [Next]_vars,
         \A p \in Followers, h \in Heights : ~CountReply(p, h)
  PROVE  /\ UNCHANGED flagVars
         /\ prepared'[Leader] \subseteq prepared[Leader]
         /\ committed'[Leader] \subseteq committed[Leader]
<1> USE Constants
<1>1. ASSUME UNCHANGED <<flagVars, logVars>>
      PROVE  /\ UNCHANGED flagVars
             /\ prepared'[Leader] \subseteq prepared[Leader]
             /\ committed'[Leader] \subseteq committed[Leader]
  BY <1>1 DEF logVars
<1>2. ASSUME NEW u \in Reqs, NEW n \in Nodes,
             MakeReq(u) \/ AnnounceReq(u) \/ StoreReq(n, u) \/ BroadcastRacesAnnounce(u)
      PROVE  UNCHANGED <<flagVars, logVars>>
  BY <1>2 DEF MakeReq, AnnounceReq, StoreReq, BroadcastRacesAnnounce, BroadcastDuring
<1>3. ASSUME NEW n \in Nodes,
             DuplicationFails(n) \/ Execute(n) \/ ConcurrentMapAccess(n) \/ Kill(n)
      PROVE  UNCHANGED <<flagVars, logVars>>
  BY <1>3 DEF DuplicationFails, Execute, ExecRecv, ExecNext, ConcurrentMapAccess, Kill
<1>4. CASE BuildBlock \/ Broadcast \/ LeaderSegfault \/ Finished \/ UNCHANGED vars
  BY <1>1, <1>4 DEF BuildBlock, Broadcast, LeaderSegfault, Finished, vars
<1>5. CASE RecordBlock
  BY <1>5 DEF RecordBlock, PutLog, TypeOK, LogTypeOK
<1>6. ASSUME NEW p \in Followers, NEW h \in Heights,
             BroadcastRacesMerge(p, h) \/ MergeReply(p, h) \/ CallFails(p, h)
      PROVE  UNCHANGED <<flagVars, logVars>>
  BY <1>6 DEF BroadcastRacesMerge, BroadcastDuring, MergeReply, CallFails
<1>7. ASSUME NEW p \in Followers, NEW h \in Heights, Receiving(p, h)
      PROVE  UNCHANGED <<flagVars, prepared[Leader], committed[Leader]>>
  <2>1. p # Leader
    OBVIOUS
  <2> QED
    BY <1>7, <2>1 DEF Receiving, StartReceiving, InsertPrepared, LookupCommit, InsertCommitted,
                      Reply, PutLog, logVars, TypeOK, LogTypeOK
<1> QED
  BY <1>1, <1>2, <1>3, <1>4, <1>5, <1>6, <1>7 DEF Next, Progress, Duplicating, Sending, Returning

\* The lists agree with the calls throughout.
LEMMA Counting == Spec => []CountInv
<1>1. OrderingInit => CountInv
  <2>1. ASSUME OrderingInit, NEW h \in Heights PROVE Counted(h) = {}
    BY <2>1 DEF OrderingInit, Counted
  <2>2. ASSUME OrderingInit
        PROVE  /\ prepared[Leader] = {} /\ committed[Leader] = {}
               /\ \A h \in Heights0 : prepareConfirms[h] = 0 /\ commitConfirms[h] = 0
    BY <2>2, Constants DEF OrderingInit
  <2> QED
    <3> SUFFICES ASSUME OrderingInit PROVE CountInv
      OBVIOUS
    <3>1. \A h \in Heights : h \in Heights0 /\ h - 1 \in Heights0
      BY Constants
    <3>2. \A h \in Heights : Cardinality(Counted(h)) = 0
      BY <2>1, FS_EmptySet
    <3> QED
      BY <2>2, <3>1, <3>2 DEF CountInv
<1>2. OrderingInv /\ CountInv /\ [Next]_vars => CountInv'
  <2> SUFFICES ASSUME OrderingInv, CountInv, [Next]_vars PROVE CountInv'
    OBVIOUS
  <2>1. ASSUME NEW p \in Followers, NEW h \in Heights, CountReply(p, h) PROVE CountInv'
    BY <2>1, CountStep DEF OrderingInv
  <2>2. CASE \A p \in Followers, h \in Heights : ~CountReply(p, h)
    BY <2>2, CountedKept, FlagsKept, CountFrame DEF OrderingInv
  <2> QED
    BY <2>1, <2>2
<1> QED
  BY <1>1, <1>2, InvCorrect, PTL DEF Spec

\* A quorum stands behind every block that the leader queues.
THEOREM QuorumBehindBlocks == Spec => []ExecutedQuorum
<1>1. OrderingInv /\ CountInv => ExecutedQuorum
  <2> SUFFICES ASSUME OrderingInv, CountInv, NEW h \in executed[Leader] \ {0}
               PROVE  /\ h < MaxHeight
                      /\ Cardinality(Answered(h)) >= FaultNum
                      /\ Cardinality(Answered(h + 1)) >= FaultNum
    BY DEF ExecutedQuorum
  <2> USE Constants, Quorums
  <2>1. /\ h \in Heights /\ h < MaxHeight /\ h + 1 \in Heights
        /\ h \in prepared[Leader] /\ h \in committed[Leader]
    BY DEF OrderingInv, LeaderInv, TypeOK, LogTypeOK, SendTypeOK
  <2>2. ASSUME NEW k \in Heights
        PROVE  /\ Cardinality(Counted(k)) \in Nat /\ Cardinality(Answered(k)) \in Nat
               /\ Cardinality(Counted(k)) <= Cardinality(Answered(k))
    <3>1. Counted(k) \subseteq Answered(k) /\ Answered(k) \subseteq Followers
      BY DEF Counted, Answered
    <3> QED
      BY <3>1, FS_Subset
  <2>3. Cardinality(Counted(h)) >= FaultNum
    BY <2>1 DEF CountInv, Check
  <2>4. Cardinality(Counted(h + 1)) >= FaultNum
    <3>1. commitConfirms[(h + 1) - 1] = Cardinality(Counted(h + 1)) /\ (h + 1) - 1 = h
      BY <2>1 DEF CountInv
    <3> QED
      BY <2>1, <3>1 DEF CountInv, Check
  <2> QED
    BY <2>1, <2>2, <2>3, <2>4
<1> QED
  BY <1>1, InvCorrect, Counting, PTL

-----------------------------------------------------------------------------
(* What the leader logs and runs begins with what it sent.                 *)

\* A sequence is a prefix of itself.
LEMMA PrefixSelf ==
  ASSUME NEW S, NEW s \in Seq(S)
  PROVE  IsPrefix(s, s)
BY DEF IsPrefix

\* A prefix stays one when the longer sequence grows at its end.
LEMMA PrefixConcat ==
  ASSUME NEW S, NEW s \in Seq(S), NEW t \in Seq(S), NEW r \in Seq(S), IsPrefix(s, t)
  PROVE  IsPrefix(s, t \o r)
<1>1. /\ Len(s) \in Nat /\ Len(t) \in Nat /\ Len(r) \in Nat
      /\ Len(s) <= Len(t) /\ Len(t \o r) = Len(t) + Len(r)
      /\ \A i \in 1 .. Len(t) : (t \o r)[i] = t[i]
  BY DEF IsPrefix
<1>2. SubSeq(t \o r, 1, Len(s)) = SubSeq(t, 1, Len(s))
  BY <1>1
<1> QED
  BY <1>1, <1>2 DEF IsPrefix

\* Outside of Broadcast the leader's pool only grows.
LEMMA PoolGrows ==
  ASSUME TypeOK, [Next]_vars, ~Broadcasting
  PROVE  \E r \in Seq(Reqs) : pool'[Leader] = pool[Leader] \o r
<1> USE Constants
<1>1. pool \in [Nodes -> Seq(Reqs)] /\ pool[Leader] \in Seq(Reqs) /\ << >> \in Seq(Reqs)
  BY DEF TypeOK, PoolTypeOK
<1>2. CASE pool'[Leader] = pool[Leader]
  <2>1. pool[Leader] \o << >> = pool[Leader]
    BY <1>1
  <2> QED
    BY <1>1, <1>2, <2>1
<1>3. ASSUME NEW u \in Reqs, AnnounceReq(u)
      PROVE  \E r \in Seq(Reqs) : pool'[Leader] = pool[Leader] \o r
  <2>1. CASE Origin[u] # Leader
    BY <1>1, <1>2, <1>3, <2>1 DEF AnnounceReq
  <2>2. CASE Origin[u] = Leader
    <3>1. pool'[Leader] = Append(pool[Leader], u)
      BY <1>1, <1>3, <2>2 DEF AnnounceReq
    <3>2. <<u>> \in Seq(Reqs) /\ Append(pool[Leader], u) = pool[Leader] \o <<u>>
      BY <1>1
    <3> QED
      BY <3>1, <3>2
  <2> QED
    BY <2>1, <2>2
<1>4. ASSUME NEW p \in Followers, NEW h \in Heights, MergeReply(p, h)
      PROVE  \E r \in Seq(Reqs) : pool'[Leader] = pool[Leader] \o r
  <2>1. reply[p][h] \in Seq(Reqs)
    BY DEF TypeOK, CallTypeOK
  <2>2. pool'[Leader] = pool[Leader] \o reply[p][h]
    BY <1>1, <1>4 DEF MergeReply
  <2> QED
    BY <2>1, <2>2
<1>5. ASSUME NEW p \in Followers, NEW h \in Heights, Receiving(p, h)
      PROVE  pool'[Leader] = pool[Leader]
  BY <1>1, <1>5 DEF Receiving, StartReceiving, InsertPrepared, LookupCommit, InsertCommitted,
                    Reply, poolVars
<1>6. ASSUME NEW p \in Followers, NEW h \in Heights, CountReply(p, h) \/ CallFails(p, h)
      PROVE  UNCHANGED pool
  BY <1>6 DEF CountReply, CallFails, poolVars
<1>7. ASSUME NEW u \in Reqs, NEW n \in Nodes, MakeReq(u) \/ StoreReq(n, u)
      PROVE  UNCHANGED pool
  BY <1>7 DEF MakeReq, StoreReq, poolVars
<1>8. ASSUME NEW n \in Nodes,
             DuplicationFails(n) \/ Execute(n) \/ ConcurrentMapAccess(n) \/ Kill(n)
      PROVE  UNCHANGED pool
  BY <1>8 DEF DuplicationFails, Execute, ExecRecv, ExecNext, ConcurrentMapAccess, Kill, poolVars
<1>9. CASE BuildBlock \/ RecordBlock \/ LeaderSegfault \/ Finished \/ UNCHANGED vars
  BY <1>2, <1>9 DEF BuildBlock, RecordBlock, LeaderSegfault, Finished, vars, poolVars
<1> QED
  BY <1>2, <1>3, <1>4, <1>5, <1>6, <1>7, <1>8, <1>9
     DEF Next, Progress, Duplicating, Sending, Returning, Broadcasting

\* A step that touches neither the blocks nor the leader's log and database.
LEMMA ExtendFrame ==
  ASSUME TypeOK, ExtendInv, [Next]_vars, ~Broadcasting,
         UNCHANGED <<sendVars, content[Leader], db[Leader]>>
  PROVE  ExtendInv'
<1>1. sendPc = "built" => IsPrefix(block[Len(block)], pool'[Leader])
  <2>1. PICK r \in Seq(Reqs) : pool'[Leader] = pool[Leader] \o r
    BY PoolGrows
  <2>2. sendPc = "built" => block[Len(block)] \in Seq(Reqs)
    BY DEF TypeOK, SendTypeOK
  <2>3. pool[Leader] \in Seq(Reqs)
    BY Constants DEF TypeOK, PoolTypeOK
  <2> QED
    BY <2>1, <2>2, <2>3, PrefixConcat DEF ExtendInv
<1> QED
  BY <1>1 DEF ExtendInv, sendVars

\* The leader has sent every block that it has run.
LEMMA LeaderRunsSent ==
  ASSUME OrderingInv, RunOnceInv(Leader)
  PROVE  /\ Len(block) \in Nat /\ Len(db[Leader]) \in Nat
         /\ Len(db[Leader]) <= Len(block)
<1>1. Len(block) \in Nat /\ Len(db[Leader]) \in Nat
  BY Constants DEF OrderingInv, TypeOK, SendTypeOK, ExecTypeOK
<1>2. \A i \in 1 .. Len(db[Leader]) : i < Len(block)
  BY DEF OrderingInv, LeaderInv, RunOnceInv
<1> QED
  BY <1>1, <1>2

\* The block to send is a copy of the pool.
LEMMA ExtendBuild ==
  ASSUME OrderingInv, RunOnceInv(Leader), ExtendInv, BuildBlock
  PROVE  ExtendInv'
<1> USE Constants
<1>1. /\ block \in Seq(Seq(Reqs)) /\ pool[Leader] \in Seq(Reqs) /\ Len(block) \in Nat
      /\ block' = Append(block, pool[Leader]) /\ sendPc = "idle"
      /\ UNCHANGED <<pool, content, db>>
  BY DEF OrderingInv, TypeOK, SendTypeOK, PoolTypeOK, BuildBlock, poolVars, logVars, execVars
<1>2. /\ Len(block') = Len(block) + 1 /\ block'[Len(block')] = pool[Leader]
      /\ \A i \in 1 .. Len(block) : block'[i] = block[i]
  BY <1>1
<1>3. IsPrefix(block'[Len(block')], pool'[Leader])
  BY <1>1, <1>2, PrefixSelf
<1>4. \A i \in 1 .. Len(db[Leader]) : i \in 1 .. Len(block)
  BY LeaderRunsSent
<1>5. \A i \in 1 .. Len(block') : i < Len(block') => IsPrefix(block'[i], content'[Leader][i])
  BY <1>1, <1>2 DEF ExtendInv
<1>6. \A i \in 1 .. Len(db'[Leader]) : IsPrefix(block'[i], db'[Leader][i])
  BY <1>1, <1>2, <1>4 DEF ExtendInv
<1>7. sendPc' = "built"
  BY DEF BuildBlock
<1> QED
  BY <1>3, <1>5, <1>6, <1>7 DEF ExtendInv

\* The leader's log of the newest block is the pool, which has grown meanwhile.
LEMMA ExtendRecord ==
  ASSUME TypeOK, ExtendInv, RecordBlock
  PROVE  ExtendInv'
<1> USE Constants
<1>1. /\ Len(block) \in Heights /\ sendPc = "built" /\ sendPc' = "recorded"
      /\ UNCHANGED <<block, db>>
  BY DEF TypeOK, SendTypeOK, RecordBlock, execVars
<1>2. /\ content'[Leader][Len(block)] = pool[Leader]
      /\ \A i \in Heights0 \ {Len(block)} : content'[Leader][i] = content[Leader][i]
  BY <1>1 DEF TypeOK, LogTypeOK, RecordBlock, PutLog
<1>3. ASSUME NEW i \in 1 .. Len(block) PROVE IsPrefix(block[i], content'[Leader][i])
  <2>1. CASE i = Len(block)
    BY <1>1, <1>2, <2>1 DEF ExtendInv
  <2>2. CASE i # Len(block)
    <3>1. i < Len(block) /\ i \in Heights0
      BY <1>1, <2>2
    <3> QED
      BY <1>1, <1>2, <2>2, <3>1 DEF ExtendInv
  <2> QED
    BY <2>1, <2>2
<1> QED
  BY <1>1, <1>3 DEF ExtendInv

\* Sending the newest block changes neither it nor the log.
LEMMA ExtendBroadcast ==
  ASSUME ExtendInv, Broadcasting
  PROVE  ExtendInv'
<1>1. sendPc = "recorded" /\ sendPc' = "idle" /\ UNCHANGED <<block, content, db>>
  BY DEF Broadcasting, Broadcast, BroadcastRacesAnnounce, BroadcastRacesMerge,
         BroadcastDuring, logVars, execVars
<1> QED
  BY <1>1 DEF ExtendInv

\* What the leader runs is its log of the block that is due.
LEMMA ExtendExecute ==
  ASSUME OrderingInv, ExtendInv, Execute(Leader)
  PROVE  ExtendInv'
<1> USE Constants
<1>1. /\ db \in [Nodes -> Seq(Seq(Reqs))] /\ db[Leader] \in Seq(Seq(Reqs))
      /\ content \in [Nodes -> [Heights0 -> Seq(Reqs)]] /\ Len(db[Leader]) \in Nat
      /\ UNCHANGED <<sendPc, block, content, pool>>
  BY DEF OrderingInv, TypeOK, ExecTypeOK, LogTypeOK, Execute, ExecRecv, ExecNext,
         sendVars, logVars, poolVars
<1> DEFINE h == Len(db[Leader]) + 1
<1>2. CASE UNCHANGED db
  BY <1>1, <1>2 DEF ExtendInv
<1>3. CASE /\ h \in aheadSet[Leader]
           /\ db' = [db EXCEPT ![Leader] = Append(@, content[Leader][h])]
  <2>1. h \in executed[Leader]
    BY <1>3, PendingExecuted DEF Pending
  <2>2. h \in 1 .. Len(block) /\ h < Len(block) /\ h \in Heights0
    BY <1>1, <2>1 DEF OrderingInv, LeaderInv, TypeOK, LogTypeOK, SendTypeOK
  <2>3. IsPrefix(block[h], content[Leader][h])
    BY <2>2 DEF ExtendInv
  <2>4. content[Leader][h] \in Seq(Reqs)
    BY <1>1, <2>2
  <2>5. /\ Len(db'[Leader]) = h /\ db'[Leader][h] = content[Leader][h]
        /\ \A i \in 1 .. Len(db[Leader]) : db'[Leader][i] = db[Leader][i]
        /\ \A i \in 1 .. h : i = h \/ i \in 1 .. Len(db[Leader])
    <3>1. db'[Leader] = Append(db[Leader], content[Leader][h])
      BY <1>1, <1>3
    <3>2. \A i \in 1 .. h : i = h \/ i \in 1 .. Len(db[Leader])
      <4>1. Len(db[Leader]) \in Nat
        BY <1>1
      <4> QED
        BY <4>1
    <3> QED
      BY <1>1, <2>4, <3>1, <3>2
  <2> HIDE DEF h
  <2>6. \A i \in 1 .. Len(db'[Leader]) : IsPrefix(block[i], db'[Leader][i])
    BY <2>3, <2>5 DEF ExtendInv
  <2> QED
    BY <1>1, <2>6 DEF ExtendInv
<1>4. CASE ExecRecv(Leader)
  BY <1>2, <1>4 DEF ExecRecv
<1>5. CASE ExecNext(Leader)
  <2>1. h \in aheadSet[Leader]
    BY <1>5 DEF ExecNext, CurExecHeight
  <2>2. db' = db \/ db' = [db EXCEPT ![Leader] = Append(@, content[Leader][h])]
    BY <1>1, <1>5 DEF ExecNext, CurExecHeight
  <2> QED
    BY <1>2, <1>3, <2>1, <2>2
<1> QED
  BY <1>4, <1>5 DEF Execute

\* The other steps are those of ExtendFrame.
LEMMA ExtendKinds ==
  ASSUME TypeOK, [Next]_vars
  PROVE  \/ UNCHANGED <<sendVars, content[Leader], db[Leader]>>
         \/ BuildBlock \/ RecordBlock \/ Broadcasting \/ Execute(Leader)
<1> USE Constants DEF TypeOK, LogTypeOK, ExecTypeOK
<1>1. CASE Elsewhere
  BY <1>1 DEF Elsewhere, logVars, execVars
<1>2. ASSUME NEW p \in Followers, NEW h \in Heights,
             Receiving(p, h) \/ CountReply(p, h) \/ MergeReply(p, h)
      PROVE  UNCHANGED <<sendVars, content[Leader], db[Leader]>>
  BY <1>2 DEF Receiving, StartReceiving, InsertPrepared, LookupCommit, InsertCommitted, Reply,
              PutLog, CountReply, MergeReply, logVars, execVars
<1>3. ASSUME NEW n \in Nodes, n # Leader, Execute(n)
      PROVE  UNCHANGED <<sendVars, content[Leader], db[Leader]>>
  BY <1>3 DEF Execute, ExecRecv, ExecNext, logVars
<1> QED
  BY <1>1, <1>2, <1>3, StepKinds

\* What the leader runs extends what it sent, throughout.
LEMMA Extending == Spec => []ExtendInv
<1>1. OrderingInit => ExtendInv
  BY Constants DEF OrderingInit, ExtendInv
<1>2. OrderingInv /\ RunOnceInv(Leader) /\ ExtendInv /\ [Next]_vars => ExtendInv'
  <2> SUFFICES ASSUME OrderingInv, RunOnceInv(Leader), ExtendInv, [Next]_vars
               PROVE  ExtendInv'
    OBVIOUS
  <2>1. TypeOK
    BY DEF OrderingInv
  <2> QED
    BY <2>1, ExtendKinds, ExtendFrame, ExtendBuild, ExtendRecord, ExtendBroadcast, ExtendExecute
<1>3. (\A n \in Nodes : RunOnceInv(n)) => RunOnceInv(Leader)
  BY Constants
<1> QED
  BY <1>1, <1>2, <1>3, InvCorrect, RunOnce, PTL DEF Spec

\* The leader runs every block it sent with the content it sent, possibly
\* followed by requests that joined the pool before it logged the block.
THEOREM LeaderExtends == Spec => []LeaderExtendsSentBlocks
<1>1. OrderingInv /\ (\A n \in Nodes : RunOnceInv(n)) /\ ExtendInv => LeaderExtendsSentBlocks
  BY Constants, LeaderRunsSent DEF ExtendInv, LeaderExtendsSentBlocks
<1> QED
  BY <1>1, InvCorrect, RunOnce, Extending, PTL

-----------------------------------------------------------------------------
(* A request is reported once.                                             *)

\* What a concatenation and the end of a batch hold.
LEMMA ToSetConcat ==
  ASSUME NEW S, NEW s \in Seq(S), NEW t \in Seq(S)
  PROVE  ToSet(s \o t) = ToSet(s) \cup ToSet(t)
<1> DEFINE c == s \o t
<1>1. /\ DOMAIN s = 1 .. Len(s) /\ DOMAIN t = 1 .. Len(t) /\ DOMAIN c = 1 .. Len(s) + Len(t)
      /\ Len(s) \in Nat /\ Len(t) \in Nat
      /\ \A i \in 1 .. Len(s) : c[i] = s[i]
      /\ \A i \in 1 .. Len(t) : c[i + Len(s)] = t[i]
  OBVIOUS
<1>2. \A i \in DOMAIN c : i \in DOMAIN s \/ (i - Len(s) \in DOMAIN t /\ i = (i - Len(s)) + Len(s))
  BY <1>1
<1>3. /\ \A i \in DOMAIN s : i \in DOMAIN c
      /\ \A i \in DOMAIN t : i + Len(s) \in DOMAIN c
  BY <1>1
<1> HIDE DEF c
<1>4. ToSet(c) \subseteq ToSet(s) \cup ToSet(t)
  BY <1>1, <1>2 DEF ToSet
<1>5. ToSet(s) \cup ToSet(t) \subseteq ToSet(c)
  BY <1>1, <1>3 DEF ToSet
<1> QED
  BY <1>4, <1>5 DEF c

LEMMA ToSetEnd ==
  ASSUME NEW S, NEW s \in Seq(S), NEW k \in 1 .. Len(s)
  PROVE  ToSet(SubSeq(s, k, Len(s))) \subseteq ToSet(s)
<1> DEFINE e == SubSeq(s, k, Len(s))
<1>1. /\ DOMAIN s = 1 .. Len(s) /\ Len(s) \in Nat
      /\ DOMAIN e = 1 .. (Len(s) - k + 1)
      /\ \A i \in 1 .. (Len(s) - k + 1) : e[i] = s[k + i - 1]
  OBVIOUS
<1>2. \A i \in DOMAIN e : k + i - 1 \in DOMAIN s /\ e[i] = s[k + i - 1]
  BY <1>1
<1> HIDE DEF e
<1>3. ToSet(e) \subseteq ToSet(s)
  BY <1>2 DEF ToSet
<1> QED
  BY <1>3 DEF e

\* What the race of clear and append leaves was in the pool or in the batch.
LEMMA ClearRacesHolds ==
  ASSUME TypeOK, NEW batch \in Seq(Reqs), ClearRaces(batch)
  PROVE  /\ ToSet(pool'[Leader]) \subseteq ToSet(pool[Leader]) \cup ToSet(batch)
         /\ \A p \in Followers : pool'[p] = pool[p]
<1> USE Constants
<1>1. pool \in [Nodes -> Seq(Reqs)] /\ pool[Leader] \in Seq(Reqs)
  BY DEF TypeOK, PoolTypeOK
<1>2. \A p \in Followers : pool'[p] = pool[p]
  BY <1>1 DEF ClearRaces
<1>3. ASSUME NEW k \in 1 .. Len(batch), pool'[Leader] = SubSeq(batch, k, Len(batch))
      PROVE  ToSet(pool'[Leader]) \subseteq ToSet(batch)
  BY <1>3, ToSetEnd
<1>4. CASE pool'[Leader] = pool[Leader] \o batch
  BY <1>1, <1>2, <1>4, ToSetConcat
<1>5. CASE pool'[Leader] = << >>
  BY <1>2, <1>5 DEF ToSet
<1>6. \/ \E k \in 1 .. Len(batch) : pool'[Leader] = SubSeq(batch, k, Len(batch))
      \/ pool'[Leader] = pool[Leader] \o batch
      \/ pool'[Leader] = << >>
  BY <1>1 DEF ClearRaces
<1> QED
  BY <1>2, <1>3, <1>4, <1>5, <1>6

\* A step that puts u nowhere.
LEMMA ReportFrame ==
  ASSUME NEW u \in Reqs, ReportInv(u), announced \subseteq announced',
         Collected(u)' => Collected(u),
         \A p \in Followers : /\ u \in ToSet(pool'[p]) => u \in ToSet(pool[p])
                              /\ Reports(p, u)' \subseteq Reports(p, u)
  PROVE  ReportInv(u)'
BY DEF ReportInv, Reporting

\* A step that announces u.
LEMMA ReportAnnounce ==
  ASSUME NEW u \in Reqs, ReportInv(u), u \notin announced, u \in announced',
         Collected(u)' => Collected(u) \/ Origin[u] = Leader,
         \A p \in Followers : /\ u \in ToSet(pool'[p]) => u \in ToSet(pool[p]) \/ Origin[u] = p
                              /\ Reports(p, u)' \subseteq Reports(p, u)
  PROVE  ReportInv(u)'
BY Constants DEF ReportInv, Reporting

\* A step that brings u from p's pool into p's reply.
LEMMA ReportReply ==
  ASSUME NEW u \in Reqs, ReportInv(u), NEW p \in Followers, NEW h \in Heights, TypeOK,
         Reply(p, h)
  PROVE  ReportInv(u)'
<1> USE Constants
<1>1. /\ pool \in [Nodes -> Seq(Reqs)]
      /\ reply \in [Followers -> [Heights -> Seq(Reqs)]]
      /\ UNCHANGED <<announced, block>>
  BY DEF TypeOK, PoolTypeOK, CallTypeOK, Reply, rbVars, sendVars
<1>2. /\ reply'[p][h] = pool[p] /\ pool'[p] = << >>
      /\ \A q \in Nodes \ {p} : pool'[q] = pool[q]
      /\ \A q \in Followers, k \in Heights : q # p \/ k # h => reply'[q][k] = reply[q][k]
  BY <1>1 DEF Reply
<1>3. Collected(u)' = Collected(u)
  BY <1>1, <1>2 DEF Collected
<1>4. u \notin ToSet(pool'[p])
  BY <1>2 DEF ToSet
<1>5. \A q \in Followers \ {p} : Reports(q, u)' = Reports(q, u)
  BY <1>2 DEF Reports
<1>6. CASE u \in ToSet(pool[p])
  <2>1. Reports(p, u)' = {h}
    BY <1>2, <1>6 DEF ReportInv, Reports
  <2> QED
    BY <1>1, <1>2, <1>3, <1>4, <1>5, <1>6, <2>1 DEF ReportInv, Reporting
<1>7. CASE u \notin ToSet(pool[p])
  <2>1. Reports(p, u)' \subseteq Reports(p, u)
    BY <1>2, <1>7 DEF Reports
  <2> QED
    BY <1>1, <1>2, <1>3, <1>4, <1>5, <2>1, ReportFrame
<1> QED
  BY <1>6, <1>7

\* A step that clears p's reply and lets the leader's pool have what was in it.
LEMMA ReportMerge ==
  ASSUME NEW u \in Reqs, ReportInv(u), NEW p \in Followers, NEW h \in Heights, TypeOK,
         reply' = [reply EXCEPT ![p][h] = << >>], UNCHANGED <<announced, block>>,
         ToSet(pool'[Leader]) \subseteq ToSet(pool[Leader]) \cup ToSet(reply[p][h]),
         \A q \in Followers : pool'[q] = pool[q]
  PROVE  ReportInv(u)'
<1> USE Constants
<1>1. reply \in [Followers -> [Heights -> Seq(Reqs)]]
  BY DEF TypeOK, CallTypeOK
<1>2. /\ reply'[p][h] = << >>
      /\ \A q \in Followers, k \in Heights : q # p \/ k # h => reply'[q][k] = reply[q][k]
  BY <1>1
<1>3. /\ Reports(p, u)' = Reports(p, u) \ {h}
      /\ \A q \in Followers \ {p} : Reports(q, u)' = Reports(q, u)
  <2>1. u \notin ToSet(reply'[p][h])
    BY <1>2 DEF ToSet
  <2> QED
    BY <1>2, <2>1 DEF Reports
<1>4. CASE u \in ToSet(reply[p][h])
  <2>1. h \in Reports(p, u)
    BY <1>4 DEF Reports
  <2>2. /\ Reports(p, u)' = {} /\ u \in announced /\ Origin[u] = p
        /\ \A q \in Followers : u \notin ToSet(pool[q])
        /\ \A q \in Followers \ {p} : Reports(q, u) = {}
    BY <1>3, <2>1 DEF ReportInv, Reporting
  <2>3. \A q \in Followers : u \notin ToSet(pool'[q]) /\ Reports(q, u)' = {}
    BY <1>3, <2>2
  <2> QED
    BY <2>2, <2>3 DEF ReportInv, Reporting
<1>5. CASE u \notin ToSet(reply[p][h])
  <2>1. Collected(u)' => Collected(u)
    BY <1>5 DEF Collected
  <2> QED
    BY <1>3, <2>1, ReportFrame
<1> QED
  BY <1>4, <1>5

\* The leader gets hold of nothing new by copying its pool into a block.
LEMMA ReportBuild ==
  ASSUME NEW u \in Reqs, ReportInv(u), TypeOK, BuildBlock
  PROVE  ReportInv(u)'
<1>1. /\ block \in Seq(Seq(Reqs)) /\ pool[Leader] \in Seq(Reqs)
      /\ block' = Append(block, pool[Leader])
      /\ UNCHANGED <<announced, pool, reply>>
  BY Constants DEF TypeOK, SendTypeOK, PoolTypeOK, BuildBlock, rbVars, poolVars, callVars
<1>2. \A i \in 1 .. Len(block') : (i \in 1 .. Len(block) /\ block'[i] = block[i])
                                  \/ block'[i] = pool[Leader]
  BY <1>1
<1>3. Collected(u)' => Collected(u)
  BY <1>1, <1>2 DEF Collected
<1>4. \A p \in Followers : Reports(p, u)' = Reports(p, u)
  BY <1>1 DEF Reports
<1> QED
  BY <1>1, <1>3, <1>4, ReportFrame

\* The confirmed request v joins the pool of its origin, or survives there the
\* clear that it overlaps, or does not.
LEMMA ReportConfirmed ==
  ASSUME NEW u \in Reqs, ReportInv(u), TypeOK, NEW v \in Reqs,
         AnnounceReq(v) \/ BroadcastRacesAnnounce(v)
  PROVE  ReportInv(u)'
<1> USE Constants
<1>1. /\ pool \in [Nodes -> Seq(Reqs)] /\ \A n \in Nodes : pool[n] \in Seq(Reqs)
      /\ v \notin announced /\ announced' = announced \cup {v}
      /\ UNCHANGED <<block, reply>>
  BY DEF TypeOK, PoolTypeOK, AnnounceReq, BroadcastRacesAnnounce, BroadcastDuring, Announce,
         sendVars, callVars
<1>2. /\ \A n \in Nodes : ToSet(pool'[n]) \subseteq ToSet(pool[n]) \cup {v}
      /\ \A n \in Nodes \ {Origin[v]} : pool'[n] = pool[n]
  <2>1. CASE AnnounceReq(v)
    <3>1. /\ pool'[Origin[v]] = Append(pool[Origin[v]], v)
          /\ \A n \in Nodes \ {Origin[v]} : pool'[n] = pool[n]
      BY <1>1, <2>1 DEF AnnounceReq
    <3>2. ToSet(pool'[Origin[v]]) = ToSet(pool[Origin[v]]) \cup {v}
      BY <1>1, <3>1, ToSetAppend
    <3> QED
      BY <3>1, <3>2
  <2>2. CASE BroadcastRacesAnnounce(v)
    <3>1. Origin[v] = Leader /\ ClearRaces(<<v>>) /\ <<v>> \in Seq(Reqs)
      BY <2>2 DEF BroadcastRacesAnnounce, BroadcastDuring
    <3>2. ToSet(<<v>>) = {v}
      BY DEF ToSet
    <3>3. \A n \in Nodes : n = Leader \/ n \in Followers
      OBVIOUS
    <3> QED
      BY <3>1, <3>2, <3>3, ClearRacesHolds
  <2> QED
    BY <2>1, <2>2
<1>3. \A p \in Followers : Reports(p, u)' = Reports(p, u)
  BY <1>1 DEF Reports
<1>4. CASE u = v
  <2>1. Collected(u)' => Collected(u) \/ Origin[u] = Leader
    BY <1>1, <1>2, <1>4 DEF Collected
  <2> QED
    BY <1>1, <1>2, <1>3, <1>4, <2>1, ReportAnnounce
<1>5. CASE u # v
  <2>1. Collected(u)' => Collected(u)
    BY <1>1, <1>2, <1>5 DEF Collected
  <2> QED
    BY <1>1, <1>2, <1>3, <1>5, <2>1, ReportFrame
<1> QED
  BY <1>4, <1>5

\* A step that changes none of the places.
LEMMA ReportElsewhere ==
  ASSUME NEW u \in Reqs, ReportInv(u), UNCHANGED <<announced, pool, block, reply>>
  PROVE  ReportInv(u)'
BY DEF ReportInv, Reporting, Collected, Reports

\* Every step keeps the invariant of a request.
LEMMA ReportNext ==
  ASSUME TypeOK, NEW u \in Reqs, ReportInv(u), [Next]_vars
  PROVE  ReportInv(u)'
<1> USE Constants
<1>1. ASSUME NEW v \in Reqs, NEW n \in Nodes, MakeReq(v) \/ StoreReq(n, v)
      PROVE  ReportInv(u)'
  BY <1>1, ReportElsewhere
     DEF MakeReq, StoreReq, Make, Store, poolVars, sendVars, callVars
<1>2. ASSUME NEW v \in Reqs, AnnounceReq(v) \/ BroadcastRacesAnnounce(v)
      PROVE  ReportInv(u)'
  BY <1>2, ReportConfirmed
<1>3. ASSUME NEW n \in Nodes,
             DuplicationFails(n) \/ Execute(n) \/ ConcurrentMapAccess(n) \/ Kill(n)
      PROVE  ReportInv(u)'
  BY <1>3, ReportElsewhere
     DEF DuplicationFails, Execute, ExecRecv, ExecNext, ConcurrentMapAccess, Kill,
         rbVars, poolVars, sendVars, callVars
<1>4. CASE RecordBlock \/ LeaderSegfault \/ Finished \/ UNCHANGED vars
  BY <1>4, ReportElsewhere
     DEF RecordBlock, LeaderSegfault, Finished, vars, rbVars, poolVars, sendVars, callVars
<1>5. CASE BuildBlock
  BY <1>5, ReportBuild
<1>6. CASE Broadcast
  <2>1. /\ ToSet(pool'[Leader]) = {} /\ UNCHANGED <<announced, block, reply>>
        /\ \A p \in Followers : pool'[p] = pool[p]
    BY <1>6 DEF Broadcast, TypeOK, PoolTypeOK, ToSet, rbVars
  <2>2. Collected(u)' => Collected(u)
    BY <2>1 DEF Collected
  <2>3. \A p \in Followers : Reports(p, u)' = Reports(p, u)
    BY <2>1 DEF Reports
  <2> QED
    BY <2>1, <2>2, <2>3, ReportFrame
<1>7. ASSUME NEW p \in Followers, NEW h \in Heights, Reply(p, h)
      PROVE  ReportInv(u)'
  BY <1>7, ReportReply
<1>8. ASSUME NEW p \in Followers, NEW h \in Heights,
             BroadcastRacesMerge(p, h) \/ MergeReply(p, h)
      PROVE  ReportInv(u)'
  <2>1. reply[p][h] \in Seq(Reqs) /\ pool \in [Nodes -> Seq(Reqs)] /\ pool[Leader] \in Seq(Reqs)
    BY DEF TypeOK, CallTypeOK, PoolTypeOK
  <2>2. /\ reply' = [reply EXCEPT ![p][h] = << >>]
        /\ UNCHANGED <<announced, block>>
    BY <1>8 DEF BroadcastRacesMerge, BroadcastDuring, MergeReply, rbVars, sendVars
  <2>3. CASE BroadcastRacesMerge(p, h)
    <3>1. ClearRaces(reply[p][h])
      BY <2>3 DEF BroadcastRacesMerge, BroadcastDuring
    <3> QED
      BY <2>1, <2>2, <3>1, ClearRacesHolds, ReportMerge
  <2>4. CASE MergeReply(p, h)
    <3>1. /\ pool'[Leader] = pool[Leader] \o reply[p][h]
          /\ \A q \in Followers : pool'[q] = pool[q]
      BY <2>1, <2>4 DEF MergeReply
    <3>2. ToSet(pool'[Leader]) = ToSet(pool[Leader]) \cup ToSet(reply[p][h])
      BY <2>1, <3>1, ToSetConcat
    <3> QED
      BY <2>2, <3>1, <3>2, ReportMerge
  <2> QED
    BY <1>8, <2>3, <2>4
<1>9. ASSUME NEW p \in Followers, NEW h \in Heights,
             StartReceiving(p, h) \/ InsertPrepared(p, h) \/ LookupCommit(p, h)
               \/ InsertCommitted(p, h) \/ CountReply(p, h) \/ CallFails(p, h)
      PROVE  ReportInv(u)'
  BY <1>9, ReportElsewhere
     DEF StartReceiving, InsertPrepared, LookupCommit, InsertCommitted, CountReply, CallFails,
         rbVars, poolVars, sendVars, callVars
<1> QED
  BY <1>1, <1>2, <1>3, <1>4, <1>5, <1>6, <1>7, <1>8, <1>9
     DEF Next, Progress, Duplicating, Sending, Receiving, Returning

\* Every request is in one place on its way to the leader, throughout.
LEMMA ReportsOnce == Spec => [](\A u \in Reqs : ReportInv(u))
<1>1. OrderingInit => \A u \in Reqs : ReportInv(u)
  <2> SUFFICES ASSUME OrderingInit, NEW u \in Reqs PROVE ReportInv(u)
    OBVIOUS
  <2>1. /\ \A n \in Nodes : ToSet(pool[n]) = {}
        /\ \A p \in Followers, h \in Heights : ToSet(reply[p][h]) = {}
        /\ 1 .. Len(block) = {}
    BY Constants DEF OrderingInit, ToSet
  <2>2. ~Collected(u)
    BY <2>1, Constants DEF Collected
  <2>3. \A p \in Followers : Reports(p, u) = {}
    BY <2>1 DEF Reports
  <2> QED
    BY <2>1, <2>2, <2>3, Constants DEF ReportInv, Reporting
<1>2. OrderingInv /\ (\A u \in Reqs : ReportInv(u)) /\ [Next]_vars
        => (\A u \in Reqs : ReportInv(u))'
  BY ReportNext DEF OrderingInv
<1> QED
  BY <1>1, <1>2, InvCorrect, PTL DEF Spec

\* A follower's request is in its pool, or in one reply, and not with the leader
\* before that reply is merged.
THEOREM ReportOnce == Spec => []ReportedOnce
<1>1. (\A u \in Reqs : ReportInv(u)) => ReportedOnce
  <2> SUFFICES ASSUME NEW p \in Followers, NEW u \in Reqs, ReportInv(u)
               PROVE  /\ Cardinality(Reports(p, u)) <= 1
                      /\ u \in ToSet(pool[p]) => Reports(p, u) = {}
                      /\ u \in ToSet(pool[p]) \/ Reports(p, u) # {} =>
                           /\ u \notin ToSet(pool[Leader])
                           /\ \A i \in 1 .. Len(block) : u \notin ToSet(block[i])
    BY DEF ReportedOnce
  <2>1. Cardinality(Reports(p, u)) <= 1
    <3>1. CASE Reports(p, u) = {}
      BY <3>1, FS_EmptySet
    <3>2. ASSUME NEW h \in Reports(p, u) PROVE Cardinality(Reports(p, u)) <= 1
      <4>1. Reports(p, u) = {h}
        BY DEF ReportInv
      <4> QED
        BY <4>1, FS_Singleton
    <3> QED
      BY <3>1, <3>2
  <2> QED
    BY <2>1 DEF ReportInv, Reporting, Collected
<1> QED
  BY <1>1, ReportsOnce, PTL

-----------------------------------------------------------------------------
\* The whole of the accounting.
THEOREM AccountCorrect == Spec => []AccountInv
BY RunOnce, ReportsOnce, Counting, Extending, PTL DEF AccountInv
=============================================================================
