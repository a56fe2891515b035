--------------------------- MODULE OrderingProofs ---------------------------
(***************************************************************************)
(* Proofs about Ordering, for every number of nodes, every fault number,   *)
(* every assignment of requests to origins and every bound.                *)
(***************************************************************************)
EXTENDS Ordering, TLAPS

USE DEF Followers, Peers, Heights, Heights0

\* What the assumptions on the constants give.
LEMMA Constants ==
  /\ Leader \in Nodes /\ Followers \subseteq Nodes /\ Leader \notin Followers
  /\ MaxHeight \in Nat
  /\ Origin \in [Reqs -> Nodes]
BY LeaderAssumption, BoundsAssumption, OriginAssumption

-----------------------------------------------------------------------------
(* Type correctness.                                                       *)

\* The first state is well typed.
LEMMA TypeInit == OrderingInit => TypeOK
<1> SUFFICES ASSUME OrderingInit PROVE TypeOK
  OBVIOUS
<1> USE Constants DEF OrderingInit, RBInit
<1>1. up \in [Nodes -> BOOLEAN]
  OBVIOUS
<1>5. RBTypeOK
  BY DEF RBTypeOK
<1>6. PoolTypeOK
  <2>1. << >> \in Seq(Reqs)
    OBVIOUS
  <2>2. pool \in [Nodes -> Seq(Reqs)]
    BY <2>1
  <2>3. torn \in BOOLEAN
    OBVIOUS
  <2> QED
    BY <2>2, <2>3 DEF PoolTypeOK
<1>2. SendTypeOK /\ LogTypeOK /\ FlagTypeOK
  BY DEF SendTypeOK, LogTypeOK, FlagTypeOK
<1>3. CallTypeOK /\ ExecTypeOK
  BY DEF CallTypeOK, ExecTypeOK, CallStates
<1> QED
  BY <1>1, <1>2, <1>3, <1>5, <1>6 DEF TypeOK

\* A group of variables that a step leaves alone stays well typed.
LEMMA TypeUnchanged ==
  ASSUME TypeOK
  PROVE  /\ UNCHANGED rbVars => RBTypeOK'
         /\ UNCHANGED up => up' \in [Nodes -> BOOLEAN]
         /\ UNCHANGED poolVars => PoolTypeOK'
         /\ UNCHANGED sendVars => SendTypeOK'
         /\ UNCHANGED logVars => LogTypeOK'
         /\ UNCHANGED flagVars => FlagTypeOK'
         /\ UNCHANGED <<callVars, block>> => CallTypeOK'
         /\ UNCHANGED execVars => ExecTypeOK'
BY DEF TypeOK, RBTypeOK, PoolTypeOK, SendTypeOK, LogTypeOK, FlagTypeOK, CallTypeOK,
       ExecTypeOK, rbVars, poolVars, sendVars, logVars, flagVars, callVars, execVars

\* Replacing an entry of height2blockLog keeps the five tables well typed.
LEMMA PutLogType ==
  ASSUME LogTypeOK, NEW n \in Nodes, NEW h \in Heights0,
         NEW flags, NEW reqs \in Seq(Reqs),
         PutLog(n, h, flags, reqs)
  PROVE  LogTypeOK'
BY DEF LogTypeOK, PutLog

\* Queueing a height keeps the flag and the channel well typed.
LEMMA QueueIfType ==
  ASSUME LogTypeOK, ExecTypeOK, NEW n \in Nodes, NEW h \in Heights0, NEW ready,
         QueueIf(n, h, ready)
  PROVE  /\ executed' \in [Nodes -> SUBSET Heights0]
         /\ execCh' \in [Nodes -> Seq(Heights0)]
<1>1. CASE UNCHANGED <<executed, execCh>>
  BY <1>1 DEF LogTypeOK, ExecTypeOK
<1>2. CASE /\ executed' = [executed EXCEPT ![n] = @ \cup {h}]
           /\ execCh' = [execCh EXCEPT ![n] = Append(@, h)]
  BY <1>2 DEF LogTypeOK, ExecTypeOK
<1> QED
  BY <1>1, <1>2 DEF QueueIf

\* Queueing a height at m changes the flag and the channel of m only.
LEMMA QueueIfOthers ==
  ASSUME LogTypeOK, ExecTypeOK, NEW m, NEW k, NEW ready, QueueIf(m, k, ready),
         NEW n \in Nodes, n # m
  PROVE  executed'[n] = executed[n] /\ execCh'[n] = execCh[n]
<1>1. CASE ready
  <2>1. n \in DOMAIN executed /\ n \in DOMAIN execCh
    BY DEF LogTypeOK, ExecTypeOK
  <2>2. executed' = [executed EXCEPT ![m] = @ \cup {k}] /\ execCh' = [execCh EXCEPT ![m] = Append(@, k)]
    BY <1>1 DEF QueueIf
  <2> QED
    BY <2>1, <2>2
<1>2. CASE ~ ready
  BY <1>2 DEF QueueIf
<1> QED
  BY <1>1, <1>2

\* Counting one more answer at a height keeps a table of counts well typed.
LEMMA CountUp ==
  ASSUME NEW f \in [Heights0 -> Nat], NEW h \in Heights0
  PROVE  [f EXCEPT ![h] = @ + 1] \in [Heights0 -> Nat]
<1>1. f[h] + 1 \in Nat
  OBVIOUS
<1> HIDE DEF Heights0
<1> QED
  BY <1>1

\* The calls that Broadcast adds are calls of a block that exists.
LEMMA SendingCallsType ==
  ASSUME TypeOK, sendPc # "idle", NEW c \in [Followers -> [Heights -> CallStates]],
         \A p \in Followers : \A h \in Heights : h > Len(block) => c[p][h] = "none",
         call' = SendingCalls(c), UNCHANGED block,
         reply' \in [Followers -> [Heights -> Seq(Reqs)]]
  PROVE  CallTypeOK'
BY DEF TypeOK, SendTypeOK, CallTypeOK, SendingCalls, CallStates

\* Whatever the race of clear and append leaves is a pool.
LEMMA ClearRacesType ==
  ASSUME PoolTypeOK, NEW batch \in Seq(Reqs), ClearRaces(batch)
  PROVE  PoolTypeOK'
<1>1. ASSUME NEW k \in 1 .. Len(batch)
      PROVE  SubSeq(batch, k, Len(batch)) \in Seq(Reqs)
  OBVIOUS
<1>2. pool[Leader] \o batch \in Seq(Reqs) /\ << >> \in Seq(Reqs)
  BY Constants DEF PoolTypeOK
<1> QED
  BY <1>1, <1>2, Constants DEF PoolTypeOK, ClearRaces

\* Every step keeps the state well typed.
LEMMA TypeNext == TypeOK /\ [Next]_vars => TypeOK'
<1> SUFFICES ASSUME TypeOK, [Next]_vars PROVE TypeOK'
  OBVIOUS
<1> USE Constants, TypeUnchanged
<1>1. ASSUME NEW u \in Reqs, MakeReq(u) PROVE TypeOK'
  <2>1. RBTypeOK'
    BY <1>1 DEF TypeOK, RBTypeOK, MakeReq, Make
  <2> QED
    BY <1>1, <2>1 DEF TypeOK, MakeReq, sendVars
<1>2. ASSUME NEW u \in Reqs, NEW n \in Nodes, StoreReq(n, u) PROVE TypeOK'
  <2>1. RBTypeOK'
    BY <1>2 DEF TypeOK, RBTypeOK, StoreReq, Store
  <2> QED
    BY <1>2, <2>1 DEF TypeOK, StoreReq, sendVars
<1>3. ASSUME NEW u \in Reqs, AnnounceReq(u) PROVE TypeOK'
  <2>1. RBTypeOK'
    BY <1>3 DEF TypeOK, RBTypeOK, AnnounceReq, Announce
  <2>2. PoolTypeOK'
    BY <1>3 DEF TypeOK, PoolTypeOK, AnnounceReq
  <2> QED
    BY <1>3, <2>1, <2>2 DEF TypeOK, AnnounceReq, sendVars
<1>4. CASE BuildBlock
  <2>1. SendTypeOK'
    BY <1>4 DEF TypeOK, SendTypeOK, PoolTypeOK, BuildBlock
  <2>2. CallTypeOK'
    BY <1>4 DEF TypeOK, SendTypeOK, PoolTypeOK, CallTypeOK, BuildBlock, callVars
  <2> QED
    BY <1>4, <2>1, <2>2 DEF TypeOK, BuildBlock
<1>5. CASE RecordBlock
  <2>1. LogTypeOK'
    BY <1>5, PutLogType DEF TypeOK, SendTypeOK, PoolTypeOK, RecordBlock
  <2>2. SendTypeOK'
    BY <1>5 DEF TypeOK, SendTypeOK, RecordBlock
  <2> QED
    BY <1>5, <2>1, <2>2 DEF TypeOK, RecordBlock
<1>6. CASE Broadcast
  <2>1. CallTypeOK'
    BY <1>6, SendingCallsType DEF TypeOK, CallTypeOK, Broadcast
  <2>2. SendTypeOK' /\ PoolTypeOK'
    BY <1>6 DEF TypeOK, SendTypeOK, PoolTypeOK, Broadcast
  <2> QED
    BY <1>6, <2>1, <2>2 DEF TypeOK, Broadcast
<1>7. ASSUME NEW u \in Reqs, BroadcastRacesAnnounce(u) PROVE TypeOK'
  <2>1. CallTypeOK'
    BY <1>7, SendingCallsType DEF TypeOK, CallTypeOK, BroadcastRacesAnnounce, BroadcastDuring
  <2>2. PoolTypeOK'
    BY <1>7, ClearRacesType, <<u>> \in Seq(Reqs) DEF TypeOK, BroadcastRacesAnnounce, BroadcastDuring
  <2>3. SendTypeOK'
    BY <1>7 DEF TypeOK, SendTypeOK, BroadcastRacesAnnounce, BroadcastDuring
  <2>4. RBTypeOK'
    BY <1>7 DEF TypeOK, RBTypeOK, BroadcastRacesAnnounce, BroadcastDuring, Announce
  <2> QED
    BY <1>7, <2>1, <2>2, <2>3, <2>4 DEF TypeOK, BroadcastRacesAnnounce, BroadcastDuring
<1>8. ASSUME NEW p \in Followers, NEW h \in Heights, BroadcastRacesMerge(p, h)
      PROVE  TypeOK'
  <2> DEFINE c == [call EXCEPT ![p][h] = "done"]
  <2>1. /\ c \in [Followers -> [Heights -> CallStates]]
        /\ \A q \in Followers : \A k \in Heights : k > Len(block) => c[q][k] = "none"
    BY <1>8 DEF TypeOK, CallTypeOK, CallStates, BroadcastRacesMerge, BroadcastDuring
  <2>2. reply' \in [Followers -> [Heights -> Seq(Reqs)]]
    BY <1>8 DEF TypeOK, CallTypeOK, BroadcastRacesMerge, BroadcastDuring
  <2>3. CallTypeOK'
    BY <1>8, <2>1, <2>2, SendingCallsType DEF BroadcastRacesMerge, BroadcastDuring
  <2>4. PoolTypeOK'
    BY <1>8, ClearRacesType DEF TypeOK, CallTypeOK, BroadcastRacesMerge, BroadcastDuring
  <2>5. SendTypeOK'
    BY <1>8 DEF TypeOK, SendTypeOK, BroadcastRacesMerge, BroadcastDuring
  <2> QED
    BY <1>8, <2>3, <2>4, <2>5 DEF TypeOK, BroadcastRacesMerge, BroadcastDuring
<1>9. ASSUME NEW p \in Followers, NEW h \in Heights, StartReceiving(p, h)
      PROVE  TypeOK'
  <2>1. CallTypeOK'
    <3>1. PICK s \in CallStates : call' = [call EXCEPT ![p][h] = s]
      BY <1>9 DEF CallStates, StartReceiving
    <3> QED
      BY <1>9, <3>1 DEF TypeOK, CallTypeOK, StartReceiving, sendVars
  <2>2. LogTypeOK'
    <3>1. CASE UNCHANGED prepared
      BY <1>9, <3>1 DEF TypeOK, LogTypeOK, StartReceiving
    <3>2. CASE prepared' = [prepared EXCEPT ![p] = @ \cup {h}]
      BY <1>9, <3>2 DEF TypeOK, LogTypeOK, StartReceiving
    <3> QED
      BY <1>9, <3>1, <3>2 DEF StartReceiving
  <2> QED
    BY <1>9, <2>1, <2>2 DEF TypeOK, StartReceiving
<1>10. ASSUME NEW p \in Followers, NEW h \in Heights, InsertPrepared(p, h)
       PROVE  TypeOK'
  <2>1. CallTypeOK'
    BY <1>10 DEF TypeOK, CallTypeOK, CallStates, InsertPrepared, sendVars
  <2>2. block[h] \in Seq(Reqs)
    <3>1. ~ (h > Len(block))
      BY <1>10 DEF TypeOK, CallTypeOK, InsertPrepared
    <3>2. h \in 1 .. Len(block)
      BY <3>1 DEF TypeOK, SendTypeOK
    <3> QED
      BY <3>2 DEF TypeOK, SendTypeOK
  <2>3. LogTypeOK'
    BY <1>10, <2>2, PutLogType DEF TypeOK, InsertPrepared
  <2> QED
    BY <1>10, <2>1, <2>3 DEF TypeOK, InsertPrepared
<1>11. ASSUME NEW p \in Followers, NEW h \in Heights, LookupCommit(p, h)
       PROVE  TypeOK'
  <2>1. CallTypeOK'
    <3>1. PICK s \in CallStates : call' = [call EXCEPT ![p][h] = s]
      BY <1>11 DEF CallStates, LookupCommit
    <3> QED
      BY <1>11, <3>1 DEF TypeOK, CallTypeOK, LookupCommit, sendVars
  <2>2. h - 1 \in Heights0
    OBVIOUS
  <2>3. LogTypeOK' /\ ExecTypeOK'
    <3>1. CASE h - 1 \in logged[p]
      <4>1. committed' \in [Nodes -> SUBSET Heights0]
        <5>1. committed' = [committed EXCEPT ![p] = @ \cup {h - 1}]
          BY <1>11, <3>1 DEF LookupCommit
        <5> QED
          BY <2>2, <5>1 DEF TypeOK, LogTypeOK
      <4>2. QueueIf(p, h - 1, h - 1 \in prepared[p] \ executed[p])
        BY <1>11, <3>1 DEF LookupCommit
      <4> QED
        BY <1>11, <2>2, <4>1, <4>2, QueueIfType DEF TypeOK, LogTypeOK, ExecTypeOK, LookupCommit
    <3>2. CASE UNCHANGED <<logVars, execVars>>
      BY <3>2
    <3> QED
      BY <1>11, <3>1, <3>2 DEF LookupCommit, logVars, execVars
  <2> QED
    BY <1>11, <2>1, <2>3 DEF TypeOK, LookupCommit
<1>12. ASSUME NEW p \in Followers, NEW h \in Heights, InsertCommitted(p, h)
       PROVE  TypeOK'
  <2>1. CallTypeOK'
    BY <1>12 DEF TypeOK, CallTypeOK, CallStates, InsertCommitted, sendVars
  <2>2. LogTypeOK'
    BY <1>12, PutLogType, h - 1 \in Heights0, << >> \in Seq(Reqs)
       DEF TypeOK, InsertCommitted
  <2> QED
    BY <1>12, <2>1, <2>2 DEF TypeOK, InsertCommitted
<1>13. ASSUME NEW p \in Followers, NEW h \in Heights, Reply(p, h)
       PROVE  TypeOK'
  <2>1. CallTypeOK'
    BY <1>13 DEF TypeOK, CallTypeOK, CallStates, PoolTypeOK, Reply, sendVars
  <2>2. PoolTypeOK'
    BY <1>13 DEF TypeOK, PoolTypeOK, Reply
  <2> QED
    BY <1>13, <2>1, <2>2 DEF TypeOK, Reply
<1>14. ASSUME NEW p \in Followers, NEW h \in Heights, CountReply(p, h)
       PROVE  TypeOK'
  <2>1. CallTypeOK'
    BY <1>14 DEF TypeOK, CallTypeOK, CallStates, CountReply, sendVars
  <2>2. FlagTypeOK'
    <3>1. /\ prepareConfirms' = [prepareConfirms EXCEPT ![h] = @ + 1]
          /\ commitConfirms' = [commitConfirms EXCEPT ![h - 1] = @ + 1]
      BY <1>14 DEF CountReply
    <3>2. h \in Heights0 /\ h - 1 \in Heights0
      OBVIOUS
    <3>3. prepareConfirms \in [Heights0 -> Nat] /\ commitConfirms \in [Heights0 -> Nat]
      BY DEF TypeOK, FlagTypeOK
    <3>4. prepareConfirms' \in [Heights0 -> Nat]
      BY <3>1, <3>2, <3>3, CountUp
    <3>5. commitConfirms' \in [Heights0 -> Nat]
      BY <3>1, <3>2, <3>3, CountUp
    <3> QED
      BY <3>4, <3>5 DEF FlagTypeOK
  <2>3. /\ prepared' \in [Nodes -> SUBSET Heights0]
        /\ committed' \in [Nodes -> SUBSET Heights0]
    BY <1>14 DEF TypeOK, LogTypeOK, CountReply
  <2>4. PICK ready : QueueIf(Leader, h - 1, ready)
    BY <1>14 DEF CountReply
  <2>5. LogTypeOK' /\ ExecTypeOK'
    BY <1>14, <2>3, <2>4, QueueIfType, h - 1 \in Heights0
       DEF TypeOK, LogTypeOK, ExecTypeOK, CountReply
  <2> QED
    BY <1>14, <2>1, <2>2, <2>5 DEF TypeOK, CountReply
<1>15. ASSUME NEW p \in Followers, NEW h \in Heights, MergeReply(p, h)
       PROVE  TypeOK'
  <2>1. CallTypeOK'
    BY <1>15 DEF TypeOK, CallTypeOK, CallStates, MergeReply, sendVars
  <2>2. PoolTypeOK'
    BY <1>15 DEF TypeOK, PoolTypeOK, CallTypeOK, MergeReply
  <2> QED
    BY <1>15, <2>1, <2>2 DEF TypeOK, MergeReply
<1>16. ASSUME NEW n \in Nodes, ExecRecv(n) PROVE TypeOK'
  <2>1. /\ execCh[n] \in Seq(Heights0) /\ execCh[n] # << >>
        /\ execCh \in [Nodes -> Seq(Heights0)] /\ aheadSet \in [Nodes -> SUBSET Heights0]
        /\ db \in [Nodes -> Seq(Seq(Reqs))]
    BY <1>16 DEF TypeOK, ExecTypeOK, ExecRecv
  <2>2. Head(execCh[n]) \in Heights0 /\ Tail(execCh[n]) \in Seq(Heights0)
    BY <2>1
  <2>3. /\ execCh' \in [Nodes -> Seq(Heights0)] /\ aheadSet' \in [Nodes -> SUBSET Heights0]
        /\ UNCHANGED db
    BY <1>16, <2>1, <2>2 DEF ExecRecv
  <2>4. ExecTypeOK'
    BY <2>1, <2>3 DEF ExecTypeOK
  <2> QED
    BY <1>16, <2>4 DEF TypeOK, ExecRecv, sendVars
<1>17. ASSUME NEW n \in Nodes, ExecNext(n) PROVE TypeOK'
  <2>1. up' \in [Nodes -> BOOLEAN]
    BY <1>17 DEF TypeOK, ExecNext
  <2>2. ExecTypeOK'
    BY <1>17 DEF TypeOK, ExecTypeOK, LogTypeOK, ExecNext, CurExecHeight
  <2> QED
    BY <1>17, <2>1, <2>2 DEF TypeOK, ExecNext, sendVars
<1>18. ASSUME up' \in [Nodes -> BOOLEAN],
              UNCHANGED <<rbVars, poolVars, sendVars, logVars, flagVars, callVars, execVars>>
       PROVE  TypeOK'
  BY <1>18 DEF TypeOK, sendVars
<1>19. ASSUME NEW n \in Nodes, up' = [up EXCEPT ![n] = FALSE]
       PROVE  up' \in [Nodes -> BOOLEAN]
  BY <1>19 DEF TypeOK
<1>20. CASE LeaderSegfault
  BY <1>18, <1>19, <1>20 DEF LeaderSegfault
<1>21. ASSUME NEW n \in Nodes, DuplicationFails(n) PROVE TypeOK'
  BY <1>18, <1>19, <1>21 DEF DuplicationFails
<1>22. ASSUME NEW p \in Followers, NEW h \in Heights, CallFails(p, h) PROVE TypeOK'
  BY <1>18, <1>19, <1>22 DEF CallFails
<1>23. ASSUME NEW n \in Nodes, ConcurrentMapAccess(n) \/ Kill(n) PROVE TypeOK'
  BY <1>18, <1>19, <1>23 DEF ConcurrentMapAccess, Kill
<1>24. CASE Finished \/ UNCHANGED vars
  BY <1>24 DEF TypeOK, Finished, vars, sendVars
<1> QED
  BY <1>1, <1>2, <1>3, <1>4, <1>5, <1>6, <1>7, <1>8, <1>9, <1>10, <1>11, <1>12, <1>13,
     <1>14, <1>15, <1>16, <1>17, <1>20, <1>21, <1>22, <1>23, <1>24
     DEF Next, Progress, Duplicating, Sending, Receiving, Returning, Execute

\* Every state of every behaviour is well typed.
THEOREM TypeCorrect == Spec => []TypeOK
<1>1. OrderingInit => TypeOK
  BY TypeInit
<1>2. TypeOK /\ [Next]_vars => TypeOK'
  BY TypeNext
<1> QED
  BY <1>1, <1>2, PTL DEF Spec

-----------------------------------------------------------------------------
(* What the queue holds.                                                   *)

\* Sending on the channel adds the height that is sent.
LEMMA ToSetAppend ==
  ASSUME NEW S, NEW s \in Seq(S), NEW e \in S
  PROVE  ToSet(Append(s, e)) = ToSet(s) \cup {e}
<1> DEFINE t == Append(s, e)
<1>1. /\ DOMAIN s = 1 .. Len(s) /\ DOMAIN t = 1 .. Len(s) + 1 /\ Len(s) \in Nat
      /\ \A i \in 1 .. Len(s) : t[i] = s[i]
      /\ t[Len(s) + 1] = e
  OBVIOUS
<1>2. \A i \in DOMAIN t : i \in DOMAIN s \/ i = Len(s) + 1
  BY <1>1
<1> HIDE DEF t
<1> QED
  BY <1>1, <1>2 DEF ToSet

\* Receiving from it leaves heights that it held, and yields one of them.
LEMMA ToSetTail ==
  ASSUME NEW S, NEW s \in Seq(S), s # << >>
  PROVE  /\ Head(s) \in ToSet(s) /\ Head(s) \in S
         /\ ToSet(Tail(s)) \subseteq ToSet(s)
<1>1. /\ DOMAIN s = 1 .. Len(s) /\ Len(s) \in Nat /\ Len(s) >= 1 /\ Head(s) = s[1]
      /\ DOMAIN Tail(s) = 1 .. (Len(s) - 1)
      /\ \A i \in 1 .. (Len(s) - 1) : Tail(s)[i] = s[i + 1]
  OBVIOUS
<1> QED
  BY <1>1 DEF ToSet

-----------------------------------------------------------------------------
(* The invariant of a follower.                                            *)

\* What FollowerInv(p) speaks of.
View(p) == <<call[p], logged[p], content[p], prepared[p], committed[p], executed[p],
             execCh[p], aheadSet[p], db[p]>>

\* A step that p, the blocks and Sending do not take part in.
LEMMA FollowerFrame ==
  ASSUME NEW p \in Followers, FollowerInv(p), UNCHANGED <<View(p), sendVars>>
  PROVE  FollowerInv(p)'
BY DEF FollowerInv, CallsInv, FollowerLogInv, FollowerExecInv, LoggedAsSent, Pending,
       View, sendVars

\* A step of the leader's goroutine that waits for a reply of p: the call has
\* left p, and stays behind both lookups.
LEMMA FollowerReturning ==
  ASSUME TypeOK, NEW p \in Followers, FollowerInv(p),
         UNCHANGED <<sendVars, logged[p], content[p], prepared[p], committed[p], executed[p],
                     execCh[p], aheadSet[p], db[p]>>,
         \A h \in Heights :
           call'[p][h] = call[p][h] \/ {call'[p][h], call[p][h]} \subseteq AfterLookup
  PROVE  FollowerInv(p)'
<1>1. ASSUME NEW h \in Heights
      PROVE  /\ call'[p][h] \in BeforeLookup <=> call[p][h] \in BeforeLookup
             /\ call'[p][h] \in BeforeInsert <=> call[p][h] \in BeforeInsert
             /\ call'[p][h] \in AfterLookup <=> call[p][h] \in AfterLookup
             /\ call'[p][h] = "none" <=> call[p][h] = "none"
  BY DEF BeforeLookup, BeforeInsert, AfterLookup
<1>2. CallsInv(p)'
  BY <1>1, Constants DEF FollowerInv, CallsInv, TypeOK, SendTypeOK, sendVars
<1>3. FollowerLogInv(p)'
  BY <1>1, Constants DEF FollowerInv, FollowerLogInv, LoggedAsSent, sendVars
<1>4. FollowerExecInv(p)'
  BY DEF FollowerInv, FollowerExecInv, Pending, sendVars
<1> QED
  BY <1>2, <1>3, <1>4 DEF FollowerInv

\* A new block lies above every call and every block that p has executed.
LEMMA FollowerBuild ==
  ASSUME TypeOK, NEW p \in Followers, FollowerInv(p), BuildBlock
  PROVE  FollowerInv(p)'
<1> USE Constants
<1>1. /\ UNCHANGED View(p)
      /\ Len(block') = Len(block) + 1 /\ Len(block) \in Nat
      /\ \A i \in 1 .. Len(block) : block'[i] = block[i]
  BY DEF BuildBlock, View, logVars, callVars, execVars, TypeOK, SendTypeOK, PoolTypeOK
<1>2. ASSUME NEW h \in Heights, LoggedAsSent(p, h)
      PROVE  LoggedAsSent(p, h)'
  <2>1. h <= Len(block)
    BY <1>1, <1>2 DEF TypeOK, CallTypeOK, LoggedAsSent, BeforeInsert
  <2> QED
    BY <1>1, <1>2, <2>1 DEF LoggedAsSent, View
<1>3. CallsInv(p)'
  <2>1. Len(block') \in Heights /\ Len(block') > Len(block)
    BY <1>1 DEF BuildBlock, TypeOK, SendTypeOK
  <2>2. call[p][Len(block')] = "none"
    BY <2>1 DEF TypeOK, CallTypeOK
  <2> QED
    BY <1>1, <2>2 DEF CallsInv, View
<1>4. FollowerLogInv(p)'
  BY <1>1, <1>2 DEF FollowerInv, FollowerLogInv, View
<1>5. FollowerExecInv(p)'
  BY <1>1 DEF FollowerInv, FollowerExecInv, Pending, View, TypeOK, ExecTypeOK
<1> QED
  BY <1>3, <1>4, <1>5 DEF FollowerInv

\* The calls of the newest block leave: neither its log nor the previous one
\* has been looked at by p.
LEMMA FollowerBroadcast ==
  ASSUME TypeOK, NEW p \in Followers, FollowerInv(p), sendPc # "idle", sendPc' = "idle",
         UNCHANGED <<block, logVars, execVars>>,
         NEW c \in [Followers -> [Heights -> CallStates]], call' = SendingCalls(c),
         \A h \in Heights : c[p][h] = call[p][h] \/ {c[p][h], call[p][h]} \subseteq AfterLookup
  PROVE  FollowerInv(p)'
<1> USE Constants
<1> DEFINE top == Len(block)
<1>1. /\ top \in Heights /\ call[p][top] = "none" /\ call'[p][top] = "sent"
      /\ \A h \in Heights \ {top} : call'[p][h] = c[p][h]
  BY DEF TypeOK, SendTypeOK, FollowerInv, CallsInv, SendingCalls
<1>2. ASSUME NEW h \in Heights
      PROVE  /\ call'[p][h] \in BeforeLookup => call[p][h] \in BeforeLookup
             /\ call'[p][h] \in BeforeInsert <=> call[p][h] \in BeforeInsert
             /\ call[p][h] \in AfterLookup => call'[p][h] \in AfterLookup
  BY <1>1 DEF BeforeLookup, BeforeInsert, AfterLookup
<1>3. ASSUME NEW h \in Heights, LoggedAsSent(p, h)
      PROVE  LoggedAsSent(p, h)'
  BY <1>2, <1>3 DEF LoggedAsSent, logVars
<1>4. FollowerLogInv(p)'
  BY <1>2, <1>3 DEF FollowerInv, FollowerLogInv, logVars
<1>5. CallsInv(p)' /\ FollowerExecInv(p)'
  BY DEF FollowerInv, CallsInv, FollowerExecInv, Pending, logVars, execVars
<1> QED
  BY <1>4, <1>5 DEF FollowerInv

\* One step of a handler of p.  Only the handler of height h, and the handler
\* of height h + 1 that found no log, write log h.
LEMMA FollowerReceiving ==
  ASSUME TypeOK, NEW p \in Followers, FollowerInv(p), NEW h \in Heights, Receiving(p, h)
  PROVE  FollowerInv(p)'
<1> USE Constants DEF FollowerInv
<1>1. /\ UNCHANGED <<sendVars, aheadSet, db>>
      /\ \A k \in Heights \ {h} : call'[p][k] = call[p][k]
      /\ call[p][h] # "none" /\ h <= Len(block)
  <2>1. UNCHANGED <<sendVars, aheadSet, db>> /\ call[p][h] # "none"
    BY DEF Receiving, StartReceiving, InsertPrepared, LookupCommit, InsertCommitted, Reply,
           execVars
  <2>2. \E s : call' = [call EXCEPT ![p][h] = s]
    BY DEF Receiving, StartReceiving, InsertPrepared, LookupCommit, InsertCommitted, Reply
  <2> QED
    BY <2>1, <2>2 DEF TypeOK, CallTypeOK, SendTypeOK
<1>2. CallsInv(p)'
  BY <1>1 DEF CallsInv, sendVars, TypeOK, SendTypeOK
<1>3. ASSUME UNCHANGED <<execCh, executed>> PROVE FollowerExecInv(p)'
  BY <1>1, <1>3 DEF FollowerExecInv, Pending, sendVars
<1>4. CASE StartReceiving(p, h)
  <2>1. /\ UNCHANGED <<logged, content, committed, executed, execCh>>
        /\ call[p][h] = "sent" /\ call'[p][h] \in {"prepared", "insert"}
        /\ prepared'[p] = prepared[p] \cup {h} \/ prepared'[p] = prepared[p]
        /\ h \notin logged[p] => call'[p][h] = "insert" 
        /\ h \in logged[p] => call'[p][h] = "prepared" 
    <3>1. /\ UNCHANGED <<logged, content, committed, executed, execCh>>
          /\ call[p][h] = "sent"
          /\ \/ /\ h \in logged[p]
                /\ call' = [call EXCEPT ![p][h] = "prepared"]
                /\ prepared' = [prepared EXCEPT ![p] = @ \cup {h}]
             \/ /\ h \notin logged[p]
                /\ call' = [call EXCEPT ![p][h] = "insert"]
                /\ prepared' = prepared
      BY <1>4 DEF StartReceiving, execVars
    <3>2. p \in DOMAIN call /\ h \in DOMAIN call[p] /\ p \in DOMAIN prepared
      BY DEF TypeOK, CallTypeOK, LogTypeOK
    <3> QED
      BY <3>1, <3>2
  <2>2. ASSUME NEW k \in Heights, LoggedAsSent(p, k), k # h
        PROVE  LoggedAsSent(p, k)'
    BY <1>1, <2>1, <2>2 DEF LoggedAsSent, sendVars
  <2>3. ~ LoggedAsSent(p, h)
    BY <2>1 DEF LoggedAsSent, BeforeInsert
  <2>4. FollowerLogInv(p)'
    <3>1. 0 \notin prepared'[p]
      BY <2>1 DEF FollowerLogInv
    <3>2. ASSUME NEW k \in Heights \cap logged'[p], 
                 k < MaxHeight => call'[p][k + 1] \in BeforeLookup
          PROVE  LoggedAsSent(p, k)'
      BY <1>1, <2>1, <2>2, <2>3, <3>2 DEF FollowerLogInv, BeforeLookup, BeforeInsert
    <3>3. ASSUME NEW k \in executed'[p]
          PROVE  /\ k \in Heights /\ k < MaxHeight
                 /\ LoggedAsSent(p, k)' /\ k \in committed'[p]
                 /\ call'[p][k + 1] \in AfterLookup
      BY <1>1, <2>1, <2>2, <2>3, <3>3 DEF FollowerLogInv, AfterLookup
    <3> QED
      BY <3>1, <3>2, <3>3 DEF FollowerLogInv
  <2> QED
    BY <1>2, <1>3, <2>1, <2>4
<1>5. CASE InsertPrepared(p, h)
  <2>1. /\ UNCHANGED execCh
        /\ call[p][h] = "insert" /\ call'[p][h] = "prepared"
        /\ logged'[p] = logged[p] \cup {h}
        /\ prepared'[p] = prepared[p] \cup {h}
        /\ committed'[p] = committed[p] \ {h}
        /\ executed' = [executed EXCEPT ![p] = @ \ {h}]
        /\ content'[p][h] = block[h]
        /\ \A k \in Heights \ {h} : content'[p][k] = content[p][k]
    BY <1>5 DEF InsertPrepared, PutLog, execVars, TypeOK, CallTypeOK, LogTypeOK
  <2>2. h \notin executed[p] /\ UNCHANGED executed
    BY <2>1 DEF FollowerLogInv, LoggedAsSent, BeforeInsert, TypeOK, LogTypeOK
  <2>3. ASSUME NEW k \in Heights, LoggedAsSent(p, k), k # h
        PROVE  LoggedAsSent(p, k)'
    BY <1>1, <2>1, <2>3 DEF LoggedAsSent, sendVars
  <2>4. LoggedAsSent(p, h)'
    BY <1>1, <2>1 DEF LoggedAsSent, sendVars, BeforeInsert
  <2>5. FollowerLogInv(p)'
    <3>1. 0 \notin prepared'[p]
      BY <2>1 DEF FollowerLogInv
    <3>2. ASSUME NEW k \in Heights \cap logged'[p],
                 k < MaxHeight => call'[p][k + 1] \in BeforeLookup
          PROVE  LoggedAsSent(p, k)'
      BY <1>1, <2>1, <2>3, <2>4, <3>2 DEF FollowerLogInv, BeforeLookup, BeforeInsert
    <3>3. ASSUME NEW k \in executed'[p]
          PROVE  /\ k \in Heights /\ k < MaxHeight
                 /\ LoggedAsSent(p, k)' /\ k \in committed'[p]
                 /\ call'[p][k + 1] \in AfterLookup
      BY <1>1, <2>1, <2>2, <2>3, <3>3 DEF FollowerLogInv, AfterLookup
    <3> QED
      BY <3>1, <3>2, <3>3 DEF FollowerLogInv
  <2> QED
    BY <1>2, <1>3, <2>1, <2>2, <2>5
<1>6. CASE LookupCommit(p, h) /\ h - 1 \notin logged[p]
  <2>1. /\ UNCHANGED <<logged, content, prepared, committed, executed, execCh>>
        /\ call[p][h] = "prepared" /\ call'[p][h] = "insertCommit"
    BY <1>6 DEF LookupCommit, TypeOK, CallTypeOK
  <2>2. ASSUME NEW k \in Heights, LoggedAsSent(p, k)
        PROVE  LoggedAsSent(p, k)'
    BY <1>1, <2>1, <2>2 DEF LoggedAsSent, sendVars, BeforeInsert
  <2>3. FollowerLogInv(p)'
    BY <1>1, <2>1, <2>2 DEF FollowerLogInv, BeforeLookup, BeforeInsert, AfterLookup
  <2> QED
    BY <1>2, <1>3, <2>1, <2>3
<1>7. CASE LookupCommit(p, h) /\ h - 1 \in logged[p]
  <2> DEFINE k == h - 1
             ready == k \in prepared[p] \ executed[p]
  <2>1. /\ UNCHANGED <<logged, content, prepared>>
        /\ call[p][h] = "prepared" /\ call'[p][h] = "committed"
        /\ committed'[p] = committed[p] \cup {k}
        /\ QueueIf(p, k, ready)
    <3>1. /\ UNCHANGED <<logged, content, prepared>>
          /\ call[p][h] = "prepared"
          /\ call' = [call EXCEPT ![p][h] = "committed"]
          /\ committed' = [committed EXCEPT ![p] = @ \cup {k}]
          /\ QueueIf(p, k, ready)
      BY <1>7 DEF LookupCommit
    <3>2. p \in DOMAIN call /\ h \in DOMAIN call[p] /\ p \in DOMAIN committed
      BY DEF TypeOK, CallTypeOK, LogTypeOK
    <3> QED
      BY <3>1, <3>2
  <2>2. ASSUME NEW j \in Heights, LoggedAsSent(p, j)
        PROVE  LoggedAsSent(p, j)'
    BY <1>1, <2>1, <2>2 DEF LoggedAsSent, sendVars, BeforeInsert
  <2>3. ASSUME ready
        PROVE  k \in Heights /\ k < MaxHeight /\ LoggedAsSent(p, k)
    <3>1. k \in Heights \cap logged[p] /\ k < MaxHeight /\ k + 1 = h
      BY <1>7, <2>3 DEF FollowerLogInv
    <3>2. call[p][k + 1] \in BeforeLookup
      BY <2>1, <3>1 DEF BeforeLookup
    <3> QED
      BY <3>1, <3>2 DEF FollowerLogInv
  <2>4. /\ executed'[p] \subseteq executed[p] \cup (IF ready THEN {k} ELSE {})
        /\ executed[p] \subseteq executed'[p]
    BY <2>1 DEF QueueIf, TypeOK, LogTypeOK
  <2>5. FollowerLogInv(p)'
    <3>1. 0 \notin prepared'[p]
      BY <2>1 DEF FollowerLogInv
    <3>2. ASSUME NEW j \in Heights \cap logged'[p],
                 j < MaxHeight => call'[p][j + 1] \in BeforeLookup
          PROVE  LoggedAsSent(p, j)'
      BY <1>1, <2>1, <2>2, <3>2 DEF FollowerLogInv, BeforeLookup, BeforeInsert
    <3>3. ASSUME NEW j \in executed'[p]
          PROVE  /\ j \in Heights /\ j < MaxHeight
                 /\ LoggedAsSent(p, j)' /\ j \in committed'[p]
                 /\ call'[p][j + 1] \in AfterLookup
      <4>1. CASE j \in executed[p]
        <5>1. /\ j \in Heights /\ j < MaxHeight
              /\ LoggedAsSent(p, j) /\ j \in committed[p]
              /\ call[p][j + 1] \in AfterLookup
          BY <4>1 DEF FollowerLogInv
        <5>2. call'[p][j + 1] \in AfterLookup
          BY <1>1, <2>1, <5>1 DEF AfterLookup
        <5> QED
          BY <2>1, <2>2, <5>1, <5>2
      <4>2. CASE j = k /\ ready
        BY <2>1, <2>2, <2>3, <4>2 DEF AfterLookup
      <4> QED
        BY <2>4, <3>3, <4>1, <4>2
    <3> QED
      BY <3>1, <3>2, <3>3 DEF FollowerLogInv
  <2>6. Pending(p)' \subseteq executed'[p]
    <3>1. CASE ready
      <4>1. execCh'[p] = Append(execCh[p], k) /\ k \in executed'[p]
        <5>1. /\ execCh' = [execCh EXCEPT ![p] = Append(@, k)]
              /\ executed' = [executed EXCEPT ![p] = @ \cup {k}]
          BY <2>1, <3>1 DEF QueueIf
        <5>2. p \in DOMAIN execCh /\ p \in DOMAIN executed
          BY DEF TypeOK, LogTypeOK, ExecTypeOK
        <5> QED
          BY <5>1, <5>2
      <4>2. ToSet(execCh'[p]) = ToSet(execCh[p]) \cup {k}
        <5>1. execCh[p] \in Seq(Heights0) /\ k \in Heights0
          BY DEF TypeOK, ExecTypeOK
        <5>2. ToSet(Append(execCh[p], k)) = ToSet(execCh[p]) \cup {k}
          BY <5>1, ToSetAppend
        <5> QED
          BY <4>1, <5>2
      <4> QED
        <5>1. Pending(p) \subseteq executed[p]
          BY <1>1 DEF FollowerExecInv
        <5>2. Pending(p)' = Pending(p) \cup {k}
          BY <1>1, <4>2 DEF Pending
        <5> QED
          BY <2>4, <4>1, <5>1, <5>2
    <3>2. CASE ~ ready
      BY <1>1, <2>1, <2>4, <3>2 DEF QueueIf, FollowerExecInv, Pending
    <3> QED
      BY <3>1, <3>2
  <2>7. FollowerExecInv(p)'
    BY <1>1, <2>6 DEF FollowerExecInv, sendVars
  <2> QED
    BY <1>2, <2>5, <2>7
<1>8. CASE InsertCommitted(p, h)
  <2> DEFINE k == h - 1
  <2>1. /\ UNCHANGED execCh
        /\ call[p][h] = "insertCommit" /\ call'[p][h] = "committed"
        /\ logged'[p] = logged[p] \cup {k}
        /\ prepared'[p] = prepared[p] \ {k}
        /\ committed'[p] = committed[p] \cup {k}
        /\ executed' = [executed EXCEPT ![p] = @ \ {k}]
        /\ \A j \in Heights \ {k} : content'[p][j] = content[p][j]
    BY <1>8 DEF InsertCommitted, PutLog, execVars, TypeOK, CallTypeOK, LogTypeOK
  <2>2. k \notin executed[p] /\ UNCHANGED executed
    <3>1. call[p][k + 1] \notin AfterLookup
      BY <2>1, k + 1 = h DEF AfterLookup
    <3>2. k \notin executed[p]
      BY <3>1 DEF FollowerLogInv
    <3> QED
      BY <2>1, <3>2 DEF TypeOK, LogTypeOK
  <2>3. ASSUME NEW j \in Heights, LoggedAsSent(p, j), j # k
        PROVE  LoggedAsSent(p, j)'
    BY <1>1, <2>1, <2>3 DEF LoggedAsSent, sendVars, BeforeInsert
  <2>4. FollowerLogInv(p)'
    <3>1. 0 \notin prepared'[p]
      BY <2>1 DEF FollowerLogInv
    <3>2. ASSUME NEW j \in Heights \cap logged'[p],
                 j < MaxHeight => call'[p][j + 1] \in BeforeLookup
          PROVE  LoggedAsSent(p, j)'
      <4>1. j # k
        BY <2>1, <3>2 DEF BeforeLookup, BeforeInsert
      <4> QED
        BY <1>1, <2>1, <2>3, <3>2, <4>1 DEF FollowerLogInv, BeforeLookup, BeforeInsert
    <3>3. ASSUME NEW j \in executed'[p]
          PROVE  /\ j \in Heights /\ j < MaxHeight
                 /\ LoggedAsSent(p, j)' /\ j \in committed'[p]
                 /\ call'[p][j + 1] \in AfterLookup
      <4>1. j \in executed[p] /\ j # k
        BY <2>2, <3>3
      <4>2. /\ j \in Heights /\ j < MaxHeight /\ LoggedAsSent(p, j) /\ j \in committed[p]
            /\ call[p][j + 1] \in AfterLookup
        BY <4>1 DEF FollowerLogInv
      <4>3. call'[p][j + 1] = call[p][j + 1]
        BY <1>1, <4>1, <4>2
      <4> QED
        BY <2>1, <2>3, <4>1, <4>2, <4>3
    <3> QED
      BY <3>1, <3>2, <3>3 DEF FollowerLogInv
  <2> QED
    BY <1>2, <1>3, <2>1, <2>2, <2>4
<1>9. CASE Reply(p, h)
  <2>1. /\ UNCHANGED <<logVars, execVars>>
        /\ call[p][h] = "committed" /\ call'[p][h] = "replied"
    BY <1>9 DEF Reply, TypeOK, CallTypeOK
  <2>2. FollowerLogInv(p)'
    <3>1. /\ UNCHANGED <<block, logged, content, prepared, committed, executed>>
          /\ \A k \in Heights : \/ call'[p][k] = call[p][k]
                                \/ call[p][k] = "committed" /\ call'[p][k] = "replied"
      <4>1. UNCHANGED <<block, logged, content, prepared, committed, executed>>
        BY <1>1, <2>1 DEF logVars, sendVars
      <4>2. \A k \in Heights : \/ call'[p][k] = call[p][k]
                               \/ call[p][k] = "committed" /\ call'[p][k] = "replied"
        <5> TAKE k \in Heights
        <5>1. CASE k = h
          BY <2>1, <5>1
        <5>2. CASE k # h
          BY <1>1, <5>2
        <5> QED
          BY <5>1, <5>2
      <4> QED
        BY <4>1, <4>2
    <3>2. ASSUME NEW k \in Heights, LoggedAsSent(p, k)
          PROVE  LoggedAsSent(p, k)'
      BY <3>1, <3>2 DEF LoggedAsSent, BeforeInsert
    <3>3. \A k \in Heights : /\ call'[p][k] \in BeforeLookup => call[p][k] \in BeforeLookup
                             /\ call[p][k] \in AfterLookup => call'[p][k] \in AfterLookup
      BY <3>1 DEF BeforeLookup, BeforeInsert, AfterLookup
    <3>4. ASSUME NEW k \in Heights \cap logged'[p],
                 k < MaxHeight => call'[p][k + 1] \in BeforeLookup
          PROVE  LoggedAsSent(p, k)'
      BY <3>1, <3>2, <3>3, <3>4 DEF FollowerLogInv
    <3>5. ASSUME NEW k \in executed'[p]
          PROVE  /\ k \in Heights /\ k < MaxHeight
                 /\ LoggedAsSent(p, k)' /\ k \in committed'[p]
                 /\ call'[p][k + 1] \in AfterLookup
      BY <3>1, <3>2, <3>3, <3>5 DEF FollowerLogInv
    <3> QED
      BY <3>1, <3>4, <3>5 DEF FollowerLogInv
  <2> QED
    BY <1>2, <1>3, <2>1, <2>2 DEF logVars, execVars
<1> QED
  BY <1>4, <1>5, <1>6, <1>7, <1>8, <1>9 DEF Receiving

\* execute takes heights that were queued, and runs the block that was sent.
LEMMA FollowerExecute ==
  ASSUME TypeOK, NEW p \in Followers, FollowerInv(p), Execute(p)
  PROVE  /\ FollowerInv(p)'
         /\ \/ UNCHANGED db
            \/ /\ Len(db[p]) < Len(block)
               /\ db' = [db EXCEPT ![p] = Append(@, block[Len(@) + 1])]
<1> USE Constants
<1>1. /\ UNCHANGED <<sendVars, logVars, call>>
      /\ execCh[p] \in Seq(Heights0) /\ aheadSet[p] \subseteq Heights0
      /\ db[p] \in Seq(Seq(Reqs)) /\ Len(db[p]) \in Nat /\ Len(block) \in Nat
      /\ p \in Nodes
  BY DEF Execute, ExecRecv, ExecNext, callVars, TypeOK, ExecTypeOK, SendTypeOK
<1>2. CallsInv(p)' /\ FollowerLogInv(p)'
  BY <1>1 DEF FollowerInv, CallsInv, FollowerLogInv, LoggedAsSent, sendVars, logVars
<1>3. CASE ExecRecv(p)
  <2>1. Pending(p)' \subseteq Pending(p)
    <3>1. /\ execCh[p] # << >> /\ execCh'[p] = Tail(execCh[p])
          /\ aheadSet'[p] \subseteq aheadSet[p] \cup {Head(execCh[p])}
      BY <1>1, <1>3 DEF ExecRecv, TypeOK, ExecTypeOK
    <3> QED
      BY <1>1, <3>1, ToSetTail DEF Pending
  <2>2. UNCHANGED db
    BY <1>3 DEF ExecRecv
  <2>3. FollowerExecInv(p)'
    BY <1>1, <2>1, <2>2 DEF FollowerInv, FollowerExecInv, sendVars, logVars
  <2> QED
    BY <1>2, <2>2, <2>3 DEF FollowerInv
<1>4. CASE ExecNext(p)
  <2> DEFINE h == Len(db[p]) + 1
  <2>1. /\ h \in aheadSet[p] /\ UNCHANGED execCh /\ aheadSet'[p] = aheadSet[p] \ {h}
        /\ db' = db \/ db' = [db EXCEPT ![p] = Append(@, content[p][h])]
    BY <1>1, <1>4 DEF ExecNext, CurExecHeight, TypeOK, ExecTypeOK
  <2>2. content[p][h] = block[h] /\ h <= Len(block)
    <3>1. h \in executed[p]
      BY <2>1 DEF FollowerInv, FollowerExecInv, Pending
    <3>2. h \in Heights /\ content[p][h] = block[h] /\ call[p][h] \notin BeforeInsert
      BY <3>1 DEF FollowerInv, FollowerLogInv, LoggedAsSent
    <3>3. ~ (h > Len(block))
      BY <3>2 DEF TypeOK, CallTypeOK, BeforeInsert
    <3> QED
      BY <1>1, <3>2, <3>3
  <2>3. Pending(p)' \subseteq executed'[p]
    BY <1>1, <2>1 DEF FollowerInv, FollowerExecInv, Pending, logVars
  <2>4. CASE db' = db
    BY <1>1, <1>2, <2>3, <2>4 DEF FollowerInv, FollowerExecInv, sendVars
  <2>5. CASE db' = [db EXCEPT ![p] = Append(@, content[p][h])]
    <3>1. db'[p] = Append(db[p], block[h])
      BY <1>1, <2>2, <2>5 DEF TypeOK, ExecTypeOK
    <3>2. /\ Len(db'[p]) = h
          /\ \A i \in 1 .. Len(db[p]) : db'[p][i] = db[p][i]
          /\ db'[p][h] = block[h]
      BY <1>1, <3>1
    <3>3. FollowerExecInv(p)'
      <4>1. \A i \in 1 .. Len(db'[p]) : i = h \/ i \in 1 .. Len(db[p])
        BY <1>1, <3>2
      <4>2. \A i \in 1 .. Len(db'[p]) : db'[p][i] = block[i]
        BY <3>2, <4>1 DEF FollowerInv, FollowerExecInv
      <4> QED
        BY <1>1, <2>2, <2>3, <3>2, <4>2 DEF FollowerExecInv, sendVars
    <3> QED
      BY <1>1, <1>2, <2>2, <2>5, <3>3 DEF FollowerInv
  <2> QED
    BY <2>1, <2>4, <2>5
<1> QED
  BY <1>3, <1>4 DEF Execute

-----------------------------------------------------------------------------
(* The invariant of the leader.                                            *)

\* A step that the leader's logs and channel take no part in.
LEMMA LeaderFrame ==
  ASSUME LeaderInv, Len(block') >= Len(block), Len(block) \in Nat, Len(block') \in Nat,
         executed[Leader] \subseteq Heights0,
         UNCHANGED <<logged[Leader], prepared[Leader], committed[Leader], executed[Leader],
                     execCh[Leader], aheadSet[Leader]>>
  PROVE  LeaderInv'
BY Constants DEF LeaderInv, Pending

\* The only log that the leader replaces is that of its newest block.
LEMMA LeaderRecord ==
  ASSUME TypeOK, LeaderInv, RecordBlock
  PROVE  LeaderInv'
<1> USE Constants
<1>1. /\ UNCHANGED <<block, execVars>>
      /\ logged'[Leader] = logged[Leader] \cup {Len(block)}
      /\ prepared[Leader] \ {Len(block)} \subseteq prepared'[Leader]
      /\ committed[Leader] \ {Len(block)} \subseteq committed'[Leader]
      /\ executed'[Leader] = executed[Leader] \ {Len(block)}
  BY DEF RecordBlock, PutLog, TypeOK, LogTypeOK
<1>2. Len(block) \notin executed[Leader]
  BY DEF LeaderInv, TypeOK, SendTypeOK
<1> QED
  BY <1>1, <1>2 DEF LeaderInv, Pending, execVars

\* A reply to the call of height h queues at most height h - 1, which has a log
\* and both flags.
LEMMA LeaderCount ==
  ASSUME TypeOK, LeaderInv, NEW p \in Followers, NEW h \in Heights, CountReply(p, h)
  PROVE  LeaderInv'
<1> USE Constants
<1> DEFINE k == h - 1
<1>1. PICK P \in SUBSET Heights0, C \in SUBSET Heights0 :
        /\ prepared'[Leader] = prepared[Leader] \cup P
        /\ committed'[Leader] = committed[Leader] \cup C
        /\ QueueIf(Leader, k, k \in (prepared'[Leader] \cap committed'[Leader])
                                     \ executed[Leader])
  <2> DEFINE P == {j \in {h, h - 1} : prepareConfirms'[j] >= FaultNum}
             C == {j \in {h, h - 1} : commitConfirms'[j] >= FaultNum}
  <2>1. /\ prepared' = [prepared EXCEPT ![Leader] = prepared[Leader] \cup P]
        /\ committed' = [committed EXCEPT ![Leader] = committed[Leader] \cup C]
        /\ QueueIf(Leader, k, k \in ((prepared[Leader] \cup P) \cap (committed[Leader] \cup C))
                                     \ executed[Leader])
    BY DEF CountReply, Check
  <2>2. prepared'[Leader] = prepared[Leader] \cup P /\ committed'[Leader] = committed[Leader] \cup C
    BY <2>1 DEF TypeOK, LogTypeOK
  <2>3. P \in SUBSET Heights0 /\ C \in SUBSET Heights0
    OBVIOUS
  <2> HIDE DEF P, C
  <2> QED
    BY <2>1, <2>2, <2>3
<1>2. UNCHANGED <<block, logged, aheadSet>> /\ k \in logged[Leader] /\ k < Len(block)
  <2>1. UNCHANGED <<block, logged, aheadSet>> /\ k \in logged[Leader]
    BY DEF CountReply, sendVars
  <2>2. call[p][h] # "none" /\ Len(block) \in Nat
    BY DEF CountReply, TypeOK, SendTypeOK
  <2>3. ~ (h > Len(block))
    BY <2>2 DEF TypeOK, CallTypeOK
  <2> QED
    BY <2>1, <2>2, <2>3
<1>3. CASE UNCHANGED <<executed, execCh>>
  BY <1>1, <1>2, <1>3 DEF LeaderInv, Pending
<1>4. CASE /\ k \in (prepared'[Leader] \cap committed'[Leader]) \ executed[Leader]
           /\ executed' = [executed EXCEPT ![Leader] = @ \cup {k}]
           /\ execCh' = [execCh EXCEPT ![Leader] = Append(@, k)]
  <2>1. /\ executed'[Leader] = executed[Leader] \cup {k}
        /\ execCh'[Leader] = Append(execCh[Leader], k)
        /\ execCh[Leader] \in Seq(Heights0) /\ k \in Heights0
    <3>1. executed \in [Nodes -> SUBSET Heights0] /\ execCh \in [Nodes -> Seq(Heights0)]
      BY DEF TypeOK, LogTypeOK, ExecTypeOK
    <3>2. k \in Heights0
      BY DEF Heights, Heights0
    <3> HIDE DEF k
    <3> QED
      BY <1>4, <3>1, <3>2
  <2>2. ToSet(execCh'[Leader]) = ToSet(execCh[Leader]) \cup {k}
    BY <2>1, ToSetAppend
  <2>3. /\ k \in prepared'[Leader] \cap committed'[Leader]
        /\ prepared[Leader] \subseteq prepared'[Leader]
        /\ committed[Leader] \subseteq committed'[Leader]
    BY <1>1, <1>4
  <2> HIDE DEF k
  <2> QED
    BY <1>2, <2>1, <2>2, <2>3 DEF LeaderInv, Pending
<1> QED
  BY <1>1, <1>3, <1>4 DEF QueueIf

\* execute takes heights off the queue.
LEMMA LeaderExecute ==
  ASSUME TypeOK, LeaderInv, Execute(Leader)
  PROVE  LeaderInv'
<1> USE Constants
<1>1. UNCHANGED <<block, logVars>> /\ execCh[Leader] \in Seq(Heights0)
  BY DEF Execute, ExecRecv, ExecNext, sendVars, TypeOK, ExecTypeOK
<1>2. Pending(Leader)' \subseteq Pending(Leader)
  <2>1. CASE ExecRecv(Leader)
    <3>1. /\ execCh[Leader] # << >> /\ execCh'[Leader] = Tail(execCh[Leader])
          /\ aheadSet'[Leader] \subseteq aheadSet[Leader] \cup {Head(execCh[Leader])}
      BY <1>1, <2>1 DEF ExecRecv, TypeOK, ExecTypeOK
    <3> QED
      BY <1>1, <3>1, ToSetTail DEF Pending
  <2>2. CASE ExecNext(Leader)
    BY <2>2 DEF ExecNext, Pending, TypeOK, ExecTypeOK
  <2> QED
    BY <2>1, <2>2 DEF Execute
<1> QED
  BY <1>1, <1>2 DEF LeaderInv, logVars

-----------------------------------------------------------------------------
(* The invariant of the system, and what follows from it.                  *)

\* The first state satisfies the invariant.
LEMMA InvInit == OrderingInit => OrderingInv
<1> SUFFICES ASSUME OrderingInit PROVE OrderingInv
  OBVIOUS
<1>1. TypeOK
  BY TypeInit
<1>2. /\ sendPc = "idle" /\ block = << >>
      /\ \A n \in Nodes : /\ logged[n] = {0} /\ prepared[n] = {} /\ executed[n] = {}
                          /\ execCh[n] = << >> /\ aheadSet[n] = {} /\ db[n] = << >>
  BY DEF OrderingInit
<1>3. \A n \in Nodes : Pending(n) = {}
  BY <1>2 DEF Pending, ToSet
<1>4. ASSUME NEW p \in Followers PROVE FollowerInv(p)
  BY <1>2, <1>3, Constants
     DEF FollowerInv, CallsInv, FollowerLogInv, FollowerExecInv
<1>5. LeaderInv
  BY <1>2, <1>3, Constants DEF LeaderInv
<1> QED
  BY <1>1, <1>4, <1>5 DEF OrderingInv

\* The three forms of Broadcast, as FollowerBroadcast takes them.
Broadcasting ==
  \/ Broadcast
  \/ \E u \in Reqs : BroadcastRacesAnnounce(u)
  \/ \E p \in Followers, h \in Heights : BroadcastRacesMerge(p, h)

\* Steps that change no log, no call, no channel, no block and no database.
Elsewhere == UNCHANGED <<sendVars, logVars, call, execVars>>

\* How a step can bear on the invariant.
LEMMA StepKinds ==
  ASSUME [Next]_vars
  PROVE  \/ Elsewhere \/ BuildBlock \/ RecordBlock \/ Broadcasting
         \/ \E p \in Followers, h \in Heights :
              Receiving(p, h) \/ CountReply(p, h) \/ MergeReply(p, h)
         \/ \E n \in Nodes : Execute(n)
<1>1. ASSUME NEW u \in Reqs, NEW n \in Nodes,
             MakeReq(u) \/ AnnounceReq(u) \/ StoreReq(n, u)
      PROVE  Elsewhere
  BY <1>1 DEF MakeReq, AnnounceReq, StoreReq, Elsewhere, callVars
<1>2. ASSUME NEW n \in Nodes, ConcurrentMapAccess(n) \/ Kill(n) \/ DuplicationFails(n)
      PROVE  Elsewhere
  BY <1>2 DEF ConcurrentMapAccess, Kill, DuplicationFails, Elsewhere, callVars
<1>3. ASSUME NEW p \in Followers, NEW h \in Heights, CallFails(p, h)
      PROVE  Elsewhere
  BY <1>3 DEF CallFails, Elsewhere, callVars
<1>4. CASE LeaderSegfault \/ Finished \/ UNCHANGED vars
  BY <1>4 DEF LeaderSegfault, Finished, vars, Elsewhere, callVars
<1> QED
  BY <1>1, <1>2, <1>3, <1>4, Constants
     DEF Next, Progress, Duplicating, Sending, Broadcasting, Returning

\* Every step keeps the invariant.
LEMMA InvNext == OrderingInv /\ [Next]_vars => OrderingInv'
<1> SUFFICES ASSUME OrderingInv, [Next]_vars PROVE OrderingInv'
  OBVIOUS
<1> USE Constants
<1>1. TypeOK /\ TypeOK' /\ LeaderInv /\ \A p \in Followers : FollowerInv(p)
  BY TypeNext DEF OrderingInv
<1>2. /\ Len(block) \in Nat /\ Len(block') \in Nat
      /\ executed[Leader] \subseteq Heights0
  BY <1>1 DEF TypeOK, SendTypeOK, LogTypeOK
<1>3. CASE Elsewhere
  <2>1. LeaderInv'
    BY <1>1, <1>2, <1>3, LeaderFrame DEF Elsewhere, sendVars, logVars, execVars
  <2>2. ASSUME NEW p \in Followers PROVE FollowerInv(p)'
    BY <1>1, <1>3, FollowerFrame DEF Elsewhere, sendVars, logVars, execVars, View
  <2> QED
    BY <1>1, <2>1, <2>2 DEF OrderingInv
<1>4. CASE BuildBlock
  <2>1. LeaderInv'
    <3>1. Len(block') = Len(block) + 1 /\ UNCHANGED <<logVars, execVars>>
      BY <1>1, <1>4 DEF BuildBlock, TypeOK, SendTypeOK, PoolTypeOK
    <3> QED
      BY <1>1, <1>2, <3>1, LeaderFrame DEF logVars, execVars
  <2> QED
    BY <1>1, <1>4, <2>1, FollowerBuild DEF OrderingInv
<1>5. CASE RecordBlock
  <2>1. LeaderInv'
    BY <1>1, <1>5, LeaderRecord
  <2>2. ASSUME NEW p \in Followers PROVE FollowerInv(p)'
    <3>1. UNCHANGED <<View(p), block>> /\ sendPc # "idle" /\ sendPc' # "idle"
      BY <1>1, <1>5 DEF RecordBlock, PutLog, View, callVars, execVars, TypeOK, LogTypeOK
    <3> QED
      BY <1>1, <3>1 DEF FollowerInv, CallsInv, FollowerLogInv, FollowerExecInv,
                        LoggedAsSent, Pending, View
  <2> QED
    BY <1>1, <2>1, <2>2 DEF OrderingInv
<1>6. CASE Broadcasting
  <2>1. /\ UNCHANGED <<block, logVars, execVars>>
        /\ sendPc # "idle" /\ sendPc' = "idle"
    BY <1>6 DEF Broadcasting, Broadcast, BroadcastRacesAnnounce, BroadcastRacesMerge, BroadcastDuring
  <2>2. LeaderInv'
    BY <1>1, <1>2, <2>1, LeaderFrame DEF logVars, execVars
  <2>3. PICK c \in [Followers -> [Heights -> CallStates]] :
          /\ call' = SendingCalls(c)
          /\ \A p \in Followers, h \in Heights :
               c[p][h] = call[p][h] \/ {c[p][h], call[p][h]} \subseteq AfterLookup
    <3>1. CASE call' = SendingCalls(call)
      BY <1>1, <3>1 DEF TypeOK, CallTypeOK
    <3>2. ASSUME NEW p \in Followers, NEW h \in Heights, BroadcastRacesMerge(p, h)
          PROVE  \E c \in [Followers -> [Heights -> CallStates]] :
                   /\ call' = SendingCalls(c)
                   /\ \A q \in Followers, k \in Heights :
                        c[q][k] = call[q][k] \/ {c[q][k], call[q][k]} \subseteq AfterLookup
      <4> DEFINE c == [call EXCEPT ![p][h] = "done"]
      <4>1. c \in [Followers -> [Heights -> CallStates]] /\ call' = SendingCalls(c)
        BY <1>1, <3>2 DEF BroadcastRacesMerge, BroadcastDuring, TypeOK, CallTypeOK, CallStates
      <4>2. ASSUME NEW q \in Followers, NEW k \in Heights
            PROVE  c[q][k] = call[q][k] \/ {c[q][k], call[q][k]} \subseteq AfterLookup
        BY <1>1, <3>2 DEF BroadcastRacesMerge, BroadcastDuring, TypeOK, CallTypeOK, AfterLookup
      <4> QED
        BY <4>1, <4>2
    <3> QED
      BY <1>6, <3>1, <3>2 DEF Broadcasting, Broadcast, BroadcastRacesAnnounce, BroadcastDuring
  <2>4. ASSUME NEW p \in Followers PROVE FollowerInv(p)'
    BY <1>1, <2>1, <2>3, FollowerBroadcast
  <2> QED
    BY <1>1, <2>2, <2>4 DEF OrderingInv
<1>7. ASSUME NEW p \in Followers, NEW h \in Heights, Receiving(p, h)
      PROVE  OrderingInv'
  <2>1. \A n \in Nodes \ {p} :
          /\ n \in Followers => UNCHANGED View(n)
          /\ UNCHANGED <<logged[n], prepared[n], committed[n], executed[n],
                         execCh[n], aheadSet[n]>>
    <3>1. ASSUME LookupCommit(p, h), NEW n \in Nodes \ {p}
          PROVE  UNCHANGED <<executed[n], execCh[n]>>
      <4>1. \/ QueueIf(p, h - 1, h - 1 \in prepared[p] \ executed[p])
            \/ UNCHANGED <<executed, execCh>>
        BY <3>1 DEF LookupCommit
      <4>2. LogTypeOK /\ ExecTypeOK /\ n # p /\ n \in Nodes
        BY <1>1 DEF TypeOK
      <4>3. CASE QueueIf(p, h - 1, h - 1 \in prepared[p] \ executed[p])
        BY <4>2, <4>3, QueueIfOthers
      <4>4. CASE UNCHANGED <<executed, execCh>>
        BY <4>4
      <4> QED
        BY <4>1, <4>3, <4>4
    <3>2. ASSUME NEW n \in Nodes \ {p}
          PROVE  /\ UNCHANGED <<logged[n], content[n], prepared[n], committed[n],
                                executed[n], execCh[n], aheadSet[n], db[n]>>
                 /\ n \in Followers => UNCHANGED call[n]
      <4> USE <1>1 DEF TypeOK, LogTypeOK, CallTypeOK, ExecTypeOK, execVars
      <4>1. CASE StartReceiving(p, h)
        BY <4>1 DEF StartReceiving
      <4>2. CASE InsertPrepared(p, h)
        BY <4>2 DEF InsertPrepared, PutLog
      <4>3. CASE LookupCommit(p, h)
        <5>1. UNCHANGED <<logged[n], content[n], prepared[n], aheadSet[n], db[n]>>
          BY <4>3 DEF LookupCommit
        <5>2. UNCHANGED <<executed[n], execCh[n]>>
          BY <3>1, <4>3
        <5>3. UNCHANGED committed[n] /\ (n \in Followers => UNCHANGED call[n])
          BY <4>3 DEF LookupCommit
        <5> QED
          BY <5>1, <5>2, <5>3
      <4>4. CASE InsertCommitted(p, h)
        BY <4>4 DEF InsertCommitted, PutLog
      <4>5. CASE Reply(p, h)
        BY <4>5 DEF Reply, logVars
      <4> QED
        BY <1>7, <4>1, <4>2, <4>3, <4>4, <4>5 DEF Receiving
    <3> QED
      BY <3>2 DEF View
  <2>2. UNCHANGED sendVars
    BY <1>7 DEF Receiving, StartReceiving, InsertPrepared, LookupCommit, InsertCommitted, Reply
  <2>3. LeaderInv'
    BY <1>1, <1>2, <2>1, <2>2, LeaderFrame DEF sendVars
  <2>4. ASSUME NEW q \in Followers PROVE FollowerInv(q)'
    BY <1>1, <1>7, <2>1, <2>2, FollowerFrame, FollowerReceiving
  <2> QED
    BY <1>1, <2>3, <2>4 DEF OrderingInv
<1>8. ASSUME NEW p \in Followers, NEW h \in Heights, CountReply(p, h)
      PROVE  OrderingInv'
  <2>1. LeaderInv'
    BY <1>1, <1>8, LeaderCount
  <2>2. ASSUME NEW q \in Followers PROVE FollowerInv(q)'
    <3>1. /\ UNCHANGED <<sendVars, logged[q], content[q], prepared[q], committed[q],
                         executed[q], execCh[q], aheadSet[q], db[q]>>
      <4>1. UNCHANGED <<sendVars, logged[q], content[q], aheadSet[q], db[q]>>
        BY <1>8 DEF CountReply
      <4>2. UNCHANGED <<prepared[q], committed[q]>>
        BY <1>1, <1>8 DEF CountReply, TypeOK, LogTypeOK
      <4>3. UNCHANGED <<executed[q], execCh[q]>>
        <5>1. \E ready : QueueIf(Leader, h - 1, ready)
          BY <1>8 DEF CountReply
        <5>2. LogTypeOK /\ ExecTypeOK /\ q # Leader /\ q \in Nodes
          BY <1>1 DEF TypeOK
        <5> QED
          BY <5>1, <5>2, QueueIfOthers
      <4> QED
        BY <4>1, <4>2, <4>3
    <3>2. ASSUME NEW k \in Heights
          PROVE  call'[q][k] = call[q][k] \/ {call'[q][k], call[q][k]} \subseteq AfterLookup
      BY <1>1, <1>8 DEF CountReply, TypeOK, CallTypeOK, AfterLookup
    <3> QED
      BY <1>1, <3>1, <3>2, FollowerReturning
  <2> QED
    BY <1>1, <2>1, <2>2 DEF OrderingInv
<1>9. ASSUME NEW p \in Followers, NEW h \in Heights, MergeReply(p, h)
      PROVE  OrderingInv'
  <2>1. UNCHANGED <<sendVars, logVars, execVars>>
    BY <1>9 DEF MergeReply
  <2>2. LeaderInv'
    BY <1>1, <1>2, <2>1, LeaderFrame DEF sendVars, logVars, execVars
  <2>3. ASSUME NEW q \in Followers PROVE FollowerInv(q)'
    <3>1. ASSUME NEW k \in Heights
          PROVE  call'[q][k] = call[q][k] \/ {call'[q][k], call[q][k]} \subseteq AfterLookup
      BY <1>1, <1>9 DEF MergeReply, TypeOK, CallTypeOK, AfterLookup
    <3> QED
      BY <1>1, <2>1, <3>1, FollowerReturning DEF logVars, execVars
  <2> QED
    BY <1>1, <2>2, <2>3 DEF OrderingInv
<1>10. ASSUME NEW n \in Nodes, Execute(n)
       PROVE  OrderingInv'
  <2>1. /\ UNCHANGED <<sendVars, logVars, call>>
        /\ \A m \in Nodes \ {n} : UNCHANGED <<execCh[m], aheadSet[m], db[m]>>
    BY <1>1, <1>10 DEF Execute, ExecRecv, ExecNext, callVars, TypeOK, ExecTypeOK
  <2>2. LeaderInv'
    <3>1. CASE n = Leader
      BY <1>1, <1>10, <3>1, LeaderExecute
    <3>2. CASE n # Leader
      BY <1>1, <1>2, <2>1, <3>2, LeaderFrame DEF sendVars, logVars
    <3> QED
      BY <3>1, <3>2
  <2>3. ASSUME NEW q \in Followers PROVE FollowerInv(q)'
    <3>1. CASE n = q
      BY <1>1, <1>10, <3>1, FollowerExecute
    <3>2. CASE n # q
      BY <1>1, <2>1, <3>2, FollowerFrame DEF View, logVars
    <3> QED
      BY <3>1, <3>2
  <2> QED
    BY <1>1, <2>2, <2>3 DEF OrderingInv
<1> QED
  BY <1>3, <1>4, <1>5, <1>6, <1>7, <1>8, <1>9, <1>10, StepKinds

\* The invariant holds throughout.
THEOREM InvCorrect == Spec => []OrderingInv
<1>1. OrderingInit => OrderingInv
  BY InvInit
<1>2. OrderingInv /\ [Next]_vars => OrderingInv'
  BY InvNext
<1> QED
  BY <1>1, <1>2, PTL DEF Spec

\* Agreement: every follower runs the blocks that the leader sent, in order.
THEOREM FollowersAgree == Spec => []FollowersExecuteSentBlocks
<1>1. OrderingInv => FollowersExecuteSentBlocks
  BY DEF OrderingInv, FollowerInv, FollowerExecInv, FollowersExecuteSentBlocks
<1> QED
  BY <1>1, InvCorrect, PTL

\* execute never panics on a block that is not prepared and committed.
THEOREM QueueIsRunnable == Spec => []QueuedBlocksAreRunnable
<1>1. OrderingInv => QueuedBlocksAreRunnable
  <2> SUFFICES ASSUME OrderingInv, NEW n \in Nodes
               PROVE  Pending(n) \subseteq logged[n] \cap prepared[n] \cap committed[n]
    BY DEF QueuedBlocksAreRunnable
  <2>1. CASE n = Leader
    BY <2>1 DEF OrderingInv, LeaderInv
  <2>2. CASE n \in Followers
    BY <2>2 DEF OrderingInv, FollowerInv, FollowerLogInv, FollowerExecInv, LoggedAsSent
  <2> QED
    BY <2>1, <2>2
<1> QED
  BY <1>1, InvCorrect, PTL

-----------------------------------------------------------------------------
(* A queued log is never replaced.                                         *)

\* No handler of p takes a height out of executed.
LEMMA ExecutedGrows ==
  ASSUME TypeOK, NEW p \in Followers, FollowerInv(p), NEW h \in Heights, Receiving(p, h)
  PROVE  executed[p] \subseteq executed'[p]
<1> USE Constants DEF TypeOK, LogTypeOK, FollowerInv
<1>1. CASE StartReceiving(p, h) \/ Reply(p, h)
  BY <1>1 DEF StartReceiving, Reply, logVars
<1>2. CASE LookupCommit(p, h)
  BY <1>2 DEF LookupCommit, QueueIf
<1>3. CASE InsertPrepared(p, h)
  <2>1. h \notin executed[p]
    BY <1>3 DEF InsertPrepared, FollowerLogInv, LoggedAsSent, BeforeInsert
  <2> QED
    BY <1>3, <2>1 DEF InsertPrepared, PutLog
<1>4. CASE InsertCommitted(p, h)
  <2>1. call[p][(h - 1) + 1] \notin AfterLookup
    BY <1>4 DEF InsertCommitted, AfterLookup
  <2>2. h - 1 \notin executed[p]
    BY <2>1 DEF FollowerLogInv
  <2> QED
    BY <1>4, <2>2 DEF InsertCommitted, PutLog
<1> QED
  BY <1>1, <1>2, <1>3, <1>4 DEF Receiving

\* No step changes the log of a height that is queued or was run.
LEMMA FrozenStep ==
  ASSUME OrderingInv, OrderingInv', [Next]_vars, NEW n \in Nodes, NEW k \in executed[n]
  PROVE  k \in executed'[n] /\ content'[n][k] = content[n][k]
<1> USE Constants DEF OrderingInv
<1>1. TypeOK
  OBVIOUS
<1>2. CASE UNCHANGED logVars
  BY <1>2 DEF logVars
<1>3. CASE RecordBlock
  <2>1. PutLog(Leader, Len(block), {}, pool[Leader])
    BY <1>3 DEF RecordBlock
  <2>2. n = Leader => k # Len(block)
    BY <1>1 DEF LeaderInv, TypeOK, SendTypeOK
  <2> QED
    BY <1>1, <2>1, <2>2 DEF PutLog, TypeOK, LogTypeOK
<1>4. ASSUME NEW p \in Followers, NEW h \in Heights, CountReply(p, h)
      PROVE  k \in executed'[n] /\ content'[n][k] = content[n][k]
  <2>1. UNCHANGED content /\ \E ready : QueueIf(Leader, h - 1, ready)
    BY <1>4 DEF CountReply
  <2>2. CASE UNCHANGED executed
    BY <2>1, <2>2
  <2>3. CASE executed' = [executed EXCEPT ![Leader] = @ \cup {h - 1}]
    BY <1>1, <2>1, <2>3 DEF TypeOK, LogTypeOK
  <2> QED
    BY <2>1, <2>2, <2>3 DEF QueueIf
<1>5. ASSUME NEW p \in Followers, NEW h \in Heights, Receiving(p, h)
      PROVE  k \in executed'[n] /\ content'[n][k] = content[n][k]
  <2>1. CASE n = p
    <3>1. k \in executed'[p]
      BY <1>1, <1>5, <2>1, ExecutedGrows
    <3>2. content[p][k] = block[k] /\ content'[p][k] = block'[k]
      BY <2>1, <3>1 DEF FollowerInv, FollowerLogInv, LoggedAsSent
    <3>3. UNCHANGED block
      BY <1>5 DEF Receiving, StartReceiving, InsertPrepared, LookupCommit, InsertCommitted,
                  Reply, sendVars
    <3> QED
      BY <2>1, <3>1, <3>2, <3>3
  <2>2. CASE n # p
    <3> USE <1>1, <2>2 DEF TypeOK, LogTypeOK
    <3>1. CASE StartReceiving(p, h) \/ Reply(p, h)
      BY <3>1 DEF StartReceiving, Reply, logVars
    <3>2. CASE LookupCommit(p, h)
      BY <3>2 DEF LookupCommit, QueueIf
    <3>3. CASE InsertPrepared(p, h) \/ InsertCommitted(p, h)
      BY <3>3 DEF InsertPrepared, InsertCommitted, PutLog
    <3> QED
      BY <1>5, <3>1, <3>2, <3>3 DEF Receiving
  <2> QED
    BY <2>1, <2>2
<1>6. ASSUME \/ Elsewhere \/ BuildBlock \/ Broadcasting
             \/ \E p \in Followers, h \in Heights : MergeReply(p, h)
             \/ \E m \in Nodes : Execute(m)
      PROVE  UNCHANGED logVars
  BY <1>6 DEF Elsewhere, BuildBlock, Broadcasting, Broadcast, BroadcastRacesAnnounce,
              BroadcastRacesMerge, BroadcastDuring, MergeReply, Execute, ExecRecv, ExecNext
<1> QED
  BY <1>2, <1>3, <1>4, <1>5, <1>6, StepKinds

\* Once queued, a log keeps its content and its executed flag.
THEOREM LogsFrozen == Spec => QueuedLogFrozen
<1>1. OrderingInv /\ OrderingInv' /\ [Next]_vars =>
        [\A n \in Nodes : \A h \in executed[n] :
           h \in executed'[n] /\ content'[n][h] = content[n][h]]_vars
  BY FrozenStep
<1> QED
  BY <1>1, InvCorrect, PTL DEF Spec, QueuedLogFrozen

-----------------------------------------------------------------------------
(* The followers implement the total order.                                *)

\* Sending a block extends the sequence by one block.
LEMMA BuildSeals ==
  ASSUME TypeOK, BuildBlock
  PROVE  Order!Seal
<1>1. pool[Leader] \in Seq(Reqs) /\ block \in Seq(Seq(Reqs))
  BY Constants DEF TypeOK, PoolTypeOK, SendTypeOK
<1>2. block' = Append(block, pool[Leader])
  BY DEF BuildBlock
<1>3. /\ block' \in Seq(Seq(Reqs)) /\ Len(block') = Len(block) + 1
      /\ SubSeq(block', 1, Len(block)) = block
  BY <1>1, <1>2
<1>4. UNCHANGED db
  BY DEF BuildBlock, execVars
<1> QED
  BY <1>3, <1>4 DEF Order!Seal

\* A step of execute at a follower applies the next block or nothing.
LEMMA ExecuteApplies ==
  ASSUME OrderingInv, NEW n \in Nodes, Execute(n)
  PROVE  [Order!TONext]_(Order!toVars)
<1> DEFINE applied == [p \in Followers |-> db[p]]
<1>1. UNCHANGED block
  BY DEF Execute, ExecRecv, ExecNext, sendVars
<1>2. CASE n = Leader
  <2>1. \A p \in Followers : db'[p] = db[p]
    BY <1>2, Constants DEF Execute, ExecRecv, ExecNext, OrderingInv, TypeOK, ExecTypeOK
  <2> QED
    BY <1>1, <2>1 DEF Order!toVars
<1>3. CASE n \in Followers
  <2>1. CASE UNCHANGED db
    BY <1>1, <2>1 DEF Order!toVars
  <2>2. CASE /\ Len(db[n]) < Len(block)
             /\ db' = [db EXCEPT ![n] = Append(@, block[Len(@) + 1])]
    <3>1. applied' = [applied EXCEPT ![n] = Append(@, block[Len(@) + 1])]
      BY <1>3, <2>2, Constants DEF OrderingInv, TypeOK, ExecTypeOK
    <3>2. Order!Apply(n)
      BY <1>1, <1>3, <2>2, <3>1 DEF Order!Apply
    <3> QED
      BY <1>3, <3>2 DEF Order!TONext
  <2> QED
    BY <1>3, <2>1, <2>2, FollowerExecute DEF OrderingInv
<1> QED
  BY <1>2, <1>3

\* The blocks that are sent and the databases of the followers refine TotalOrder.
THEOREM Implementation == Spec => ImplementsTotalOrder
<1>1. OrderingInit => Order!TOInit
  BY Constants DEF OrderingInit, Order!TOInit
<1>2. ASSUME OrderingInv, [Next]_vars
      PROVE  [Order!TONext]_(Order!toVars)
  <2>1. CASE BuildBlock
    BY <1>2, <2>1, BuildSeals DEF OrderingInv, Order!TONext
  <2>2. ASSUME NEW n \in Nodes, Execute(n) PROVE [Order!TONext]_(Order!toVars)
    BY <1>2, <2>2, ExecuteApplies
  <2>3. CASE UNCHANGED <<block, db>>
    BY <2>3 DEF Order!toVars
  <2>4. CASE Elsewhere \/ RecordBlock \/ Broadcasting
    <3>1. CASE Elsewhere \/ RecordBlock
      BY <2>3, <3>1 DEF Elsewhere, RecordBlock, sendVars, execVars
    <3>2. CASE Broadcasting
      BY <2>3, <3>2 DEF Broadcasting, Broadcast, BroadcastRacesAnnounce,
                        BroadcastRacesMerge, BroadcastDuring, execVars
    <3> QED
      BY <2>4, <3>1, <3>2
  <2>5. ASSUME NEW p \in Followers, NEW h \in Heights,
               Receiving(p, h) \/ CountReply(p, h) \/ MergeReply(p, h)
        PROVE  UNCHANGED <<block, db>>
    BY <2>5 DEF MergeReply, CountReply, Receiving, StartReceiving, InsertPrepared,
                LookupCommit, InsertCommitted, Reply, sendVars, execVars
  <2> QED
    BY <1>2, <2>1, <2>2, <2>3, <2>4, <2>5, StepKinds
<1> QED
  BY <1>1, <1>2, InvCorrect, PTL DEF Spec, ImplementsTotalOrder, Order!TOSpec
=============================================================================
