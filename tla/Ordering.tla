------------------------------ MODULE Ordering ------------------------------
(***************************************************************************)
(* The ordering phase of zpbft/server.go: one leader cuts blocks out of    *)
(* the requests whose duplication is confirmed (Sending), every follower   *)
(* logs them and reports its own confirmed requests (Receiving), and each  *)
(* node runs the blocks that are both prepared and committed (execute).    *)
(*                                                                         *)
(* One Receiving call per follower and height; net/rpc serves every call   *)
(* in a goroutine of its own, so the calls of two heights interleave at    *)
(* each lock region, and so do their replies.  A map entry                 *)
(* height2blockLog[h] of node n is spread over logged, content, prepared,  *)
(* committed and executed.  A panic of a goroutine ends the process.       *)
(***************************************************************************)
EXTENDS ReliableBroadcast, SequencesExt

CONSTANTS Leader,     \* the only proposer (ProposerNum = 1)
          ChanSize,   \* places of execCh
          MaxHeight,  \* bound: the leader stops after this many blocks
          MaxKills    \* bound: no node is killed when this many are down

ASSUME LeaderAssumption == Leader \in Nodes
ASSUME ChanAssumption == ChanSize \in Nat \ {0}
ASSUME BoundsAssumption == MaxHeight \in Nat /\ MaxKills \in Nat

Followers == Peers(Leader)
Heights   == 1 .. MaxHeight
Heights0  == 0 .. MaxHeight      \* RunServer reserves the log of height 0

VARIABLES
  up,              \* up[n]: the process n is running
  pool,            \* pool[n]: localDuplicatedReqs
  torn,            \* the leader's slice header has a length and no array
  sendPc,          \* how far the leader's call of Sending has come
  block,           \* the blocks as sent; currentBlockIndex is its length
  logged,          \* logged[n]: the keys of height2blockLog
  content,         \* content[n][h]: duplicatedReqs of the entry
  prepared, committed, executed,      \* sets of heights, the entry's flags
  prepareConfirms, commitConfirms,    \* lengths of the leader's lists
  call,            \* call[p][h]: how far the call Receiving(h) of p has come
  reply,           \* reply[p][h]: NewDuplicatedReqs, until it is merged
  execCh,          \* execCh[n]
  aheadSet,        \* aheadSet[n], local to execute
  db               \* db[n]: the blocks run so far; curExecHeight is one more

logVars  == <<logged, content, prepared, committed, executed>>
flagVars == <<prepareConfirms, commitConfirms>>
callVars == <<call, reply>>
execVars == <<execCh, aheadSet, db>>
sendVars == <<sendPc, block>>
poolVars == <<pool, torn>>
vars == <<rbVars, up, poolVars, sendVars, logVars, flagVars, callVars, execVars>>

CallStates == {"none",          \* the block has not been sent
               "sent",          \* on its way, or its handler has not begun
               "insert",        \* the lookup of h found no log
               "prepared",      \* h is logged, h - 1 not looked up
               "insertCommit",  \* the lookup of h - 1 found no log
               "committed",     \* both logs dealt with, no reply yet
               "replied",       \* the reply is on its way to the leader
               "counted",       \* the leader counted it, not merged yet
               "done"}

OrderingInit ==
  /\ RBInit
  /\ up = [n \in Nodes |-> TRUE]
  /\ pool = [n \in Nodes |-> << >>] /\ torn = FALSE
  /\ sendPc = "idle" /\ block = << >>
  /\ logged = [n \in Nodes |-> {0}]
  /\ content = [n \in Nodes |-> [h \in Heights0 |-> << >>]]
  /\ prepared = [n \in Nodes |-> {}]
  /\ committed = [n \in Nodes |-> {}]
  /\ executed = [n \in Nodes |-> {}]
  /\ prepareConfirms = [h \in Heights0 |-> 0]
  /\ commitConfirms = [h \in Heights0 |-> 0]
  /\ call = [p \in Followers |-> [h \in Heights |-> "none"]]
  /\ reply = [p \in Followers |-> [h \in Heights |-> << >>]]
  /\ execCh = [n \in Nodes |-> << >>]
  /\ aheadSet = [n \in Nodes |-> {}]
  /\ db = [n \in Nodes |-> << >>]

-----------------------------------------------------------------------------
(* The duplication phase, as ReliableBroadcast abstracts it.               *)

MakeReq(u) ==
  /\ up[Origin[u]]
  /\ Make(u)
  /\ UNCHANGED <<up, poolVars, sendVars, logVars, flagVars, callVars, execVars>>

StoreReq(n, u) ==
  /\ up[n]
  /\ Store(n, u)
  /\ UNCHANGED <<up, poolVars, sendVars, logVars, flagVars, callVars, execVars>>

\* verifyBallot appends the request to the pool of its origin.
AnnounceReq(u) ==
  /\ up[Origin[u]]
  /\ Origin[u] = Leader => ~torn
  /\ Announce(u)
  /\ pool' = [pool EXCEPT ![Origin[u]] = Append(@, u)]
  /\ UNCHANGED <<up, torn, sendVars, logVars, flagVars, callVars, execVars>>

\* A node stops in the duplication of a payload: a call to a peer that is down
\* panics, and so does one to a peer that the node has not dialled yet, before
\* it makes requests of its own.
DuplicationFails(n) ==
  /\ up[n] /\ held[n] # {}
  /\ \/ \E q \in Peers(n) : ~up[q]
     \/ \A v \in held[n] : Origin[v] # n
  /\ up' = [up EXCEPT ![n] = FALSE]
  /\ UNCHANGED <<rbVars, poolVars, sendVars, logVars, flagVars, callVars, execVars>>

-----------------------------------------------------------------------------
(* height2blockLog[h] = &BlockLog{...}: a new entry replaces an old one.   *)

PutLog(n, h, flags, reqs) ==
  LET Flag(S, f) == IF f \in flags THEN S \cup {h} ELSE S \ {h}
  IN  /\ logged' = [logged EXCEPT ![n] = @ \cup {h}]
      /\ content' = [content EXCEPT ![n][h] = reqs]
      /\ prepared' = [prepared EXCEPT ![n] = Flag(@, "prepared")]
      /\ committed' = [committed EXCEPT ![n] = Flag(@, "committed")]
      /\ executed' = [executed EXCEPT ![n] = @ \ {h}]

-----------------------------------------------------------------------------
(* The leader: Sending, called again and again by controlSending.          *)

\* workLoop starts controlSending when connect and its first makeReq have returned.
SendingStarted == \E u \in held[Leader] : Origin[u] = Leader

\* The first critical section: copy the pool into the block to send.
BuildBlock ==
  /\ up[Leader] /\ SendingStarted
  /\ sendPc = "idle" /\ ~torn
  /\ Len(block) < MaxHeight
  /\ block' = Append(block, pool[Leader])
  /\ sendPc' = "built"
  /\ UNCHANGED <<rbVars, up, poolVars, logVars, flagVars, callVars, execVars>>

\* Mutant: the pool is cleared before the leader logs the block.
RecordAfterClear ==
  /\ up[Leader] /\ sendPc = "built"
  /\ PutLog(Leader, Len(block), {}, << >>)
  /\ sendPc' = "recorded"
  /\ UNCHANGED <<rbVars, up, poolVars, block, flagVars, callVars, execVars>>

\* The second: the leader's own log takes the pool as it is by now.
RecordBlock ==
  /\ up[Leader] /\ sendPc = "built"
  /\ PutLog(Leader, Len(block), {}, pool[Leader])
  /\ sendPc' = "recorded"
  /\ UNCHANGED <<rbVars, up, poolVars, block, flagVars, callVars, execVars>>

\* The calls of the newest block leave, on top of the calls in c.
SendingCalls(c) ==
  [p \in Followers |-> [c[p] EXCEPT ![Len(block)] = "sent"]]

\* The pool is cleared outside of the lock, then one goroutine per peer calls.
Broadcast ==
  /\ up[Leader] /\ sendPc = "recorded"
  /\ pool' = [pool EXCEPT ![Leader] = << >>]
  /\ call' = SendingCalls(call)
  /\ sendPc' = "idle"
  /\ UNCHANGED <<rbVars, up, torn, block, logVars, flagVars, reply, execVars>>

\* What that unlocked write leaves when it overlaps the loop that appends
\* batch: the clear falls between two appends, or an append that moves the
\* array overwrites it, or the header mixes a nil array with a length.
ClearRaces(batch) ==
  \/ \E k \in 1 .. Len(batch) :
       /\ pool' = [pool EXCEPT ![Leader] = SubSeq(batch, k, Len(batch))]
       /\ UNCHANGED torn
  \/ /\ pool' = [pool EXCEPT ![Leader] = @ \o batch]
     /\ UNCHANGED torn
  \/ /\ pool' = [pool EXCEPT ![Leader] = << >>]
     /\ torn' = TRUE

\* Broadcast while batch is being appended, on top of the calls in c.
BroadcastDuring(batch, c) ==
  /\ up[Leader] /\ sendPc = "recorded"
  /\ ClearRaces(batch)
  /\ call' = SendingCalls(c)
  /\ sendPc' = "idle"
  /\ UNCHANGED <<up, block, logVars, flagVars, execVars>>

BroadcastRacesAnnounce(u) ==
  /\ Origin[u] = Leader
  /\ Announce(u)
  /\ BroadcastDuring(<<u>>, call)
  /\ UNCHANGED reply

BroadcastRacesMerge(p, h) ==
  /\ call[p][h] = "counted"
  /\ BroadcastDuring(reply[p][h], [call EXCEPT ![p][h] = "done"])
  /\ reply' = [reply EXCEPT ![p][h] = << >>]
  /\ UNCHANGED rbVars

\* Reading or growing a slice without an array faults.
LeaderSegfault ==
  /\ up[Leader] /\ torn
  /\ up' = [up EXCEPT ![Leader] = FALSE]
  /\ UNCHANGED <<rbVars, poolVars, sendVars, logVars, flagVars, callVars, execVars>>

-----------------------------------------------------------------------------
(* A follower: Receiving.                                                  *)

\* The lookup of the block's log, and the flag when there is one.
StartReceiving(p, h) ==
  /\ up[p] /\ call[p][h] = "sent"
  /\ \/ /\ h \in logged[p]
        /\ prepared' = [prepared EXCEPT ![p] = @ \cup {h}]
        /\ call' = [call EXCEPT ![p][h] = "prepared"]
     \/ /\ h \notin logged[p]
        /\ call' = [call EXCEPT ![p][h] = "insert"]
        /\ UNCHANGED prepared
  /\ UNCHANGED <<rbVars, up, poolVars, sendVars, logged, content, committed,
                 executed, flagVars, reply, execVars>>

\* Mutant: the handlers share the block that arrived last.
InsertLastBlock(p, h) ==
  /\ up[p] /\ call[p][h] = "insert"
  /\ PutLog(p, h, {"prepared"}, Last(block))
  /\ call' = [call EXCEPT ![p][h] = "prepared"]
  /\ UNCHANGED <<rbVars, up, poolVars, sendVars, flagVars, reply, execVars>>

InsertPrepared(p, h) ==
  /\ up[p] /\ call[p][h] = "insert"
  /\ PutLog(p, h, {"prepared"}, block[h])
  /\ call' = [call EXCEPT ![p][h] = "prepared"]
  /\ UNCHANGED <<rbVars, up, poolVars, sendVars, flagVars, reply, execVars>>

\* Mutant: executed is never set.
QueueAgain(n, h, ready) ==
  /\ execCh' = [execCh EXCEPT ![n] = IF ready THEN Append(@, h) ELSE @]
  /\ UNCHANGED executed

\* What "prepared && committed && !executed" does with the log of height h.  A
\* full channel stops the goroutine, at the leader with two log mutexes held;
\* execute takes no mutex.
QueueIf(n, h, ready) ==
  \/ /\ ready /\ Len(execCh[n]) < ChanSize
     /\ executed' = [executed EXCEPT ![n] = @ \cup {h}]
     /\ execCh' = [execCh EXCEPT ![n] = Append(@, h)]
  \/ /\ ~ready
     /\ UNCHANGED <<executed, execCh>>

\* Mutant: a committed log is inserted even when there is one already.
LookupThenInsert(p, h) ==
  /\ up[p] /\ call[p][h] = "prepared"
  /\ committed' = [committed EXCEPT ![p] = @ \cup ({h - 1} \cap logged[p])]
  /\ QueueIf(p, h - 1, h - 1 \in prepared[p] \ executed[p])
  /\ call' = [call EXCEPT ![p][h] = "insertCommit"]
  /\ UNCHANGED <<rbVars, up, poolVars, sendVars, logged, content, prepared,
                 flagVars, reply, aheadSet, db>>

\* Mutant: the log is committed and not tested.
LookupOnly(p, h) ==
  /\ up[p] /\ call[p][h] = "prepared"
  /\ committed' = [committed EXCEPT ![p] = @ \cup {h - 1}]
  /\ call' = [call EXCEPT ![p][h] = "committed"]
  /\ UNCHANGED <<rbVars, up, poolVars, sendVars, logged, content, prepared, executed,
                 flagVars, reply, execVars>>

\* The lookup of the previous block's log, its flag, and the test on it.
LookupCommit(p, h) ==
  /\ up[p] /\ call[p][h] = "prepared"
  /\ \/ /\ h - 1 \in logged[p]
        /\ committed' = [committed EXCEPT ![p] = @ \cup {h - 1}]
        /\ QueueIf(p, h - 1, h - 1 \in prepared[p] \ executed[p])
        /\ call' = [call EXCEPT ![p][h] = "committed"]
     \/ /\ h - 1 \notin logged[p]
        /\ call' = [call EXCEPT ![p][h] = "insertCommit"]
        /\ UNCHANGED <<committed, executed, execCh>>
  /\ UNCHANGED <<rbVars, up, poolVars, sendVars, logged, content, prepared,
                 flagVars, reply, aheadSet, db>>

InsertCommitted(p, h) ==
  /\ up[p] /\ call[p][h] = "insertCommit"
  /\ PutLog(p, h - 1, {"committed"}, << >>)
  /\ call' = [call EXCEPT ![p][h] = "committed"]
  /\ UNCHANGED <<rbVars, up, poolVars, sendVars, flagVars, reply, execVars>>

\* Mutant: the pool is reported and kept.
ReplyAndKeep(p, h) ==
  /\ up[p] /\ call[p][h] = "committed"
  /\ reply' = [reply EXCEPT ![p][h] = pool[p]]
  /\ call' = [call EXCEPT ![p][h] = "replied"]
  /\ UNCHANGED <<rbVars, up, poolVars, sendVars, logVars, flagVars, execVars>>

\* The reply takes the follower's announced requests along.
Reply(p, h) ==
  /\ up[p] /\ call[p][h] = "committed"
  /\ reply' = [reply EXCEPT ![p][h] = pool[p]]
  /\ pool' = [pool EXCEPT ![p] = << >>]
  /\ call' = [call EXCEPT ![p][h] = "replied"]
  /\ UNCHANGED <<rbVars, up, torn, sendVars, logVars, flagVars, execVars>>

-----------------------------------------------------------------------------
(* The leader's goroutine that waits for the reply.                        *)

\* Mutant: a threshold that is one too low.
CheckOneTooFew(confirms) == confirms >= FaultNum - 1

\* BlockLog.check: a flag is set when its list has FaultNum entries.
Check(confirms) == confirms >= FaultNum

\* Mutant: one of the two flags is enough to queue the older block.
CountReplyEitherFlag(p, h) ==
  /\ up[Leader] /\ call[p][h] = "replied"
  /\ prepareConfirms' = [prepareConfirms EXCEPT ![h] = @ + 1]
  /\ commitConfirms' = [commitConfirms EXCEPT ![h - 1] = @ + 1]
  /\ LET isPrepared == prepared[Leader] \cup {k \in {h, h - 1} : Check(prepareConfirms'[k])}
         isCommitted == committed[Leader] \cup {k \in {h, h - 1} : Check(commitConfirms'[k])}
     IN  /\ prepared' = [prepared EXCEPT ![Leader] = isPrepared]
         /\ committed' = [committed EXCEPT ![Leader] = isCommitted]
         /\ QueueIf(Leader, h - 1,
                    h - 1 \in (isPrepared \cup isCommitted) \ executed[Leader])
  /\ call' = [call EXCEPT ![p][h] = IF reply[p][h] = << >> THEN "done" ELSE "counted"]
  /\ UNCHANGED <<rbVars, up, poolVars, sendVars, logged, content, reply, aheadSet, db>>

\* Mutant: the reply is counted and no log is queued.
CountReplyOnly(p, h) ==
  /\ up[Leader] /\ call[p][h] = "replied"
  /\ prepareConfirms' = [prepareConfirms EXCEPT ![h] = @ + 1]
  /\ commitConfirms' = [commitConfirms EXCEPT ![h - 1] = @ + 1]
  /\ call' = [call EXCEPT ![p][h] = IF reply[p][h] = << >> THEN "done" ELSE "counted"]
  /\ UNCHANGED <<rbVars, up, poolVars, sendVars, logVars, reply, execVars>>

\* Under both log mutexes: append to the lists, check both logs, and test the
\* older one.
CountReply(p, h) ==
  /\ up[Leader] /\ call[p][h] = "replied"
  /\ {h, h - 1} \subseteq logged[Leader]
  /\ prepareConfirms' = [prepareConfirms EXCEPT ![h] = @ + 1]
  /\ commitConfirms' = [commitConfirms EXCEPT ![h - 1] = @ + 1]
  /\ LET isPrepared == prepared[Leader] \cup {k \in {h, h - 1} : Check(prepareConfirms'[k])}
         isCommitted == committed[Leader] \cup {k \in {h, h - 1} : Check(commitConfirms'[k])}
     IN  /\ prepared' = [prepared EXCEPT ![Leader] = isPrepared]
         /\ committed' = [committed EXCEPT ![Leader] = isCommitted]
         /\ QueueIf(Leader, h - 1,
                    h - 1 \in (isPrepared \cap isCommitted) \ executed[Leader])
  /\ call' = [call EXCEPT ![p][h] = IF reply[p][h] = << >> THEN "done" ELSE "counted"]
  /\ UNCHANGED <<rbVars, up, poolVars, sendVars, logged, content, reply, aheadSet, db>>

MergeReply(p, h) ==
  /\ up[Leader] /\ ~torn
  /\ call[p][h] = "counted"
  /\ pool' = [pool EXCEPT ![Leader] = @ \o reply[p][h]]
  /\ reply' = [reply EXCEPT ![p][h] = << >>]
  /\ call' = [call EXCEPT ![p][h] = "done"]
  /\ UNCHANGED <<rbVars, up, torn, sendVars, logVars, flagVars, execVars>>

\* The call of a follower that is down returns an error, and the caller panics:
\* also when the handler has come to its end, if the reply is lost.
Unanswered == {"sent", "insert", "prepared", "insertCommit", "committed", "replied"}

\* Mutant: the error is logged and ignored.
CallErrorIgnored(p, h) ==
  /\ up[Leader] /\ ~up[p]
  /\ call[p][h] \in Unanswered
  /\ call' = [call EXCEPT ![p][h] = "done"]
  /\ UNCHANGED <<rbVars, up, poolVars, sendVars, logVars, flagVars, reply, execVars>>

CallFails(p, h) ==
  /\ up[Leader] /\ ~up[p]
  /\ call[p][h] \in Unanswered
  /\ up' = [up EXCEPT ![Leader] = FALSE]
  /\ UNCHANGED <<rbVars, poolVars, sendVars, logVars, flagVars, callVars, execVars>>

-----------------------------------------------------------------------------
(* Every node: the goroutine execute.                                      *)

CurExecHeight(n) == Len(db[n]) + 1

\* Mutant: the height that is due counts as old.
ExecRecvDropsDue(n) ==
  /\ up[n] /\ execCh[n] # << >>
  /\ CurExecHeight(n) \notin aheadSet[n]
  /\ aheadSet' = [aheadSet EXCEPT ![n] =
       IF Head(execCh[n]) <= CurExecHeight(n) THEN @ ELSE @ \cup {Head(execCh[n])}]
  /\ execCh' = [execCh EXCEPT ![n] = Tail(@)]
  /\ UNCHANGED <<rbVars, up, poolVars, sendVars, logVars, flagVars, callVars, db>>

\* Mutant: a height that is not due goes back to the channel.
ExecRecvPutsBack(n) ==
  LET h == Head(execCh[n])
      due == h = CurExecHeight(n)
  IN  /\ up[n] /\ execCh[n] # << >>
      /\ CurExecHeight(n) \notin aheadSet[n]
      /\ aheadSet' = [aheadSet EXCEPT ![n] = IF due THEN @ \cup {h} ELSE @]
      /\ execCh' = [execCh EXCEPT ![n] = IF due THEN Tail(@) ELSE Append(Tail(@), h)]
      /\ UNCHANGED <<rbVars, up, poolVars, sendVars, logVars, flagVars, callVars, db>>

\* The range loop: it takes a height when the inner loop has come to its end.
ExecRecv(n) ==
  /\ up[n] /\ execCh[n] # << >>
  /\ CurExecHeight(n) \notin aheadSet[n]
  /\ aheadSet' = [aheadSet EXCEPT ![n] =
       IF Head(execCh[n]) < CurExecHeight(n) THEN @ ELSE @ \cup {Head(execCh[n])}]
  /\ execCh' = [execCh EXCEPT ![n] = Tail(@)]
  /\ UNCHANGED <<rbVars, up, poolVars, sendVars, logVars, flagVars, callVars, db>>

\* Mutant: heights run as they come.
ExecAnyOrder(n) ==
  \E h \in aheadSet[n] :
    /\ up[n]
    /\ aheadSet' = [aheadSet EXCEPT ![n] = @ \ {h}]
    /\ db' = [db EXCEPT ![n] = Append(@, content[n][h])]
    /\ UNCHANGED <<rbVars, up, poolVars, sendVars, logVars, flagVars, callVars, execCh>>

\* One round of the inner loop: the height leaves aheadSet before the log and
\* the payloads are looked at.
ExecNext(n) ==
  LET h == CurExecHeight(n)
      runnable == h \in logged[n] /\ h \in prepared[n] /\ h \in committed[n]
      complete == ToSet(content[n][h]) \subseteq held[n]
  IN  /\ up[n] /\ h \in aheadSet[n]
      /\ aheadSet' = [aheadSet EXCEPT ![n] = @ \ {h}]
      /\ up' = [up EXCEPT ![n] = runnable]
      /\ db' = [db EXCEPT ![n] = IF runnable /\ complete
                                   THEN Append(@, content[n][h]) ELSE @]
      /\ UNCHANGED <<rbVars, poolVars, sendVars, logVars, flagVars, callVars, execCh>>

\* execute reads height2blockLog without the lock; when an insertion overlaps,
\* the runtime may end the process (concurrent map read and map write).
Inserting(n) ==
  IF n = Leader THEN sendPc = "built"
  ELSE \E h \in Heights : call[n][h] \in {"insert", "insertCommit"}

ConcurrentMapAccess(n) ==
  /\ up[n] /\ CurExecHeight(n) \in aheadSet[n] /\ Inserting(n)
  /\ up' = [up EXCEPT ![n] = FALSE]
  /\ UNCHANGED <<rbVars, poolVars, sendVars, logVars, flagVars, callVars, execVars>>

-----------------------------------------------------------------------------
(* The environment, and the end of a bounded behaviour.                    *)

Kill(n) ==
  /\ up[n]
  /\ Cardinality({m \in Nodes : ~up[m]}) < MaxKills
  /\ up' = [up EXCEPT ![n] = FALSE]
  /\ UNCHANGED <<rbVars, poolVars, sendVars, logVars, flagVars, callVars, execVars>>

ExecIdle(n) == execCh[n] = << >> /\ CurExecHeight(n) \notin aheadSet[n]

\* Nothing is left to do: the leader is down or has sent its last block, and
\* every call and every execution on a running node has come to its end.
Finished ==
  /\ ~up[Leader] \/ (Len(block) = MaxHeight /\ sendPc = "idle" /\ ~torn)
  /\ \A p \in Followers, h \in Heights :
       \/ call[p][h] \in {"none", "done"}
       \/ ~up[Leader] /\ (~up[p] \/ call[p][h] \in {"replied", "counted"})
  /\ \A n \in Nodes : up[n] => ExecIdle(n)
  /\ UNCHANGED vars

-----------------------------------------------------------------------------
Duplicating ==
  \/ \E n \in Nodes : DuplicationFails(n)
  \/ \E u \in Reqs : \/ MakeReq(u) \/ AnnounceReq(u)
                     \/ \E n \in Nodes : StoreReq(n, u)

Sending ==
  \/ BuildBlock \/ RecordBlock \/ Broadcast
  \/ \E u \in Reqs : BroadcastRacesAnnounce(u)
  \/ \E p \in Followers, h \in Heights : BroadcastRacesMerge(p, h)

Receiving(p, h) ==
  \/ StartReceiving(p, h) \/ InsertPrepared(p, h)
  \/ LookupCommit(p, h) \/ InsertCommitted(p, h) \/ Reply(p, h)

Returning(p, h) == CountReply(p, h) \/ MergeReply(p, h)

Execute(n) == ExecRecv(n) \/ ExecNext(n)

\* What the goroutines of running processes and the transport do by themselves.
Progress ==
  \/ Sending \/ LeaderSegfault
  \/ \E p \in Followers, h \in Heights :
       Receiving(p, h) \/ Returning(p, h) \/ CallFails(p, h)
  \/ \E n \in Nodes : Execute(n)

Next ==
  \/ Duplicating \/ Progress
  \/ \E n \in Nodes : ConcurrentMapAccess(n) \/ Kill(n)
  \/ Finished

Spec == OrderingInit /\ [][Next]_vars

\* A goroutine of some running process that can go on does so, the transport
\* included; as nothing is done twice, none is passed over for ever.  Nothing makes
\* the clients, a kill or a race happen, so the leader may never start.
Fairness == WF_vars(Progress)

FairSpec == Spec /\ Fairness

-----------------------------------------------------------------------------
RBTypeOK   == held \in [Nodes -> SUBSET Reqs] /\ announced \in SUBSET Reqs
PoolTypeOK == pool \in [Nodes -> Seq(Reqs)] /\ torn \in BOOLEAN
SendTypeOK ==
  /\ sendPc \in {"idle", "built", "recorded"}
  /\ block \in Seq(Seq(Reqs)) /\ Len(block) <= MaxHeight
  /\ sendPc # "idle" => Len(block) \in Heights
LogTypeOK ==
  /\ logged \in [Nodes -> SUBSET Heights0]
  /\ content \in [Nodes -> [Heights0 -> Seq(Reqs)]]
  /\ prepared \in [Nodes -> SUBSET Heights0]
  /\ committed \in [Nodes -> SUBSET Heights0]
  /\ executed \in [Nodes -> SUBSET Heights0]
FlagTypeOK ==
  /\ prepareConfirms \in [Heights0 -> Nat]
  /\ commitConfirms \in [Heights0 -> Nat]
\* A handler runs only for a block that was sent, so block[h] is defined.
CallTypeOK ==
  /\ call \in [Followers -> [Heights -> CallStates]]
  /\ reply \in [Followers -> [Heights -> Seq(Reqs)]]
  /\ \A p \in Followers : \A h \in Heights : h > Len(block) => call[p][h] = "none"
ExecTypeOK ==
  /\ execCh \in [Nodes -> Seq(Heights0)]
  /\ aheadSet \in [Nodes -> SUBSET Heights0]
  /\ db \in [Nodes -> Seq(Seq(Reqs))]

TypeOK ==
  /\ up \in [Nodes -> BOOLEAN]
  /\ RBTypeOK /\ PoolTypeOK /\ SendTypeOK /\ LogTypeOK
  /\ FlagTypeOK /\ CallTypeOK /\ ExecTypeOK

-----------------------------------------------------------------------------
(* Safety.                                                                 *)

\* A follower runs the blocks as the leader sent them, in the order of their
\* heights, without gap or repetition, whatever the order of its handlers.
FollowersExecuteSentBlocks ==
  \A p \in Followers :
    /\ Len(db[p]) <= Len(block)
    /\ \A i \in 1 .. Len(db[p]) : db[p][i] = block[i]

\* The leader runs every block it sent with the content it sent, possibly
\* followed by requests that joined the pool before it logged the block.
LeaderExtendsSentBlocks ==
  /\ Len(db[Leader]) <= Len(block)
  /\ \A h \in 1 .. Len(db[Leader]) : IsPrefix(block[h], db[Leader][h])

Answered(h) == {p \in Followers : call[p][h] \in {"replied", "counted", "done"}}

\* The leader queues a block only when FaultNum followers have answered the
\* call that carries it and FaultNum followers the one that commits it.
ExecutedQuorum ==
  \A h \in executed[Leader] \ {0} :
    /\ h < MaxHeight
    /\ Cardinality(Answered(h)) >= FaultNum
    /\ Cardinality(Answered(h + 1)) >= FaultNum

Pending(n) == ToSet(execCh[n]) \cup aheadSet[n]

\* execute never meets a height that it would panic on: what is queued is
\* logged, prepared and committed.
QueuedBlocksAreRunnable ==
  \A n \in Nodes : Pending(n) \subseteq logged[n] \cap prepared[n] \cap committed[n]

\* No height is queued twice, or again after its block has run.
QueuedOnce ==
  \A n \in Nodes :
    /\ IsInjective(execCh[n])
    /\ ToSet(execCh[n]) \cap aheadSet[n] = {}
    /\ Pending(n) \cap (1 .. Len(db[n])) = {}

\* Once a block is queued, no handler replaces its log: neither its content
\* nor its executed flag is lost to the insertion of another call.
QueuedLogFrozen ==
  [][\A n \in Nodes : \A h \in executed[n] :
       h \in executed'[n] /\ content'[n][h] = content[n][h]]_vars

Reports(p, u) == {h \in Heights : u \in ToSet(reply[p][h])}

\* A follower's request travels to the leader once: it is in its pool, or in
\* one reply, and not in a block or in the leader's pool before the merge.
ReportedOnce ==
  \A p \in Followers : \A u \in Reqs :
    /\ Cardinality(Reports(p, u)) <= 1
    /\ u \in ToSet(pool[p]) => Reports(p, u) = {}
    /\ u \in ToSet(pool[p]) \/ Reports(p, u) # {} =>
         /\ u \notin ToSet(pool[Leader])
         /\ \A i \in 1 .. Len(block) : u \notin ToSet(block[i])

\* A queued block runs when its turn comes, unless one of its payloads has not
\* arrived by then: nothing else makes execute pass it over, and it does not end
\* the process.
QueuedRunsOrLacksPayload ==
  [][\A n \in Nodes : \A h \in Pending(n) \ Pending(n)' :
       h <= Len(db'[n]) \/ ~(ToSet(content[n][h]) \subseteq held[n])]_vars

\* The followers implement the total order: the blocks sent are the sequence,
\* and each follower applies a prefix of it.
Order == INSTANCE TotalOrder WITH
           Replicas <- Followers, Batches <- Seq(Reqs),
           order <- block, applied <- [p \in Followers |-> db[p]]
ImplementsTotalOrder == Order!TOSpec

-----------------------------------------------------------------------------
(* The strengthening that makes the safety of execution inductive.         *)

BeforeInsert == {"none", "sent", "insert"}
BeforeLookup == BeforeInsert \cup {"prepared"}
AfterLookup  == {"committed", "replied", "counted", "done"}

\* The newest block is not on its way before Broadcast.
CallsInv(p) == sendPc # "idle" => call[p][Len(block)] = "none"

\* p's log of height h is the one that Receiving(h) inserted.
LoggedAsSent(p, h) ==
  /\ h \in logged[p] \cap prepared[p]
  /\ call[p][h] \notin BeforeInsert
  /\ content[p][h] = block[h]

\* Until Receiving(h + 1) has looked for it, only Receiving(h) inserts log h;
\* and a log that was queued is out of reach of both.
FollowerLogInv(p) ==
  /\ 0 \notin prepared[p]
  /\ \A h \in Heights \cap logged[p] :
       (h < MaxHeight => call[p][h + 1] \in BeforeLookup) => LoggedAsSent(p, h)
  /\ \A h \in executed[p] :
       /\ h \in Heights /\ h < MaxHeight
       /\ LoggedAsSent(p, h) /\ h \in committed[p]
       /\ call[p][h + 1] \in AfterLookup

FollowerExecInv(p) ==
  /\ Pending(p) \subseteq executed[p]
  /\ Len(db[p]) <= Len(block)
  /\ \A i \in 1 .. Len(db[p]) : db[p][i] = block[i]

FollowerInv(p) == CallsInv(p) /\ FollowerLogInv(p) /\ FollowerExecInv(p)

\* The leader queues a block only after it has sent the next one, so the flags
\* of a queued block are not reset by RecordBlock any more.
LeaderInv ==
  /\ \A h \in executed[Leader] :
       /\ h < Len(block)
       /\ h \in logged[Leader] \cap prepared[Leader] \cap committed[Leader]
  /\ Pending(Leader) \subseteq executed[Leader]

OrderingInv == TypeOK /\ (\A p \in Followers : FollowerInv(p)) /\ LeaderInv

-----------------------------------------------------------------------------
(* The same for what is run once, counted, merged and reported.            *)

\* A height is in one place of the queue at most, and not after it has run;
\* a height that has run was queued, so it is not queued again.
RunOnceInv(n) ==
  /\ IsInjective(execCh[n])
  /\ ToSet(execCh[n]) \cap aheadSet[n] = {}
  /\ Pending(n) \cap (1 .. Len(db[n])) = {}
  /\ 1 .. Len(db[n]) \subseteq executed[n]

\* The followers whose reply for height h is in the leader's lists.
Counted(h) == {p \in Followers : call[p][h] \in {"counted", "done"}}

\* The lists are as long as the calls say, and a flag has a full list behind it.
CountInv ==
  /\ \A h \in Heights : /\ prepareConfirms[h] = Cardinality(Counted(h))
                         /\ commitConfirms[h - 1] = Cardinality(Counted(h))
  /\ \A h \in prepared[Leader] : Check(prepareConfirms[h])
  /\ \A h \in committed[Leader] : Check(commitConfirms[h])

\* Between the two copies the pool only grows, so the leader's log of a block,
\* and what it runs, begins with the block as sent.
ExtendInv ==
  /\ sendPc = "built" => IsPrefix(block[Len(block)], pool[Leader])
  /\ \A h \in 1 .. Len(block) :
       (sendPc = "built" => h < Len(block)) => IsPrefix(block[h], content[Leader][h])
  /\ \A h \in 1 .. Len(db[Leader]) : IsPrefix(block[h], db[Leader][h])

\* u is in p's pool or on its way from there; the leader has got hold of u.
Reporting(p, u) == u \in ToSet(pool[p]) \/ Reports(p, u) # {}
Collected(u) ==
  u \in ToSet(pool[Leader]) \/ \E i \in 1 .. Len(block) : u \in ToSet(block[i])

\* A follower reports announced requests of its own, each once, and the leader
\* gets hold of announced requests only.
ReportInv(u) ==
  /\ \A p \in Followers :
       /\ Reporting(p, u) => u \in announced /\ Origin[u] = p /\ ~Collected(u)
       /\ u \in ToSet(pool[p]) => Reports(p, u) = {}
       /\ \A h, k \in Reports(p, u) : h = k
  /\ Collected(u) => u \in announced

AccountInv ==
  /\ \A n \in Nodes : RunOnceInv(n)
  /\ \A u \in Reqs : ReportInv(u)
  /\ CountInv /\ ExtendInv

-----------------------------------------------------------------------------
(* Liveness.                                                               *)

\* Every call returns and is merged, unless its leader or follower stops.
CallsReturn ==
  \A p \in Followers, h \in Heights :
    call[p][h] = "sent" ~> call[p][h] = "done" \/ ~up[p] \/ ~up[Leader]

\* Once the leader has begun to send blocks, a follower that stops takes it down
\* with the next block.  Before, connect may wait for that follower for ever.
FollowerStopStopsLeader ==
  SendingStarted /\ Len(block) < MaxHeight /\ (\E p \in Followers : ~up[p])
    ~> ~up[Leader]

-----------------------------------------------------------------------------
(* What the code and its comments suggest.  The code does not keep the     *)
(* first, and the others only when the network is prompt: see              *)
(* OrderingPrompt.                                                         *)

\* An announced request is in a pool, in a reply, in a block, or in the log that
\* the leader keeps of a block.
AnnouncedIsKept ==
  up[Leader] /\ ~torn =>
    \A u \in announced :
      \/ \E n \in Nodes : u \in ToSet(pool[n])
      \/ \E p \in Followers : Reports(p, u) # {}
      \/ \E i \in 1 .. Len(block) : u \in ToSet(block[i]) \cup ToSet(content[Leader][i])

\* A follower that has answered for a block and for the next one has queued
\* the block: both of its flags were set.
AnsweredIsQueued ==
  \A p \in Followers, h \in Heights \ {MaxHeight} :
    up[p] /\ p \in Answered(h) \cap Answered(h + 1) => h \in executed[p]

\* When the leader has counted every reply for two consecutive blocks, it has
\* queued the older one.
CountedIsQueued ==
  \A h \in Heights \ {MaxHeight} :
    (\A p \in Followers : {call[p][h], call[p][h + 1]} \subseteq {"counted", "done"})
      => h \in executed[Leader]
=============================================================================
