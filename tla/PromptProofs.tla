---------------------------- MODULE PromptProofs ----------------------------
(***************************************************************************)
(* On a prompt network the ordering phase leaves no block behind: what is  *)
(* answered is queued, and what is counted is queued.  For every number of *)
(* nodes, requests, blocks and kills.                                      *)
(***************************************************************************)
EXTENDS OrderingPrompt, AccountingProofs

USE DEF Followers, Peers, Heights, Heights0

\* The prompt behaviours are behaviours of Ordering.
LEMMA PromptAccount == PromptSpec => [](OrderingInv /\ AccountInv)
<1>1. PromptSpec => Spec
  <2>1. PromptNext => Next
    BY DEF PromptNext
  <2> QED
    BY <2>1, PTL DEF PromptSpec, Spec
<1> QED
  BY <1>1, InvCorrect, AccountCorrect, PTL

-----------------------------------------------------------------------------
(* The calls of a height are done before those of the next are sent.       *)

\* How a step moves the calls of a prompt network.
LEMMA CallKinds ==
  ASSUME OrderingInv, [Next]_vars, UNCHANGED vars \/ Prompt
  PROVE  \/ /\ UNCHANGED call
            /\ \/ UNCHANGED <<block, sendPc>>
               \/ UNCHANGED block /\ sendPc # "idle" /\ sendPc' # "idle"
               \/ sendPc = "idle" /\ sendPc' # "idle" /\ Len(block') = Len(block) + 1
         \/ /\ call' = SendingCalls(call) /\ AllReturned /\ sendPc # "idle" /\ UNCHANGED block
         \/ \E p \in Followers, h \in Heights :
              \E s \in CallStates \ {"none"} :
                /\ call' = [call EXCEPT ![p][h] = s] /\ call[p][h] \notin {"none", "done"}
                /\ UNCHANGED <<block, sendPc>>
<1> USE Constants
<1>1. CASE Elsewhere \/ \E n \in Nodes : Execute(n)
  BY <1>1 DEF Elsewhere, Execute, ExecRecv, ExecNext, sendVars, callVars
<1>2. CASE RecordBlock
  BY <1>2 DEF RecordBlock, callVars
<1>3. CASE BuildBlock
  <2>1. Len(block') = Len(block) + 1
    BY <1>3 DEF BuildBlock, OrderingInv, TypeOK, SendTypeOK, PoolTypeOK
  <2> QED
    BY <1>3, <2>1 DEF BuildBlock, callVars
<1>4. CASE Broadcasting
  <2>1. sendPc = "recorded" /\ sendPc' = "idle" /\ UNCHANGED block
    BY <1>4 DEF Broadcasting, Broadcast, BroadcastRacesAnnounce, BroadcastRacesMerge,
                BroadcastDuring
  <2>2. AllReturned
    BY <2>1 DEF Prompt, vars, sendVars
  <2>3. \A p \in Followers, h \in Heights : call[p][h] # "counted"
    BY <2>2 DEF AllReturned
  <2>4. call' = SendingCalls(call)
    BY <1>4, <2>3 DEF Broadcasting, Broadcast, BroadcastRacesAnnounce, BroadcastRacesMerge,
                      BroadcastDuring
  <2> QED
    BY <2>1, <2>2, <2>4
<1>5. ASSUME NEW p \in Followers, NEW h \in Heights,
             Receiving(p, h) \/ CountReply(p, h) \/ MergeReply(p, h)
      PROVE  \E s \in CallStates \ {"none"} :
               /\ call' = [call EXCEPT ![p][h] = s] /\ call[p][h] \notin {"none", "done"}
               /\ UNCHANGED <<block, sendPc>>
  <2>1. CASE StartReceiving(p, h) \/ InsertPrepared(p, h) \/ LookupCommit(p, h)
    BY <2>1 DEF StartReceiving, InsertPrepared, LookupCommit, sendVars, CallStates
  <2>2. CASE InsertCommitted(p, h) \/ Reply(p, h)
    BY <2>2 DEF InsertCommitted, Reply, sendVars, CallStates
  <2>3. CASE CountReply(p, h) \/ MergeReply(p, h)
    BY <2>3 DEF CountReply, MergeReply, sendVars, CallStates
  <2> QED
    BY <1>5, <2>1, <2>2, <2>3 DEF Receiving
<1> QED
  BY <1>1, <1>2, <1>3, <1>4, <1>5, StepKinds

\* Every step of a prompt network keeps the turns.
LEMMA InTurnNext ==
  ASSUME OrderingInv, InTurnInv, [Next]_vars, UNCHANGED vars \/ Prompt
  PROVE  InTurnInv'
<1> USE Constants
<1>1. /\ call \in [Followers -> [Heights -> CallStates]]
      /\ Len(block) \in Nat
      /\ sendPc # "idle" => Len(block) \in Heights /\ \A p \in Followers : call[p][Len(block)] = "none"
  BY DEF OrderingInv, TypeOK, CallTypeOK, SendTypeOK, FollowerInv, CallsInv
<1>2. CASE /\ UNCHANGED call
           /\ \/ UNCHANGED <<block, sendPc>>
              \/ UNCHANGED block /\ sendPc # "idle" /\ sendPc' # "idle"
              \/ sendPc = "idle" /\ sendPc' # "idle" /\ Len(block') = Len(block) + 1
  <2>1. \A h \in Heights : h < Len(block) + 1 => h < Len(block) \/ h = Len(block)
    BY <1>1
  <2> QED
    BY <1>2, <2>1 DEF InTurnInv
<1>3. CASE call' = SendingCalls(call) /\ AllReturned /\ sendPc # "idle" /\ UNCHANGED block
  <2> DEFINE top == Len(block)
  <2>1. top \in Heights
    BY <1>1, <1>3
  <2>2. \A p \in Followers, h \in Heights : call'[p][h] = IF h = top THEN "sent" ELSE call[p][h]
    BY <1>1, <1>3, <2>1 DEF SendingCalls
  <2> SUFFICES ASSUME NEW p \in Followers, NEW q \in Followers, NEW h \in Heights, NEW k \in Heights
               PROVE  /\ h < k /\ call'[q][k] # "none" => call'[p][h] = "done"
                      /\ h < top \/ (h = top /\ sendPc' = "idle") => call'[p][h] # "none"
    BY <1>3 DEF InTurnInv
  <2>3. h < top => call[p][h] # "none"
    BY DEF InTurnInv
  <2>4. h < top => call[p][h] = "done"
    BY <2>3, <1>3 DEF AllReturned
  <2>5. call[p][top] = "none"
    BY <1>1, <1>3
  <2> HIDE DEF top
  <2>6. ASSUME h < k, call'[q][k] # "none" PROVE call'[p][h] = "done"
    <3>1. CASE k = top
      BY <2>2, <2>4, <2>6, <3>1
    <3>2. CASE k # top
      BY <2>2, <2>5, <2>6, <3>2 DEF InTurnInv
    <3> QED
      BY <3>1, <3>2
  <2> QED
    BY <2>2, <2>3, <2>6
<1>4. ASSUME NEW r \in Followers, NEW j \in Heights, NEW s \in CallStates \ {"none"},
             call' = [call EXCEPT ![r][j] = s], call[r][j] \notin {"none", "done"},
             UNCHANGED <<block, sendPc>>
      PROVE  InTurnInv'
  <2>1. \A p \in Followers, h \in Heights :
          \/ call'[p][h] = call[p][h]
          \/ p = r /\ h = j /\ call'[p][h] # "none"
    BY <1>1, <1>4
  <2>2. \A p \in Followers, h \in Heights : call[p][h] = "done" => call'[p][h] = "done"
    BY <1>4, <2>1
  <2>3. \A p \in Followers, h \in Heights : call'[p][h] # "none" <=> call[p][h] # "none"
    BY <1>4, <2>1
  <2> QED
    BY <1>4, <2>2, <2>3 DEF InTurnInv
<1> QED
  BY <1>2, <1>3, <1>4, CallKinds

-----------------------------------------------------------------------------
(* Each handler finds the log of the block before.                         *)

\* A step that takes p past neither lookup and removes none of its logs or flags.
LEMMA FoundFrame ==
  ASSUME NEW p \in Followers, FoundInv(p),
         logged[p] \subseteq logged'[p], prepared[p] \subseteq prepared'[p],
         executed[p] \subseteq executed'[p],
         \A h \in Heights : \/ call'[p][h] \in {call[p][h], "sent", "insert"}
                            \/ {call[p][h], call'[p][h]} \subseteq AfterLookup
  PROVE  FoundInv(p)'
<1> SUFFICES ASSUME NEW h \in Heights
             PROVE  /\ call'[p][h] # "insertCommit"
                    /\ call'[p][h] \notin BeforeInsert => h \in logged'[p] \cap prepared'[p]
                    /\ call'[p][h] \in AfterLookup /\ h > 1 => h - 1 \in executed'[p]
  BY DEF FoundInv
<1>1. CASE call'[p][h] = call[p][h]
  BY <1>1 DEF FoundInv
<1>2. CASE call'[p][h] \in {"sent", "insert"}
  BY <1>2 DEF BeforeInsert, AfterLookup
<1>3. CASE {call[p][h], call'[p][h]} \subseteq AfterLookup
  BY <1>3 DEF FoundInv, BeforeInsert, AfterLookup
<1> QED
  BY <1>1, <1>2, <1>3

\* A handler of p: the log of its own block is there after the first lookup or
\* the insertion, and that of the block before when it looks for it.
LEMMA FoundReceiving ==
  ASSUME OrderingInv, InTurnInv, NEW p \in Followers, FoundInv(p), NEW h \in Heights,
         Receiving(p, h), executed[p] \subseteq executed'[p]
  PROVE  FoundInv(p)'
<1> USE Constants
<1>1. /\ call \in [Followers -> [Heights -> CallStates]]
      /\ logged \in [Nodes -> SUBSET Heights0] /\ prepared \in [Nodes -> SUBSET Heights0]
      /\ h \in Nat /\ h >= 1
  BY DEF OrderingInv, TypeOK, CallTypeOK, LogTypeOK
<1>2. CASE StartReceiving(p, h) /\ h \notin logged[p]
  BY <1>1, <1>2, FoundFrame DEF StartReceiving
<1>3. CASE Reply(p, h)
  BY <1>1, <1>3, FoundFrame DEF Reply, logVars, AfterLookup
<1>4. CASE InsertCommitted(p, h)
  BY <1>4 DEF InsertCommitted, FoundInv
<1>5. CASE \/ StartReceiving(p, h) /\ h \in logged[p]
           \/ InsertPrepared(p, h)
  <2>1. /\ logged'[p] = logged[p] \cup {h} /\ prepared'[p] = prepared[p] \cup {h}
        /\ call' = [call EXCEPT ![p][h] = "prepared"]
    BY <1>1, <1>5 DEF StartReceiving, InsertPrepared, PutLog
  <2> SUFFICES ASSUME NEW k \in Heights
               PROVE  /\ call'[p][k] # "insertCommit"
                      /\ call'[p][k] \notin BeforeInsert => k \in logged'[p] \cap prepared'[p]
                      /\ call'[p][k] \in AfterLookup /\ k > 1 => k - 1 \in executed'[p]
    BY <2>1 DEF FoundInv
  <2>2. CASE k = h
    BY <1>1, <2>1, <2>2 DEF AfterLookup
  <2>3. CASE k # h
    <3>1. call'[p][k] = call[p][k]
      BY <1>1, <2>1, <2>3
    <3> QED
      BY <2>1, <3>1 DEF FoundInv
  <2> QED
    BY <2>2, <2>3
<1>6. CASE LookupCommit(p, h)
  <2>1. call[p][h] = "prepared" /\ UNCHANGED <<logged, prepared>>
    BY <1>6 DEF LookupCommit
  <2>2. h > 1 => h - 1 \in Heights /\ call[p][h - 1] = "done"
    BY <1>1, <2>1 DEF InTurnInv
  <2>3. h > 1 => h - 1 \in logged[p] \cap prepared[p]
    BY <2>2 DEF FoundInv, BeforeInsert
  <2>4. h - 1 \in logged[p]
    BY <1>1, <2>3 DEF FoundInv
  <2>5. /\ call' = [call EXCEPT ![p][h] = "committed"]
        /\ QueueIf(p, h - 1, h - 1 \in prepared[p] \ executed[p])
    BY <1>6, <2>4 DEF LookupCommit
  <2>6. h > 1 => h - 1 \in executed'[p]
    <3>1. CASE h - 1 \in executed[p]
      BY <3>1
    <3>2. CASE h - 1 \in prepared[p] \ executed[p]
      BY <2>5, <3>2 DEF QueueIf, OrderingInv, TypeOK, LogTypeOK
    <3> QED
      BY <2>3, <3>1, <3>2
  <2> SUFFICES ASSUME NEW k \in Heights
               PROVE  /\ call'[p][k] # "insertCommit"
                      /\ call'[p][k] \notin BeforeInsert => k \in logged'[p] \cap prepared'[p]
                      /\ call'[p][k] \in AfterLookup /\ k > 1 => k - 1 \in executed'[p]
    BY <2>1 DEF FoundInv
  <2>7. CASE k = h
    <3>1. h \in logged[p] \cap prepared[p]
      BY <2>1 DEF FoundInv, BeforeInsert
    <3>2. call'[p][h] = "committed"
      BY <1>1, <2>5
    <3> QED
      BY <2>1, <2>6, <2>7, <3>1, <3>2
  <2>8. CASE k # h
    <3>1. call'[p][k] = call[p][k]
      BY <1>1, <2>5, <2>8
    <3> QED
      BY <2>1, <3>1 DEF FoundInv
  <2> QED
    BY <2>7, <2>8
<1> QED
  BY <1>2, <1>3, <1>4, <1>5, <1>6 DEF Receiving, StartReceiving

\* Every step of a prompt network keeps it.
LEMMA FoundNext ==
  ASSUME OrderingInv, OrderingInv', InTurnInv, NEW p \in Followers, FoundInv(p),
         [Next]_vars, UNCHANGED vars \/ Prompt
  PROVE  FoundInv(p)'
<1> USE Constants
<1>1. /\ call \in [Followers -> [Heights -> CallStates]]
      /\ logged \in [Nodes -> SUBSET Heights0] /\ prepared \in [Nodes -> SUBSET Heights0]
  BY DEF OrderingInv, TypeOK, CallTypeOK, LogTypeOK
<1>2. executed[p] \subseteq executed'[p]
  BY FrozenStep
<1>3. CASE Elsewhere \/ BuildBlock \/ \E n \in Nodes : Execute(n)
  <2>1. UNCHANGED <<logVars, call>>
    BY <1>3 DEF Elsewhere, BuildBlock, Execute, ExecRecv, ExecNext, callVars
  <2> QED
    BY <1>2, <2>1, FoundFrame DEF logVars
<1>4. CASE RecordBlock
  <2>1. UNCHANGED <<logged[p], prepared[p], call>>
    BY <1>1, <1>4 DEF RecordBlock, PutLog, callVars
  <2> QED
    BY <1>2, <2>1, FoundFrame
<1>5. CASE Broadcasting
  <2>1. UNCHANGED logVars
    BY <1>5 DEF Broadcasting, Broadcast, BroadcastRacesAnnounce, BroadcastRacesMerge,
                BroadcastDuring
  <2>2. sendPc = "recorded" /\ sendPc' = "idle"
    BY <1>5 DEF Broadcasting, Broadcast, BroadcastRacesAnnounce, BroadcastRacesMerge,
                BroadcastDuring
  <2>3. AllReturned
    BY <2>2 DEF Prompt, vars, sendVars
  <2>4. call' = SendingCalls(call)
    BY <1>5, <2>3 DEF AllReturned, Broadcasting, Broadcast, BroadcastRacesAnnounce,
                      BroadcastRacesMerge, BroadcastDuring
  <2>5. \A h \in Heights : call'[p][h] \in {call[p][h], "sent"}
    BY <1>1, <2>4 DEF SendingCalls
  <2> QED
    BY <1>2, <2>1, <2>5, FoundFrame DEF logVars
<1>6. ASSUME NEW q \in Followers, NEW h \in Heights, Receiving(q, h) PROVE FoundInv(p)'
  <2>1. CASE p = q
    BY <1>2, <1>6, <2>1, FoundReceiving
  <2>2. CASE p # q
    <3>1. UNCHANGED <<logged[p], prepared[p], call[p]>>
      BY <1>1, <1>6, <2>2 DEF Receiving, StartReceiving, InsertPrepared, LookupCommit,
                              InsertCommitted, Reply, PutLog, logVars
    <3> QED
      BY <1>2, <3>1, FoundFrame
  <2> QED
    BY <2>1, <2>2
<1>7. ASSUME NEW q \in Followers, NEW h \in Heights, CountReply(q, h) \/ MergeReply(q, h)
      PROVE  FoundInv(p)'
  <2>1. UNCHANGED <<logged[p], prepared[p]>>
    BY <1>1, <1>7 DEF CountReply, MergeReply, logVars
  <2>2. /\ call[q][h] \in {"replied", "counted"}
        /\ \E s \in {"counted", "done"} : call' = [call EXCEPT ![q][h] = s]
    BY <1>7 DEF CountReply, MergeReply
  <2>3. \A k \in Heights : \/ call'[p][k] = call[p][k]
                           \/ {call[p][k], call'[p][k]} \subseteq AfterLookup
    BY <1>1, <2>2 DEF AfterLookup
  <2> QED
    BY <1>2, <2>1, <2>3, FoundFrame
<1> QED
  BY <1>3, <1>4, <1>5, <1>6, <1>7, StepKinds

-----------------------------------------------------------------------------
(* A full list has set its flag.                                           *)

\* RecordBlock takes the flags from the newest block alone, and no reply for it
\* or the next has been counted by then.
LEMMA CountedFlagsStay ==
  ASSUME OrderingInv, [Next]_vars,
         \A p \in Followers, h \in Heights : ~CountReply(p, h),
         NEW h \in Heights,
         Counted(h) # {} \/ (h < MaxHeight /\ Counted(h + 1) # {})
  PROVE  /\ h \in prepared[Leader] => h \in prepared'[Leader]
         /\ h \in committed[Leader] => h \in committed'[Leader]
<1> USE Constants
<1>1. /\ prepared \in [Nodes -> SUBSET Heights0] /\ committed \in [Nodes -> SUBSET Heights0]
      /\ Len(block) \in Nat
  BY DEF OrderingInv, TypeOK, LogTypeOK, SendTypeOK
<1>2. CASE Elsewhere \/ BuildBlock \/ Broadcasting \/ \E n \in Nodes : Execute(n)
  BY <1>2 DEF Elsewhere, BuildBlock, Broadcasting, Broadcast, BroadcastRacesAnnounce,
              BroadcastRacesMerge, BroadcastDuring, Execute, ExecRecv, ExecNext, logVars
<1>3. CASE RecordBlock
  <2>1. \A p \in Followers, k \in Heights : k >= Len(block) => call[p][k] = "none"
    BY <1>1, <1>3 DEF RecordBlock, OrderingInv, TypeOK, CallTypeOK, FollowerInv, CallsInv
  <2>2. h # Len(block)
    BY <1>1, <2>1 DEF Counted
  <2> QED
    BY <1>1, <1>3, <2>2 DEF RecordBlock, PutLog
<1>4. ASSUME NEW p \in Followers, NEW k \in Heights, Receiving(p, k) \/ MergeReply(p, k)
      PROVE  UNCHANGED <<prepared[Leader], committed[Leader]>>
  BY <1>1, <1>4 DEF Receiving, StartReceiving, InsertPrepared, LookupCommit, InsertCommitted,
                    Reply, PutLog, MergeReply, logVars
<1> QED
  BY <1>2, <1>3, <1>4, StepKinds

\* Counting a reply checks both logs and queues the older one.
LEMMA QuorumCount ==
  ASSUME OrderingInv, OrderingInv', InTurnInv, QuorumInv, [Next]_vars,
         NEW p \in Followers, NEW h \in Heights, CountReply(p, h)
  PROVE  QuorumInv'
<1> USE Constants
<1>1. /\ call \in [Followers -> [Heights -> CallStates]]
      /\ prepared \in [Nodes -> SUBSET Heights0] /\ committed \in [Nodes -> SUBSET Heights0]
      /\ executed \in [Nodes -> SUBSET Heights0]
      /\ prepareConfirms \in [Heights0 -> Nat] /\ commitConfirms \in [Heights0 -> Nat]
      /\ h \in Nat /\ h >= 1
  <2>1. h \in Nat /\ h >= 1
    OBVIOUS
  <2> QED
    BY <2>1 DEF OrderingInv, TypeOK, CallTypeOK, LogTypeOK, FlagTypeOK
<1>2. /\ call[p][h] = "replied"
      /\ \A k \in Heights0 \ {h} : prepareConfirms'[k] = prepareConfirms[k]
      /\ \A k \in Heights0 \ {h - 1} : commitConfirms'[k] = commitConfirms[k]
  BY <1>1 DEF CountReply
<1>3. /\ prepared[Leader] \subseteq prepared'[Leader]
      /\ committed[Leader] \subseteq committed'[Leader]
      /\ Check(prepareConfirms'[h]) => h \in prepared'[Leader]
      /\ Check(prepareConfirms'[h - 1]) => h - 1 \in prepared'[Leader]
      /\ Check(commitConfirms'[h - 1]) => h - 1 \in committed'[Leader]
  BY <1>1 DEF CountReply
<1>4. h - 1 \in prepared'[Leader] /\ h - 1 \in committed'[Leader] => h - 1 \in executed'[Leader]
  <2>1. QueueIf(Leader, h - 1, h - 1 \in (prepared'[Leader] \cap committed'[Leader])
                                            \ executed[Leader])
    BY <1>1 DEF CountReply
  <2>2. CASE h - 1 \in (prepared'[Leader] \cap committed'[Leader]) \ executed[Leader]
    BY <1>1, <2>1, <2>2 DEF QueueIf
  <2>3. CASE h - 1 \in executed[Leader]
    BY <2>3, FrozenStep
  <2> QED
    BY <2>2, <2>3
<1>5. executed[Leader] \subseteq executed'[Leader]
  BY FrozenStep
<1>6. \A k \in Heights \ {h} : Counted(k)' = Counted(k)
  <2>1. \A q \in Followers, k \in Heights : k # h => call'[q][k] = call[q][k]
    BY <1>1 DEF CountReply
  <2> QED
    BY <2>1 DEF Counted
<1> SUFFICES ASSUME NEW k \in Heights
             PROVE  /\ Counted(k)' # {} /\ Check(prepareConfirms'[k]) => k \in prepared'[Leader]
                    /\ k < MaxHeight /\ Counted(k + 1)' # {} =>
                         /\ Check(commitConfirms'[k]) => k \in committed'[Leader]
                         /\ Check(prepareConfirms'[k]) /\ Check(commitConfirms'[k])
                              => k \in executed'[Leader]
  BY DEF QuorumInv
<1>7. Counted(k)' # {} /\ Check(prepareConfirms'[k]) => k \in prepared'[Leader]
  <2>1. CASE k = h
    BY <1>3, <2>1
  <2>2. CASE k # h
    BY <1>2, <1>3, <1>6, <2>2 DEF QuorumInv
  <2> QED
    BY <2>1, <2>2
<1>8. ASSUME k < MaxHeight, Counted(k + 1)' # {}
      PROVE  /\ Check(commitConfirms'[k]) => k \in committed'[Leader]
             /\ Check(prepareConfirms'[k]) /\ Check(commitConfirms'[k])
                  => k \in executed'[Leader]
  <2>1. k + 1 \in Heights /\ k \in Heights0
    BY <1>8
  <2>2. CASE k + 1 = h
    <3>1. k = h - 1
      BY <1>1, <2>2
    <3> QED
      BY <1>3, <1>4, <3>1
  <2>3. CASE k + 1 # h
    <3>1. Counted(k + 1) # {} /\ k # h - 1
      BY <1>1, <1>6, <1>8, <2>1, <2>3
    <3>2. k # h
      BY <1>2, <2>1, <3>1 DEF Counted, InTurnInv
    <3> QED
      BY <1>2, <1>3, <1>5, <1>8, <2>1, <3>1, <3>2 DEF QuorumInv
  <2> QED
    BY <2>2, <2>3
<1> QED
  BY <1>7, <1>8

\* Every step of a prompt network keeps it.
LEMMA QuorumNext ==
  ASSUME OrderingInv, OrderingInv', InTurnInv, QuorumInv, [Next]_vars
  PROVE  QuorumInv'
<1> USE Constants
<1>1. CASE \E p \in Followers, h \in Heights : CountReply(p, h)
  BY <1>1, QuorumCount
<1>2. CASE \A p \in Followers, h \in Heights : ~CountReply(p, h)
  <2>1. UNCHANGED flagVars /\ \A h \in Heights : Counted(h)' = Counted(h)
    BY <1>2, CountedKept, FlagsKept DEF OrderingInv
  <2>2. executed[Leader] \subseteq executed'[Leader]
    BY FrozenStep
  <2>3. ASSUME NEW h \in Heights
        PROVE  /\ Counted(h)' # {} /\ Check(prepareConfirms'[h]) => h \in prepared'[Leader]
               /\ h < MaxHeight /\ Counted(h + 1)' # {} =>
                    /\ Check(commitConfirms'[h]) => h \in committed'[Leader]
                    /\ Check(prepareConfirms'[h]) /\ Check(commitConfirms'[h])
                         => h \in executed'[Leader]
    <3>1. h < MaxHeight => h + 1 \in Heights
      OBVIOUS
    <3> QED
      BY <1>2, <2>1, <2>2, <3>1, CountedFlagsStay DEF QuorumInv, flagVars, Check
  <2> QED
    BY <2>3 DEF QuorumInv
<1> QED
  BY <1>1, <1>2

-----------------------------------------------------------------------------
(* The invariant, and what it is for.                                      *)

\* No call has been sent and no height queued.
LEMMA PromptInit == OrderingInit => PromptInv
<1> SUFFICES ASSUME OrderingInit PROVE PromptInv
  OBVIOUS
<1> USE Constants DEF OrderingInit
<1>1. /\ \A p \in Followers, h \in Heights : call[p][h] = "none"
      /\ Len(block) = 0
      /\ \A n \in Nodes : logged[n] = {0} /\ executed[n] = {}
  OBVIOUS
<1> HIDE DEF OrderingInit
<1>3. InTurnInv
  BY <1>1 DEF InTurnInv
<1>4. ASSUME NEW p \in Followers PROVE FoundInv(p)
  BY <1>1 DEF FoundInv, BeforeInsert, AfterLookup
<1>5. QuorumInv
  <2>1. ASSUME NEW h \in Heights PROVE Counted(h) = {}
    BY <1>1 DEF Counted
  <2>2. \A h \in Heights : h < MaxHeight => h + 1 \in Heights
    OBVIOUS
  <2> QED
    BY <2>1, <2>2 DEF QuorumInv
<1> QED
  BY <1>3, <1>4, <1>5 DEF PromptInv

\* On a prompt network the invariant holds throughout.
THEOREM PromptCorrect == PromptSpec => []PromptInv
<1>1. OrderingInit => PromptInv
  BY PromptInit
<1>2. OrderingInv /\ OrderingInv' /\ AccountInv /\ PromptInv /\ [PromptNext]_vars => PromptInv'
  <2> SUFFICES ASSUME OrderingInv, OrderingInv', AccountInv, PromptInv, [PromptNext]_vars
               PROVE  PromptInv'
    OBVIOUS
  <2>1. [Next]_vars /\ (UNCHANGED vars \/ Prompt)
    BY DEF PromptNext
  <2>2. InTurnInv /\ QuorumInv /\ \A p \in Followers : FoundInv(p)
    BY DEF PromptInv
  <2>3. InTurnInv'
    BY <2>1, <2>2, InTurnNext
  <2>4. \A p \in Followers : FoundInv(p)'
    BY <2>1, <2>2, FoundNext
  <2>5. QuorumInv'
    BY <2>1, <2>2, QuorumNext
  <2> QED
    BY <2>3, <2>4, <2>5 DEF PromptInv
<1> QED
  BY <1>1, <1>2, PromptAccount, PTL DEF PromptSpec

\* A follower that has answered for two consecutive blocks has queued the older.
THEOREM AnswersQueue == PromptSpec => []AnsweredIsQueued
<1>1. PromptInv => AnsweredIsQueued
  <2> SUFFICES ASSUME PromptInv, NEW p \in Followers, NEW h \in Heights \ {MaxHeight},
                      p \in Answered(h + 1)
               PROVE  h \in executed[p]
    BY DEF AnsweredIsQueued
  <2>1. h + 1 \in Heights /\ h + 1 > 1 /\ (h + 1) - 1 = h
    BY Constants
  <2>2. call[p][h + 1] \in AfterLookup
    BY DEF Answered, AfterLookup
  <2> QED
    BY <2>1, <2>2 DEF PromptInv, FoundInv
<1> QED
  BY <1>1, PromptCorrect, PTL

\* When every reply for two consecutive blocks is counted, the leader has queued
\* the older.  A leader without followers counts none.
THEOREM CountsQueue ==
  ASSUME Followers # {}
  PROVE  PromptSpec => []CountedIsQueued
<1>1. Cardinality(Followers) >= FaultNum
  <2>1. /\ IsFiniteSet(Nodes) /\ Cardinality(Nodes) \in Nat
        /\ Cardinality(Followers) = Cardinality(Nodes) - 1
        /\ Cardinality(Followers) \in Nat
    BY NodesAssumption, Constants, FS_RemoveElement, FS_CardinalityType, Quorums
  <2> QED
    BY <2>1 DEF FaultNum
<1>2. PromptInv /\ AccountInv => CountedIsQueued
  <2> SUFFICES ASSUME PromptInv, AccountInv, NEW h \in Heights \ {MaxHeight},
                      \A p \in Followers : {call[p][h], call[p][h + 1]} \subseteq {"counted", "done"}
               PROVE  h \in executed[Leader]
    BY DEF CountedIsQueued
  <2>1. h \in Heights /\ h + 1 \in Heights /\ h < MaxHeight /\ (h + 1) - 1 = h
    BY Constants
  <2>2. Counted(h) = Followers /\ Counted(h + 1) = Followers
    BY DEF Counted
  <2>3. Check(prepareConfirms[h]) /\ Check(commitConfirms[h])
    <3>1. prepareConfirms[h] = Cardinality(Followers)
      BY <2>1, <2>2 DEF AccountInv, CountInv
    <3>2. commitConfirms[(h + 1) - 1] = Cardinality(Followers)
      BY <2>1, <2>2 DEF AccountInv, CountInv
    <3> QED
      BY <1>1, <2>1, <3>1, <3>2 DEF Check
  <2> QED
    BY <2>1, <2>2, <2>3 DEF PromptInv, QuorumInv
<1> QED
  BY <1>2, PromptCorrect, PromptAccount, PTL
=============================================================================
