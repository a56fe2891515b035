--------------------------- MODULE OrderingPrompt ---------------------------
(***************************************************************************)
(* Ordering on a network that is prompt.  controlSending sleeps 100 ms or  *)
(* more between two blocks; here that is long enough for every reply of a  *)
(* block to be merged before the next block is sent, and a node has        *)
(* dialled its peers when it has to call one.  The code enforces neither.  *)
(* Payloads may be as late as they like.                                   *)
(***************************************************************************)
EXTENDS Ordering

AllReturned ==
  \A p \in Followers, h \in Heights : call[p][h] \in {"none", "done"}

Prompt ==
  /\ sendPc = "recorded" /\ sendPc' = "idle" => AllReturned
  /\ (\A m \in Nodes : up[m]) => \A n \in Nodes : ~DuplicationFails(n)

PromptNext == Next /\ Prompt

PromptFairness == WF_vars(Progress /\ Prompt)

PromptSpec == OrderingInit /\ [][PromptNext]_vars /\ PromptFairness

-----------------------------------------------------------------------------
(* Why every block is queued here: the strengthening of AnsweredIsQueued   *)
(* and CountedIsQueued.                                                    *)

\* Every block that has left has been sent to all, and the calls of one height
\* are done before those of the next are sent.
InTurnInv ==
  \A p, q \in Followers, h, k \in Heights :
    /\ h < k /\ call[q][k] # "none" => call[p][h] = "done"
    /\ h < Len(block) \/ (h = Len(block) /\ sendPc = "idle") => call[p][h] # "none"

\* So each handler finds the log of the block before, and queues it.
FoundInv(p) ==
  /\ 0 \in logged[p]
  /\ \A h \in Heights :
       /\ call[p][h] # "insertCommit"
       /\ call[p][h] \notin BeforeInsert => h \in logged[p] \cap prepared[p]
       /\ call[p][h] \in AfterLookup /\ h > 1 => h - 1 \in executed[p]

\* A full list has set its flag in the leader's log, and two full lists have
\* queued the block when the next one is being counted.
QuorumInv ==
  \A h \in Heights :
    /\ Counted(h) # {} /\ Check(prepareConfirms[h]) => h \in prepared[Leader]
    /\ h < MaxHeight /\ Counted(h + 1) # {} =>
         /\ Check(commitConfirms[h]) => h \in committed[Leader]
         /\ Check(prepareConfirms[h]) /\ Check(commitConfirms[h]) => h \in executed[Leader]

PromptInv == InTurnInv /\ (\A p \in Followers : FoundInv(p)) /\ QuorumInv

-----------------------------------------------------------------------------
\* The height i was queued on n and taken out again without running.
Dropped(n, i) == i \in executed[n] \ Pending(n) /\ i > Len(db[n])

\* Every block but the last is run by every node, unless a process stops or the
\* node has dropped it or an older one: what the ordering phase is for, and what
\* it gives when messages are prompt.  QueuedRunsOrLacksPayload says what is
\* dropped.
BlocksRunEverywhere ==
  \A h \in Heights \ {MaxHeight} :
    Len(block) >= h ~>
      \/ \A n \in Nodes : Len(db[n]) >= h \/ \E i \in 1 .. h : Dropped(n, i)
      \/ \E m \in Nodes : ~up[m]
=============================================================================
