----------------------------- MODULE Duplication -----------------------------
(***************************************************************************)
(* The duplication phase of zpbft/server.go.  Every node makes a request,  *)
(* sends it to the others and collects their confirmations; when FaultNum  *)
(* have come back it announces the request and makes the next one.         *)
(*                                                                         *)
(* In the flooding mode (duplicate, DuplicateRpc) the origin calls every   *)
(* peer; in the tree mode (treeDuplicate, TreeDuplicateRpc,                *)
(* PrimaryReceiveBackRpc) a node confirms for itself at once, forwards the *)
(* request to its children in the tree, and returns their confirmations to *)
(* the origin when it has them all.  A flood is a tree in which every peer *)
(* is a child of the origin.                                               *)
(*                                                                         *)
(* duplicateMu is held by verifyBallot, also while makeReq, at its end,    *)
(* waits for transactions.  Every signature and digest check passes: all   *)
(* processes load one key pair.  A panic ends the process.                 *)
(***************************************************************************)
EXTENDS Config, SequencesExt

CONSTANTS Reqs,      \* the sequence numbers handed out by assignSeq
          Origin,    \* Origin[u] is the node whose makeReq made u
          Trees,     \* Trees[o]: the trees o may build, from node to children
          MaxKills   \* bound: no node is killed when this many are down

ASSUME OriginAssumption == Origin \in [Reqs -> Nodes]
ASSUME TreesAssumption ==
  /\ Trees \in [Nodes -> SUBSET [Nodes -> SUBSET Nodes]]
  /\ \A o \in Nodes : \A t \in Trees[o] : \A n \in Nodes : t[n] \subseteq Peers(o)
ASSUME KillsAssumption == MaxKills \in Nat

VARIABLES
  up,          \* up[n]: the process n is running
  connected,   \* connected[n]: connect() has returned
  making,      \* making[n]: n is in makeReq or, at start-up, before it
  seqCh,       \* seqCh[n]
  held,        \* held[n]: requests whose certificate on n has req # nil
  tree,        \* tree[u]: the children of each node, once u is sent
  rpc,         \* rpc[u][q]: the call that carries u to q and q's confirmation
  confirmQ,    \* confirmQ[u]: duplicateConfirmQ of the origin's certificate
  voted,       \* voted[u]: the keys of its duplicateConfirms
  announced,   \* requests whose certificate reached DuplicatedStage
  pool         \* pool[n]: localDuplicatedReqs; Ordering takes requests out

nodeVars == <<up, connected, making, seqCh>>
voteVars == <<confirmQ, voted, announced, pool>>
vars == <<nodeVars, held, tree, rpc, voteVars>>

RpcStates == {"none",
              "sent",        \* on its way to q
              "stored",      \* handled by q, the reply is on its way
              "gathered",    \* with q's parent, which is not the origin
              "pushed",      \* in confirmQ, its goroutine wants duplicateMu
              "done"}

NoChildren == [n \in Nodes |-> {}]

\* All processes run, and none has made a request.
FreshStart ==
  /\ up = [n \in Nodes |-> TRUE]
  /\ making = [n \in Nodes |-> TRUE]
  /\ seqCh = [n \in Nodes |-> << >>]
  /\ held = [n \in Nodes |-> {}]
  /\ tree = [u \in Reqs |-> NoChildren]
  /\ rpc = [u \in Reqs |-> [q \in Nodes |-> "none"]]
  /\ confirmQ = [u \in Reqs |-> {}]
  /\ voted = [u \in Reqs |-> {}]
  /\ announced = {}
  /\ pool = [n \in Nodes |-> << >>]

DupInit == FreshStart /\ connected = [n \in Nodes |-> FALSE]

-----------------------------------------------------------------------------
(* The origin.                                                             *)

\* connect loops until every peer has been dialled.
Connect(n) ==
  /\ up[n] /\ ~connected[n]
  /\ \A m \in Peers(n) : up[m]
  /\ connected' = [connected EXCEPT ![n] = TRUE]
  /\ UNCHANGED <<up, making, seqCh, held, tree, rpc, voteVars>>

\* Mutant: workLoop does not wait for connect.
MakeReqAtOnce(u) ==
  LET o == Origin[u]
  IN  /\ up[o] /\ making[o]
      /\ u \notin held[o]
      /\ held' = [held EXCEPT ![o] = @ \cup {u}]
      /\ seqCh' = [seqCh EXCEPT ![o] = Append(@, u)]
      /\ making' = [making EXCEPT ![o] = FALSE]
      /\ UNCHANGED <<up, connected, tree, rpc, voteVars>>

\* makeReq, called by workLoop when connect has returned and by verifyBallot.
MakeReq(u) ==
  LET o == Origin[u]
  IN  /\ up[o] /\ connected[o] /\ making[o]
      /\ u \notin held[o]
      /\ held' = [held EXCEPT ![o] = @ \cup {u}]
      /\ seqCh' = [seqCh EXCEPT ![o] = Append(@, u)]
      /\ making' = [making EXCEPT ![o] = FALSE]
      /\ UNCHANGED <<up, connected, tree, rpc, voteVars>>

\* Mutant: the goroutines share the loop variable.
DuplicateToOne(u, t) ==
  LET o == Origin[u]
  IN  /\ up[o] /\ seqCh[o] # << >> /\ Head(seqCh[o]) = u
      /\ seqCh' = [seqCh EXCEPT ![o] = Tail(@)]
      /\ tree' = [tree EXCEPT ![u] = t]
      /\ \E p \in t[o] :
           rpc' = [rpc EXCEPT ![u] = [q \in Nodes |-> IF q = p THEN "sent" ELSE @[q]]]
      /\ UNCHANGED <<up, connected, making, held, voteVars>>

\* workLoop takes u from seqCh and calls duplicate or treeDuplicate: one
\* goroutine calls each child of the root.
Duplicate(u, t) ==
  LET o == Origin[u]
  IN  /\ up[o] /\ seqCh[o] # << >> /\ Head(seqCh[o]) = u
      /\ seqCh' = [seqCh EXCEPT ![o] = Tail(@)]
      /\ tree' = [tree EXCEPT ![u] = t]
      /\ rpc' = [rpc EXCEPT ![u] = [q \in Nodes |-> IF q \in t[o] THEN "sent" ELSE @[q]]]
      /\ UNCHANGED <<up, connected, making, held, voteVars>>

-----------------------------------------------------------------------------
(* The other nodes.                                                        *)

\* Mutant: cert.set(nil, ...), as in the line that is commented out.
StoreNoPayload(q, u) ==
  /\ up[q] /\ rpc[u][q] = "sent"
  /\ rpc' = [rpc EXCEPT ![u][q] = "stored"]
  /\ UNCHANGED <<nodeVars, held, tree, voteVars>>

\* DuplicateRpc and TreeDuplicateRpc: store the payload and confirm.
Store(q, u) ==
  /\ up[q] /\ rpc[u][q] = "sent"
  /\ held' = [held EXCEPT ![q] = @ \cup {u}]
  /\ rpc' = [rpc EXCEPT ![u][q] = "stored"]
  /\ UNCHANGED <<nodeVars, tree, voteVars>>

Handled(u) == {n \in Nodes : rpc[u][n] \notin {"none", "sent"}}

\* One goroutine of TreeDuplicateRpc per child.
Forward(n, q, u) ==
  /\ up[n] /\ q \in tree[u][n]
  /\ n \in Handled(u) /\ rpc[u][q] = "none"
  /\ rpc' = [rpc EXCEPT ![u][q] = "sent"]
  /\ UNCHANGED <<nodeVars, held, tree, voteVars>>

\* The reply of q to the node that called it.
Return(n, q, u) ==
  /\ up[n] /\ q \in tree[u][n]
  /\ rpc[u][q] = "stored"
  /\ \/ /\ n = Origin[u]
        /\ confirmQ' = [confirmQ EXCEPT ![u] = @ \cup {q}]
        /\ rpc' = [rpc EXCEPT ![u][q] = "pushed"]
     \/ /\ n # Origin[u]
        /\ rpc' = [rpc EXCEPT ![u][q] = "gathered"]
        /\ UNCHANGED confirmQ
  /\ UNCHANGED <<nodeVars, held, tree, voted, announced, pool>>

\* The children of n, an inner node of the tree, have all confirmed to n.
AllGathered(n, u) ==
  /\ n # Origin[u] /\ tree[u][n] # {} /\ n \in Handled(u)
  /\ \A q \in tree[u][n] : rpc[u][q] \in {"gathered", "pushed", "done"}

\* PrimaryReceiveBackRpc at the origin pushes the confirmations that n returns
\* one by one, and verifies the ballot after each.
ReceiveBack(n, q, u) ==
  /\ up[Origin[u]] /\ q \in tree[u][n] /\ rpc[u][q] = "gathered"
  /\ AllGathered(n, u)
  /\ up[n] \/ \E p \in tree[u][n] : rpc[u][p] = "done"
  /\ \A p \in tree[u][n] : rpc[u][p] # "pushed"
  /\ confirmQ' = [confirmQ EXCEPT ![u] = @ \cup {q}]
  /\ rpc' = [rpc EXCEPT ![u][q] = "pushed"]
  /\ UNCHANGED <<nodeVars, held, tree, voted, announced, pool>>

-----------------------------------------------------------------------------
(* The ballot, under duplicateMu of the origin.                            *)

\* Mutant: the votes of an earlier call of verifyBallot are not kept.
BallotForgets(u) == confirmQ[u]

Ballot(u) == voted[u] \cup confirmQ[u]

\* Mutant: the stage is not looked at.
VerifyAgain(q, u) ==
  LET o == Origin[u]
  IN  /\ up[o] /\ ~making[o] /\ rpc[u][q] = "pushed"
      /\ rpc' = [rpc EXCEPT ![u][q] = "done"]
      /\ confirmQ' = [confirmQ EXCEPT ![u] = {}]
      /\ voted' = [voted EXCEPT ![u] = Ballot(u)]
      /\ IF Cardinality(Ballot(u)) >= FaultNum
           THEN /\ announced' = announced \cup {u}
                /\ pool' = [pool EXCEPT ![o] = Append(@, u)]
                /\ making' = [making EXCEPT ![o] = TRUE]
           ELSE UNCHANGED <<announced, pool, making>>
      /\ UNCHANGED <<up, connected, seqCh, held, tree>>

\* Mutant: no next request is made.
VerifyWithoutNext(q, u) ==
  LET o == Origin[u]
      passes == u \notin announced /\ Cardinality(Ballot(u)) >= FaultNum
  IN  /\ up[o] /\ ~making[o] /\ rpc[u][q] = "pushed"
      /\ rpc' = [rpc EXCEPT ![u][q] = "done"]
      /\ confirmQ' = [confirmQ EXCEPT ![u] = {}]
      /\ voted' = [voted EXCEPT ![u] = Ballot(u)]
      /\ announced' = IF passes THEN announced \cup {u} ELSE announced
      /\ pool' = IF passes THEN [pool EXCEPT ![o] = Append(@, u)] ELSE pool
      /\ UNCHANGED <<nodeVars, held, tree>>

\* The goroutine of q's confirmation has duplicateMu.
Confirmed(q, u) ==
  /\ up[Origin[u]] /\ ~making[Origin[u]] /\ rpc[u][q] = "pushed"
  /\ rpc' = [rpc EXCEPT ![u][q] = "done"]
  /\ UNCHANGED <<up, connected, seqCh, held, tree>>

\* The stage says that u is announced: the queue is left as it is.
VerifyLate(q, u) ==
  /\ Confirmed(q, u)
  /\ u \in announced
  /\ UNCHANGED <<making, voteVars>>

\* verifyBallot votes for what is in the queue.
Vote(u) ==
  /\ u \notin announced
  /\ confirmQ' = [confirmQ EXCEPT ![u] = {}]
  /\ voted' = [voted EXCEPT ![u] = Ballot(u)]

VerifyFew(q, u) ==
  /\ Confirmed(q, u) /\ Vote(u)
  /\ Cardinality(Ballot(u)) < FaultNum
  /\ UNCHANGED <<making, announced, pool>>

\* Mutant: one confirmation too few is enough.
VerifyPassesEarly(q, u) ==
  /\ Confirmed(q, u) /\ Vote(u)
  /\ Cardinality(Ballot(u)) >= FaultNum - 1
  /\ announced' = announced \cup {u}
  /\ making' = [making EXCEPT ![Origin[u]] = TRUE]

\* The ballot passes; what becomes of the pool is left to the actions below.
VerifyPasses(q, u) ==
  /\ Confirmed(q, u) /\ Vote(u)
  /\ Cardinality(Ballot(u)) >= FaultNum
  /\ announced' = announced \cup {u}
  /\ making' = [making EXCEPT ![Origin[u]] = TRUE]

Verify(q, u) ==
  \/ VerifyLate(q, u)
  \/ VerifyFew(q, u)
  \/ VerifyPasses(q, u) /\ pool' = [pool EXCEPT ![Origin[u]] = Append(@, u)]

-----------------------------------------------------------------------------
(* Failures.                                                               *)

Stop(n) ==
  /\ up[n]
  /\ up' = [up EXCEPT ![n] = FALSE]
  /\ UNCHANGED <<connected, making, seqCh, held, tree, rpc, voteVars>>

\* The call of a node that is down returns an error, and the caller panics.
CallFails(n, q, u) ==
  /\ q \in tree[u][n] /\ ~up[q] /\ rpc[u][q] \in {"sent", "stored"}
  /\ n = Origin[u] \/ n \in Handled(u)
  /\ Stop(n)

\* So does the call that returns confirmations, when the origin is down: also
\* when it has handled them all and only its answer is lost.
BackFails(n, u) ==
  /\ ~up[Origin[u]] /\ AllGathered(n, u)
  /\ Stop(n)

\* A request may come before connect has dialled the node to call next: the
\* client in id2srvCli is nil.
ClientMissing(n, u) ==
  /\ ~connected[n] /\ n \in Handled(u)
  /\ \/ \E q \in tree[u][n] : rpc[u][q] = "none"
     \/ AllGathered(n, u) /\ \A q \in tree[u][n] : rpc[u][q] = "gathered"
  /\ Stop(n)

Kill(n) ==
  /\ Cardinality({m \in Nodes : ~up[m]}) < MaxKills
  /\ Stop(n)

-----------------------------------------------------------------------------
Send(u) == MakeReq(u) \/ \E t \in Trees[Origin[u]] : Duplicate(u, t)

Confirm(n, q, u) == Forward(n, q, u) \/ Return(n, q, u) \/ ReceiveBack(n, q, u)

Fail(n) ==
  \/ Kill(n)
  \/ \E u \in Reqs :
       BackFails(n, u) \/ ClientMissing(n, u) \/ \E q \in Nodes : CallFails(n, q, u)

Progress ==
  \/ \E n \in Nodes : Connect(n)
  \/ \E u \in Reqs :
       \/ Send(u)
       \/ \E q \in Nodes : \/ Store(q, u) \/ Verify(q, u)
                           \/ \E n \in Nodes : Confirm(n, q, u)

Next == Progress \/ \E n \in Nodes : Fail(n)

Spec == DupInit /\ [][Next]_vars

\* A goroutine of some running process that has something to do does it, the
\* transport included; pushTxToPool never lets makeReq wait for ever.  Nothing
\* is done twice, so no goroutine can be passed over for ever.
Fairness == WF_vars(Progress)

FairSpec == Spec /\ Fairness

-----------------------------------------------------------------------------
TypeOK ==
  /\ up \in [Nodes -> BOOLEAN] /\ connected \in [Nodes -> BOOLEAN]
  /\ making \in [Nodes -> BOOLEAN] /\ seqCh \in [Nodes -> Seq(Reqs)]
  /\ held \in [Nodes -> SUBSET Reqs]
  /\ tree \in [Reqs -> [Nodes -> SUBSET Nodes]]
  /\ rpc \in [Reqs -> [Nodes -> RpcStates]]
  /\ confirmQ \in [Reqs -> SUBSET Nodes] /\ voted \in [Reqs -> SUBSET Nodes]
  /\ announced \in SUBSET Reqs

PoolTypeOK == pool \in [Nodes -> Seq(Reqs)]

-----------------------------------------------------------------------------
(* Safety.                                                                 *)

\* A request is announced once, by the node that made it: duplicateMu and the
\* stage keep the goroutines of later confirmations out.
AnnouncedOnce ==
  \A n \in Nodes :
    /\ IsInjective(pool[n])
    /\ ToSet(pool[n]) = {u \in announced : Origin[u] = n}

\* No vote is lost: FaultNum confirmations that have been through verifyBallot
\* announce the request, whichever call emptied the queue and found too few.
EnoughIsAnnounced ==
  \A u \in Reqs :
    LET verified == {q \in Nodes : rpc[u][q] = "done"}
    IN  verified # {} /\ Cardinality(verified) >= FaultNum => u \in announced

\* What the ordering phase relies on: one request at a time per origin, and
\* none announced before FaultNum other nodes store it.
RB == INSTANCE ReliableBroadcast
ImplementsReliableBroadcast == RB!RBSpec

-----------------------------------------------------------------------------
(* The strengthening that makes the refinement inductive.                  *)

Mine(o) == {u \in held[o] : Origin[u] = o}

\* The request exists at its origin before it travels, and travels to peers.
SentInv ==
  /\ \A n \in Nodes : \A i \in 1 .. Len(seqCh[n]) : seqCh[n][i] \in Mine(n)
  /\ \A u \in Reqs : \A n \in Nodes : tree[u][n] \subseteq Peers(Origin[u])
  /\ \A u \in Reqs : \A q \in Nodes :
       rpc[u][q] # "none" => u \in Mine(Origin[u]) /\ q \in Peers(Origin[u])

\* Who has confirmed stores the payload.
ConfirmInv ==
  \A u \in Reqs : \A q \in Nodes :
    /\ q \in Handled(u) => u \in held[q]
    /\ q \in Ballot(u) => u \in held[q] /\ q \in Peers(Origin[u])

\* At most the newest request of an origin is not announced, and none is when
\* the next one is being made.
OneAtATimeInv ==
  \A o \in Nodes :
    /\ \A u, v \in Mine(o) \ announced : u = v
    /\ making[o] => Mine(o) \subseteq announced

DupInv == TypeOK /\ SentInv /\ ConfirmInv /\ OneAtATimeInv

-----------------------------------------------------------------------------
(* Liveness.                                                               *)

\* While no process stops, every origin goes on announcing its requests.
EveryRequestAnnounced == <>(announced = Reqs \/ \E n \in Nodes : ~up[n])

\* While no process stops, a payload that was announced reaches every node:
\* a block that waits for it could be run in the end.
PayloadArrives ==
  \A u \in Reqs :
    u \in announced ~> (\A n \in Nodes : u \in held[n]) \/ \E n \in Nodes : ~up[n]
=============================================================================
