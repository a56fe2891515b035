-------------------------- MODULE DuplicationProofs --------------------------
(***************************************************************************)
(* The duplication phase keeps what the ordering phase relies on, for any  *)
(* number of nodes and requests, any trees and any number of failures.     *)
(***************************************************************************)
EXTENDS Duplication, FiniteSetTheorems, TLAPS

\* The facts about the constants that every step may use.
LEMMA DupConstants ==
  /\ IsFiniteSet(Nodes)
  /\ \A u \in Reqs : Origin[u] \in Nodes
  /\ \A o \in Nodes : \A t \in Trees[o] :
       t \in [Nodes -> SUBSET Nodes] /\ \A n \in Nodes : t[n] \subseteq Peers(o)
  /\ \A n \in Nodes : Peers(n) \subseteq Nodes /\ n \notin Peers(n)
BY NodesAssumption, OriginAssumption, TreesAssumption DEF Peers

\* At the start nothing is made, sent or announced, and the invariant holds.
LEMMA DupInitInv == DupInit => DupInv
<1> SUFFICES ASSUME DupInit PROVE DupInv
  OBVIOUS
<1> USE DupConstants DEF DupInit, FreshStart
<1>1. TypeOK
  BY DEF TypeOK, RpcStates, NoChildren
<1>2. SentInv
  BY DEF SentInv, NoChildren
<1>3. ConfirmInv
  BY DEF ConfirmInv, Handled, Ballot
<1>4. OneAtATimeInv
  BY DEF OneAtATimeInv, Mine
<1> QED
  BY <1>1, <1>2, <1>3, <1>4 DEF DupInv

-----------------------------------------------------------------------------
(* One lemma per action.                                                   *)

\* Steps that only start or stop processes, whatever they do to the pools.
LEMMA DupFrame ==
  ASSUME DupInv, up' \in [Nodes -> BOOLEAN], connected' \in [Nodes -> BOOLEAN],
         UNCHANGED <<making, seqCh, held, tree, rpc, confirmQ, voted, announced>>
  PROVE  DupInv'
BY DEF DupInv, TypeOK, SentInv, ConfirmInv, OneAtATimeInv, Mine, Handled, Ballot, voteVars

\* An origin that makes its next request has announced all the earlier ones.
LEMMA MakeReqInv ==
  ASSUME DupInv, NEW u \in Reqs, MakeReq(u)
  PROVE  DupInv'
<1> DEFINE o == Origin[u]
<1> USE DupConstants
<1>1. /\ o \in Nodes /\ u \notin held[o] /\ Mine(o) \subseteq announced
      /\ UNCHANGED <<up, connected, tree, rpc, confirmQ, voted, announced, pool>>
      /\ held' = [held EXCEPT ![o] = held[o] \cup {u}]
      /\ seqCh' = [seqCh EXCEPT ![o] = Append(seqCh[o], u)]
      /\ making' = [making EXCEPT ![o] = FALSE]
  BY DEF MakeReq, DupInv, OneAtATimeInv, voteVars
<1>2. TypeOK'
  BY <1>1 DEF DupInv, TypeOK
<1>3. /\ \A n \in Nodes : held[n] \subseteq held'[n] /\ Mine(n) \subseteq Mine(n)'
      /\ Mine(o)' = Mine(o) \cup {u}
      /\ \A n \in Nodes \ {o} : Mine(n)' = Mine(n) /\ seqCh'[n] = seqCh[n]
  BY <1>1 DEF DupInv, TypeOK, Mine
<1>4. SentInv'
  <2>1. \A i \in 1 .. Len(seqCh'[o]) : seqCh'[o][i] \in Mine(o)'
    <3>1. seqCh[o] \in Seq(Reqs) /\ seqCh'[o] = Append(seqCh[o], u)
      BY <1>1 DEF DupInv, TypeOK
    <3>2. \A i \in 1 .. Len(seqCh'[o]) : i \in 1 .. Len(seqCh[o]) \/ seqCh'[o][i] = u
      BY <3>1
    <3>3. \A i \in 1 .. Len(seqCh[o]) : seqCh'[o][i] = seqCh[o][i] /\ seqCh[o][i] \in Mine(o)
      BY <1>1, <3>1 DEF DupInv, SentInv
    <3> QED
      BY <1>3, <3>2, <3>3
  <2> QED
    BY <1>1, <1>3, <2>1 DEF DupInv, SentInv
<1>5. ConfirmInv'
  BY <1>1, <1>3 DEF DupInv, ConfirmInv, Handled, Ballot
<1>6. OneAtATimeInv'
  BY <1>1, <1>3 DEF DupInv, TypeOK, OneAtATimeInv
<1> QED
  BY <1>2, <1>4, <1>5, <1>6 DEF DupInv

\* workLoop sends a request that its origin holds, and only to peers.
LEMMA DuplicateInv ==
  ASSUME DupInv, NEW u \in Reqs, NEW t \in Trees[Origin[u]], Duplicate(u, t)
  PROVE  DupInv'
<1> DEFINE o == Origin[u]
<1> USE DupConstants
<1>1. /\ o \in Nodes /\ seqCh[o] # << >> /\ Head(seqCh[o]) = u
      /\ UNCHANGED <<up, connected, making, held, confirmQ, voted, announced, pool>>
      /\ seqCh' = [seqCh EXCEPT ![o] = Tail(seqCh[o])]
      /\ tree' = [tree EXCEPT ![u] = t]
      /\ rpc' = [rpc EXCEPT ![u] = [q \in Nodes |-> IF q \in t[o] THEN "sent" ELSE rpc[u][q]]]
  BY DEF Duplicate, voteVars
<1>2. u \in Mine(o)
  BY <1>1 DEF DupInv, TypeOK, SentInv
<1>3. TypeOK'
  BY <1>1 DEF DupInv, TypeOK, RpcStates
<1>4. SentInv'
  <2>1. \A n \in Nodes : \A i \in 1 .. Len(seqCh'[n]) : seqCh'[n][i] \in Mine(n)
    BY <1>1 DEF DupInv, TypeOK, SentInv
  <2>2. \A v \in Reqs : \A n \in Nodes : tree'[v][n] \subseteq Peers(Origin[v])
    BY <1>1 DEF DupInv, TypeOK, SentInv
  <2>3. \A v \in Reqs : \A q \in Nodes :
          rpc'[v][q] # "none" => v \in Mine(Origin[v]) /\ q \in Peers(Origin[v])
    BY <1>1, <1>2 DEF DupInv, TypeOK, SentInv
  <2> QED
    BY <1>1, <2>1, <2>2, <2>3 DEF SentInv, Mine
<1>5. ConfirmInv'
  BY <1>1 DEF DupInv, TypeOK, ConfirmInv, Handled, Ballot
<1>6. OneAtATimeInv'
  BY <1>1 DEF DupInv, OneAtATimeInv, Mine
<1> QED
  BY <1>3, <1>4, <1>5, <1>6 DEF DupInv

\* A reply that comes back, to the origin or to an inner node of the tree, or
\* a confirmation that an inner node returns.
LEMMA ReplyInv ==
  ASSUME DupInv, NEW q \in Nodes, NEW u \in Reqs, q \in Handled(u),
         NEW s \in {"gathered", "pushed"}, rpc' = [rpc EXCEPT ![u][q] = s],
         \/ UNCHANGED confirmQ
         \/ confirmQ' = [confirmQ EXCEPT ![u] = @ \cup {q}],
         UNCHANGED <<nodeVars, held, tree, voted, announced, pool>>
  PROVE  DupInv'
<1> USE DupConstants
<1>1. TypeOK'
  <2>1. rpc' \in [Reqs -> [Nodes -> RpcStates]]
    BY DEF DupInv, TypeOK, RpcStates
  <2>2. confirmQ' \in [Reqs -> SUBSET Nodes]
    <3>1. confirmQ \in [Reqs -> SUBSET Nodes] /\ confirmQ[u] \cup {q} \in SUBSET Nodes
      BY DEF DupInv, TypeOK
    <3> QED
      BY <3>1
  <2> QED
    BY <2>1, <2>2 DEF DupInv, TypeOK, nodeVars
<1>2. SentInv'
  BY DEF DupInv, TypeOK, SentInv, Mine, Handled, nodeVars
<1>3. Handled(u)' = Handled(u) /\ \A v \in Reqs : Handled(v)' = Handled(v)
  BY DEF DupInv, TypeOK, Handled
<1>4. \A v \in Reqs : Ballot(v)' \subseteq Ballot(v) \cup (IF v = u THEN {q} ELSE {})
  BY DEF DupInv, TypeOK, Ballot
<1>5. u \in held[q] /\ q \in Peers(Origin[u])
  BY DEF DupInv, ConfirmInv, SentInv, Handled
<1>6. ConfirmInv'
  BY <1>3, <1>4, <1>5 DEF DupInv, ConfirmInv
<1>7. OneAtATimeInv'
  BY DEF DupInv, OneAtATimeInv, Mine, nodeVars
<1> QED
  BY <1>1, <1>2, <1>6, <1>7 DEF DupInv

\* Forwarding and returning keep the invariant: only who has handled a request
\* forwards it, and only who stores it is confirmed.
LEMMA ConfirmStepInv ==
  ASSUME DupInv, NEW n \in Nodes, NEW q \in Nodes, NEW u \in Reqs, Confirm(n, q, u)
  PROVE  DupInv'
<1> USE DupConstants
<1>1. CASE Forward(n, q, u)
  <2>1. /\ n \in Handled(u) /\ q \in tree[u][n] /\ rpc[u][q] = "none"
        /\ rpc' = [rpc EXCEPT ![u][q] = "sent"]
        /\ UNCHANGED <<nodeVars, held, tree, voteVars>>
    BY <1>1 DEF Forward
  <2>2. u \in Mine(Origin[u]) /\ q \in Peers(Origin[u])
    BY <2>1 DEF DupInv, SentInv, Handled
  <2>3. TypeOK'
    BY <2>1 DEF DupInv, TypeOK, RpcStates, nodeVars, voteVars
  <2>4. SentInv'
    BY <2>1, <2>2 DEF DupInv, TypeOK, SentInv, Mine, nodeVars
  <2>5. ConfirmInv'
    BY <2>1 DEF DupInv, TypeOK, ConfirmInv, Handled, Ballot, voteVars
  <2>6. OneAtATimeInv'
    BY <2>1 DEF DupInv, OneAtATimeInv, Mine, nodeVars, voteVars
  <2> QED
    BY <2>3, <2>4, <2>5, <2>6 DEF DupInv
<1>2. CASE Return(n, q, u)
  <2>1. q \in Handled(u)
    BY <1>2 DEF Return, Handled
  <2> QED
    BY <1>2, <2>1, ReplyInv DEF Return
<1>3. CASE ReceiveBack(n, q, u)
  <2>1. q \in Handled(u)
    BY <1>3 DEF ReceiveBack, Handled
  <2> QED
    BY <1>3, <2>1, ReplyInv DEF ReceiveBack
<1> QED
  BY <1>1, <1>2, <1>3 DEF Confirm

\* The payload is stored in the step that makes the confirmation.
LEMMA StoreInv ==
  ASSUME DupInv, NEW q \in Nodes, NEW u \in Reqs, Store(q, u)
  PROVE  DupInv'
<1> USE DupConstants
<1>1. /\ rpc[u][q] = "sent"
      /\ held' = [held EXCEPT ![q] = held[q] \cup {u}]
      /\ rpc' = [rpc EXCEPT ![u][q] = "stored"]
      /\ UNCHANGED <<nodeVars, tree, voteVars>>
  BY DEF Store
<1>2. q # Origin[u]
  BY <1>1 DEF DupInv, SentInv
<1>3. \A n \in Nodes : Mine(n)' = Mine(n) /\ held[n] \subseteq held'[n]
  BY <1>1, <1>2 DEF DupInv, TypeOK, Mine
<1>4. TypeOK'
  BY <1>1 DEF DupInv, TypeOK, RpcStates, nodeVars, voteVars
<1>5. SentInv'
  BY <1>1, <1>3 DEF DupInv, TypeOK, SentInv, nodeVars
<1>6. ConfirmInv'
  <2>1. u \in held'[q]
    BY <1>1 DEF DupInv, TypeOK
  <2> QED
    BY <1>1, <1>3, <2>1 DEF DupInv, TypeOK, ConfirmInv, Handled, Ballot, voteVars
<1>7. OneAtATimeInv'
  BY <1>1, <1>3 DEF DupInv, OneAtATimeInv, nodeVars, voteVars
<1> QED
  BY <1>4, <1>5, <1>6, <1>7 DEF DupInv

\* verifyBallot votes for nodes that store the payload, and the request it
\* announces is the last of its origin that was not.
LEMMA VerifyInv ==
  ASSUME DupInv, NEW q \in Nodes, NEW u \in Reqs, Verify(q, u) \/ VerifyPasses(q, u)
  PROVE  DupInv'
<1> USE DupConstants
<1> DEFINE o == Origin[u]
<1>1. /\ ~making[o] /\ rpc[u][q] = "pushed" /\ o \in Nodes
      /\ rpc' = [rpc EXCEPT ![u][q] = "done"]
      /\ UNCHANGED <<up, connected, seqCh, held, tree>>
  BY DEF Verify, VerifyLate, VerifyFew, VerifyPasses, Confirmed
<1>2. /\ \/ UNCHANGED <<confirmQ, voted>>
         \/ /\ confirmQ' = [confirmQ EXCEPT ![u] = {}]
            /\ voted' = [voted EXCEPT ![u] = Ballot(u)]
      /\ \/ UNCHANGED <<announced, making>>
         \/ /\ u \notin announced
            /\ announced' = announced \cup {u}
            /\ making' = [making EXCEPT ![o] = TRUE]
  BY DEF Verify, VerifyLate, VerifyFew, VerifyPasses, Vote, voteVars
<1>3. u \in Mine(o)
  BY <1>1 DEF DupInv, SentInv
<1>4. TypeOK'
  <2>1. /\ rpc' \in [Reqs -> [Nodes -> RpcStates]]
        /\ Ballot(u) \subseteq Nodes
    BY <1>1 DEF DupInv, TypeOK, RpcStates, Ballot
  <2>2. confirmQ' \in [Reqs -> SUBSET Nodes] /\ voted' \in [Reqs -> SUBSET Nodes]
    <3>1. confirmQ \in [Reqs -> SUBSET Nodes] /\ voted \in [Reqs -> SUBSET Nodes]
      BY DEF DupInv, TypeOK
    <3>2. {} \in SUBSET Nodes /\ Ballot(u) \in SUBSET Nodes
      BY <2>1
    <3> QED
      BY <1>2, <3>1, <3>2
  <2>3. announced' \in SUBSET Reqs /\ making' \in [Nodes -> BOOLEAN]
    BY <1>2 DEF DupInv, TypeOK
  <2> QED
    BY <1>1, <2>1, <2>2, <2>3 DEF DupInv, TypeOK
<1>5. SentInv'
  BY <1>1 DEF DupInv, TypeOK, SentInv, Mine
<1>6. ConfirmInv'
  <2>1. \A v \in Reqs : Ballot(v)' = Ballot(v)
    <3>1. CASE UNCHANGED <<confirmQ, voted>>
      BY <3>1 DEF Ballot
    <3>2. CASE /\ confirmQ' = [confirmQ EXCEPT ![u] = {}]
               /\ voted' = [voted EXCEPT ![u] = Ballot(u)]
      <4>1. confirmQ'[u] = {} /\ voted'[u] = Ballot(u)
        BY <3>2 DEF DupInv, TypeOK
      <4>2. \A v \in Reqs \ {u} : confirmQ'[v] = confirmQ[v] /\ voted'[v] = voted[v]
        BY <3>2 DEF DupInv, TypeOK
      <4> QED
        BY <4>1, <4>2 DEF Ballot
    <3> QED
      BY <1>2, <3>1, <3>2
  <2>2. \A v \in Reqs : Handled(v)' = Handled(v)
    BY <1>1 DEF DupInv, TypeOK, Handled
  <2> QED
    BY <1>1, <2>1, <2>2 DEF DupInv, ConfirmInv
<1>7. OneAtATimeInv'
  <2>1. \A n \in Nodes : Mine(n)' = Mine(n)
    BY <1>1 DEF Mine
  <2>2. CASE UNCHANGED <<announced, making>>
    BY <2>1, <2>2 DEF DupInv, OneAtATimeInv
  <2>3. CASE /\ u \notin announced /\ announced' = announced \cup {u}
             /\ making' = [making EXCEPT ![o] = TRUE]
    <3>1. Mine(o) \subseteq announced'
      BY <1>1, <1>3, <2>3 DEF DupInv, OneAtATimeInv
    <3>2. \A n \in Nodes \ {o} : making'[n] = making[n]
      BY <2>3 DEF DupInv, TypeOK
    <3> QED
      BY <2>1, <2>3, <3>1, <3>2 DEF DupInv, OneAtATimeInv
  <2> QED
    BY <1>2, <2>2, <2>3
<1> QED
  BY <1>4, <1>5, <1>6, <1>7 DEF DupInv

-----------------------------------------------------------------------------
(* The invariant, and the refinement that it supports.                     *)

\* A process that stops, for any of the reasons, disturbs nothing else.
LEMMA FailInv ==
  ASSUME DupInv, NEW n \in Nodes, Fail(n)
  PROVE  DupInv'
<1>1. PICK m \in Nodes : Stop(m)
  BY DEF Fail, Kill, BackFails, ClientMissing, CallFails
<1>2. /\ up' \in [Nodes -> BOOLEAN] /\ connected' \in [Nodes -> BOOLEAN]
      /\ UNCHANGED <<making, seqCh, held, tree, rpc, voteVars>>
  BY <1>1 DEF Stop, DupInv, TypeOK
<1> QED
  BY <1>2, DupFrame DEF voteVars

\* Every step keeps the invariant.
LEMMA DupNextInv ==
  ASSUME DupInv, [Next]_vars
  PROVE  DupInv'
<1>1. CASE UNCHANGED vars
  <2>1. /\ up' \in [Nodes -> BOOLEAN] /\ connected' \in [Nodes -> BOOLEAN]
        /\ UNCHANGED <<making, seqCh, held, tree, rpc, voteVars>>
    BY <1>1 DEF vars, nodeVars, DupInv, TypeOK
  <2> QED
    BY <2>1, DupFrame DEF voteVars
<1>2. ASSUME NEW n \in Nodes, Connect(n) PROVE DupInv'
  <2>1. /\ up' \in [Nodes -> BOOLEAN] /\ connected' \in [Nodes -> BOOLEAN]
        /\ UNCHANGED <<making, seqCh, held, tree, rpc, voteVars>>
    BY <1>2 DEF Connect, DupInv, TypeOK
  <2> QED
    BY <2>1, DupFrame DEF voteVars
<1>3. ASSUME NEW u \in Reqs, Send(u) PROVE DupInv'
  BY <1>3, MakeReqInv, DuplicateInv DEF Send
<1>4. ASSUME NEW u \in Reqs, NEW q \in Nodes, Store(q, u) PROVE DupInv'
  BY <1>4, StoreInv
<1>5. ASSUME NEW u \in Reqs, NEW q \in Nodes, Verify(q, u) PROVE DupInv'
  BY <1>5, VerifyInv
<1>6. ASSUME NEW u \in Reqs, NEW q \in Nodes, NEW n \in Nodes, Confirm(n, q, u) PROVE DupInv'
  BY <1>6, ConfirmStepInv
<1>7. ASSUME NEW n \in Nodes, Fail(n) PROVE DupInv'
  BY <1>7, FailInv
<1> QED
  BY <1>1, <1>2, <1>3, <1>4, <1>5, <1>6, <1>7 DEF Next, Progress

\* Confirmations are votes of nodes that store the payload, and an origin has at
\* most one request that is not announced, in every reachable state.
THEOREM DuplicationInvariant == Spec => []DupInv
<1>1. DupInit => DupInv
  BY DupInitInv
<1>2. DupInv /\ [Next]_vars => DupInv'
  BY DupNextInv
<1> QED
  BY <1>1, <1>2, PTL DEF Spec

\* The instance has a copy of its own of the operators it extends.
LEMMA InstanceCardinality == \A S : RB!Cardinality(S) = Cardinality(S)
BY Zenon DEF RB!Cardinality, Cardinality

\* The ballot passes only over nodes that store the payload.
LEMMA AnnounceStep ==
  ASSUME DupInv, NEW q \in Nodes, NEW u \in Reqs, VerifyPasses(q, u)
  PROVE  RB!Announce(u)
<1> USE DupConstants
<1>1. /\ UNCHANGED held /\ u \notin announced /\ announced' = announced \cup {u}
      /\ Cardinality(Ballot(u)) >= FaultNum /\ rpc[u][q] = "pushed"
  BY DEF VerifyPasses, Confirmed, Vote
<1>2. u \in held[Origin[u]] /\ q \in RB!Holders(u)
  BY <1>1 DEF DupInv, SentInv, ConfirmInv, Handled, Mine, RB!Holders, RB!Peers, Peers
<1>3. Ballot(u) \subseteq RB!Holders(u)
  <2>1. Ballot(u) \subseteq Nodes
    BY DEF DupInv, TypeOK, Ballot
  <2> QED
    BY <2>1 DEF DupInv, ConfirmInv, RB!Holders, RB!Peers, Peers
<1>4. IsFiniteSet(RB!Holders(u))
  <2>1. RB!Holders(u) \subseteq Nodes
    BY DEF RB!Holders, RB!Peers
  <2> QED
    BY <2>1, FS_Subset
<1>5. Cardinality(RB!Holders(u)) >= FaultNum
  <2>1. /\ Cardinality(Ballot(u)) <= Cardinality(RB!Holders(u))
        /\ Cardinality(Ballot(u)) \in Nat /\ Cardinality(RB!Holders(u)) \in Nat
    BY <1>3, <1>4, FS_Subset, FS_CardinalityType
  <2>2. FaultNum \in Int
    BY FS_CardinalityType DEF FaultNum
  <2> QED
    BY <1>1, <2>1, <2>2
<1>6. RB!FaultNum = FaultNum /\ RB!Cardinality(RB!Holders(u)) = Cardinality(RB!Holders(u))
  BY InstanceCardinality DEF RB!FaultNum, FaultNum
<1> QED
  BY <1>1, <1>2, <1>5, <1>6 DEF RB!Announce

\* Every step of the duplication phase is one of ReliableBroadcast's or leaves
\* its variables alone.
LEMMA DupRefinementStep ==
  ASSUME DupInv, [Next]_vars
  PROVE  [RB!RBNext]_(RB!rbVars)
<1> USE DupConstants DEF RB!RBNext, RB!rbVars
<1>1. CASE UNCHANGED vars
  BY <1>1 DEF vars, voteVars
<1>2. ASSUME NEW u \in Reqs, MakeReq(u) PROVE RB!RBNext
  <2>1. RB!Make(u)
    BY <1>2 DEF MakeReq, RB!Make, voteVars, DupInv, OneAtATimeInv, Mine
  <2> QED
    BY <2>1
<1>3. ASSUME NEW u \in Reqs, NEW t, Duplicate(u, t) PROVE UNCHANGED RB!rbVars
  BY <1>3 DEF Duplicate, voteVars
<1>4. ASSUME NEW u \in Reqs, NEW q \in Nodes, Store(q, u) PROVE [RB!RBNext]_(RB!rbVars)
  <2>1. /\ held' = [held EXCEPT ![q] = held[q] \cup {u}] /\ UNCHANGED announced
        /\ u \in held[Origin[u]]
    BY <1>4 DEF Store, voteVars, DupInv, SentInv, Mine
  <2>2. CASE u \in held[q]
    BY <2>1, <2>2 DEF DupInv, TypeOK
  <2>3. CASE u \notin held[q]
    <3>1. RB!Store(q, u)
      BY <2>1, <2>3 DEF RB!Store
    <3> QED
      BY <3>1
  <2> QED
    BY <2>2, <2>3
<1>5. ASSUME NEW u \in Reqs, NEW q \in Nodes, Verify(q, u) PROVE [RB!RBNext]_(RB!rbVars)
  <2>1. CASE VerifyPasses(q, u)
    BY <2>1, AnnounceStep
  <2>2. CASE VerifyLate(q, u) \/ VerifyFew(q, u)
    BY <2>2 DEF VerifyLate, VerifyFew, Confirmed, voteVars
  <2> QED
    BY <1>5, <2>1, <2>2 DEF Verify
<1>6. ASSUME NEW u \in Reqs, NEW q \in Nodes, NEW n \in Nodes, Confirm(n, q, u)
      PROVE  UNCHANGED RB!rbVars
  BY <1>6 DEF Confirm, Forward, Return, ReceiveBack, voteVars
<1>7. ASSUME NEW n \in Nodes, Connect(n) \/ Fail(n) PROVE UNCHANGED RB!rbVars
  BY <1>7 DEF Connect, Fail, Kill, BackFails, ClientMissing, CallFails, Stop, voteVars
<1> QED
  BY <1>1, <1>2, <1>3, <1>4, <1>5, <1>6, <1>7 DEF Next, Progress, Send

\* The duplication phase, in either mode, implements the reliable broadcast that
\* the ordering phase is built on.
THEOREM DuplicationRefines == Spec => ImplementsReliableBroadcast
<1>1. DupInit => RB!RBInit
  BY DEF DupInit, FreshStart, RB!RBInit
<1>2. DupInv /\ [Next]_vars => [RB!RBNext]_(RB!rbVars)
  BY DupRefinementStep
<1> QED
  BY <1>1, <1>2, DuplicationInvariant, PTL DEF Spec, ImplementsReliableBroadcast, RB!RBSpec

-----------------------------------------------------------------------------
(* No vote is lost.                                                        *)

\* Until the request is announced, a confirmation in the hands of its goroutine is
\* queued or counted, one that has been verified is counted, and what is counted
\* did not suffice.
VotesInv ==
  \A u \in Reqs \ announced :
    /\ \A q \in Nodes : rpc[u][q] = "pushed" => q \in Ballot(u)
    /\ \A q \in Nodes : rpc[u][q] = "done" => q \in voted[u]
    /\ voted[u] = {} \/ Cardinality(voted[u]) < FaultNum

\* A step that brings no confirmation to the origin leaves the votes alone.
LEMMA VotesFrame ==
  ASSUME VotesInv, UNCHANGED <<confirmQ, voted, announced>>,
         \A u \in Reqs, q \in Nodes :
           rpc'[u][q] \in {"pushed", "done"} => rpc'[u][q] = rpc[u][q]
  PROVE  VotesInv'
BY DEF VotesInv, Ballot

\* A confirmation is queued when its goroutine is started.
LEMMA VotesReply ==
  ASSUME TypeOK, VotesInv, NEW q \in Nodes, NEW u \in Reqs,
         \/ rpc' = [rpc EXCEPT ![u][q] = "gathered"] /\ UNCHANGED confirmQ
         \/ /\ rpc' = [rpc EXCEPT ![u][q] = "pushed"]
            /\ confirmQ' = [confirmQ EXCEPT ![u] = @ \cup {q}],
         UNCHANGED <<voted, announced>>
  PROVE  VotesInv'
<1>1. \A v \in Reqs, p \in Nodes :
        \/ rpc'[v][p] = rpc[v][p]
        \/ v = u /\ p = q /\ rpc'[v][p] \in {"gathered", "pushed"}
  BY DEF TypeOK
<1>2. /\ \A v \in Reqs : Ballot(v) \subseteq Ballot(v)'
      /\ rpc'[u][q] = "pushed" => q \in Ballot(u)'
  BY DEF TypeOK, Ballot
<1> QED
  BY <1>1, <1>2 DEF VotesInv

\* verifyBallot counts what is queued, and announces when that suffices.
LEMMA VotesVerify ==
  ASSUME DupInv, VotesInv, NEW q \in Nodes, NEW u \in Reqs, Verify(q, u)
  PROVE  VotesInv'
<1>1. rpc[u][q] = "pushed" /\ rpc' = [rpc EXCEPT ![u][q] = "done"]
  BY DEF Verify, VerifyLate, VerifyFew, VerifyPasses, Confirmed
<1>2. /\ rpc \in [Reqs -> [Nodes -> RpcStates]]
      /\ confirmQ \in [Reqs -> SUBSET Nodes] /\ voted \in [Reqs -> SUBSET Nodes]
  BY DEF DupInv, TypeOK
<1>3. /\ \A p \in Nodes \ {q} : rpc'[u][p] = rpc[u][p]
      /\ rpc'[u][q] = "done"
      /\ \A v \in Reqs \ {u}, p \in Nodes : rpc'[v][p] = rpc[v][p]
  BY <1>1, <1>2
<1>4. CASE u \in announced'
  <2>1. /\ announced' = announced \cup {u}
        /\ \A v \in Reqs \ {u} : confirmQ'[v] = confirmQ[v] /\ voted'[v] = voted[v]
    BY <1>2, <1>4 DEF Verify, VerifyLate, VerifyFew, VerifyPasses, Vote, voteVars
  <2> QED
    BY <1>3, <1>4, <2>1 DEF VotesInv, Ballot
<1>5. CASE u \notin announced'
  <2>1. VerifyFew(q, u)
    BY <1>5 DEF Verify, VerifyLate, VerifyPasses, voteVars
  <2>2. /\ u \notin announced /\ UNCHANGED announced
        /\ confirmQ'[u] = {} /\ voted'[u] = Ballot(u)
        /\ Cardinality(Ballot(u)) < FaultNum
        /\ \A v \in Reqs \ {u} : confirmQ'[v] = confirmQ[v] /\ voted'[v] = voted[v]
    BY <1>2, <2>1 DEF VerifyFew, Vote
  <2>3. \A p \in Nodes : rpc[u][p] \in {"pushed", "done"} => p \in Ballot(u)
    BY <2>2 DEF VotesInv, Ballot
  <2>4. Ballot(u)' = Ballot(u)
    BY <2>2 DEF Ballot
  <2>5. \A p \in Nodes : rpc'[u][p] \in {"pushed", "done"} => p \in Ballot(u)
    BY <1>1, <1>3, <2>3
  <2>6. \A v \in Reqs \ {u} : Ballot(v)' = Ballot(v)
    BY <2>2 DEF Ballot
  <2>7. ASSUME NEW v \in Reqs \ announced, v # u
        PROVE  /\ \A p \in Nodes : rpc'[v][p] = "pushed" => p \in Ballot(v)'
               /\ \A p \in Nodes : rpc'[v][p] = "done" => p \in voted'[v]
               /\ voted'[v] = {} \/ Cardinality(voted'[v]) < FaultNum
    BY <1>3, <2>2, <2>6, <2>7 DEF VotesInv
  <2>8. /\ \A p \in Nodes : rpc'[u][p] = "pushed" => p \in Ballot(u)'
        /\ \A p \in Nodes : rpc'[u][p] = "done" => p \in voted'[u]
        /\ Cardinality(voted'[u]) < FaultNum
    BY <2>2, <2>4, <2>5
  <2> QED
    BY <2>2, <2>7, <2>8 DEF VotesInv
<1> QED
  BY <1>4, <1>5

\* Whichever goroutine empties the queue, FaultNum verified confirmations announce
\* their request.
THEOREM EnoughAnnounces == Spec => []EnoughIsAnnounced
<1> USE DupConstants
<1>1. DupInit => VotesInv
  BY DEF DupInit, FreshStart, VotesInv
<1>2. ASSUME DupInv, VotesInv, [Next]_vars PROVE VotesInv'
  <2>1. CASE UNCHANGED vars
    <3>1. UNCHANGED <<rpc, voteVars>>
      BY <2>1 DEF vars
    <3> QED
      BY <1>2, <3>1, VotesFrame DEF voteVars
  <2>2. ASSUME NEW n \in Nodes, Connect(n) \/ Fail(n) PROVE VotesInv'
    <3>1. UNCHANGED <<rpc, voteVars>>
      BY <2>2 DEF Connect, Fail, Kill, BackFails, ClientMissing, CallFails, Stop
    <3>2. UNCHANGED <<confirmQ, voted, announced>>
      BY <3>1 DEF voteVars
    <3> QED
      BY <1>2, <3>1, <3>2, VotesFrame
  <2>3. ASSUME NEW u \in Reqs, Send(u) PROVE VotesInv'
    <3>1. CASE MakeReq(u)
      BY <1>2, <3>1, VotesFrame DEF MakeReq, voteVars
    <3>2. ASSUME NEW t, Duplicate(u, t) PROVE VotesInv'
      <4>1. /\ rpc' = [rpc EXCEPT ![u] =
                         [q \in Nodes |-> IF q \in t[Origin[u]] THEN "sent" ELSE rpc[u][q]]]
            /\ UNCHANGED voteVars
        BY <3>2 DEF Duplicate
      <4>2. rpc \in [Reqs -> [Nodes -> RpcStates]]
        BY <1>2 DEF DupInv, TypeOK
      <4>3. \A v \in Reqs, q \in Nodes : rpc'[v][q] = rpc[v][q] \/ rpc'[v][q] = "sent"
        BY <4>1, <4>2
      <4> QED
        BY <1>2, <4>1, <4>3, VotesFrame DEF voteVars
    <3> QED
      BY <2>3, <3>1, <3>2 DEF Send
  <2>4. ASSUME NEW u \in Reqs, NEW q \in Nodes, NEW n \in Nodes, Store(q, u) \/ Forward(n, q, u)
        PROVE  VotesInv'
    <3>1. /\ UNCHANGED voteVars
          /\ \E st \in {"sent", "stored"} : rpc' = [rpc EXCEPT ![u][q] = st]
      BY <2>4 DEF Store, Forward
    <3>2. rpc \in [Reqs -> [Nodes -> RpcStates]]
      BY <1>2 DEF DupInv, TypeOK
    <3>3. \A v \in Reqs, p \in Nodes : rpc'[v][p] = rpc[v][p] \/ rpc'[v][p] \in {"sent", "stored"}
      BY <3>1, <3>2
    <3> QED
      BY <1>2, <3>1, <3>3, VotesFrame DEF voteVars
  <2>5. ASSUME NEW u \in Reqs, NEW q \in Nodes, NEW n \in Nodes,
               Return(n, q, u) \/ ReceiveBack(n, q, u)
        PROVE  VotesInv'
    BY <1>2, <2>5, VotesReply DEF Return, ReceiveBack, DupInv
  <2>6. ASSUME NEW u \in Reqs, NEW q \in Nodes, Verify(q, u) PROVE VotesInv'
    BY <1>2, <2>6, VotesVerify
  <2> QED
    BY <1>2, <2>1, <2>2, <2>3, <2>4, <2>5, <2>6 DEF Next, Progress, Confirm
<1>3. ASSUME DupInv, VotesInv PROVE EnoughIsAnnounced
  <2> SUFFICES ASSUME NEW u \in Reqs \ announced,
                      NEW verified, verified = {q \in Nodes : rpc[u][q] = "done"},
                      verified # {}, Cardinality(verified) >= FaultNum
               PROVE  FALSE
    BY DEF EnoughIsAnnounced
  <2>1. verified \subseteq voted[u] /\ IsFiniteSet(voted[u])
    <3>1. voted[u] \subseteq Nodes
      BY <1>3 DEF DupInv, TypeOK
    <3> QED
      BY <1>3, <3>1, FS_Subset DEF VotesInv
  <2>2. Cardinality(voted[u]) < FaultNum
    BY <1>3, <2>1 DEF VotesInv
  <2>3. /\ Cardinality(verified) <= Cardinality(voted[u])
        /\ Cardinality(verified) \in Nat /\ Cardinality(voted[u]) \in Nat
    BY <2>1, FS_Subset, FS_CardinalityType
  <2>4. FaultNum \in Int
    BY FS_CardinalityType DEF FaultNum
  <2> QED
    BY <2>2, <2>3, <2>4
<1> QED
  BY <1>1, <1>2, <1>3, DuplicationInvariant, PTL DEF Spec

-----------------------------------------------------------------------------
(* One announcement per request.                                           *)

\* A sequence without repetitions stays so when a new element is appended.
LEMMA AppendOnce ==
  ASSUME NEW S, NEW s \in Seq(S), NEW x \in S
  PROVE  /\ ToSet(Append(s, x)) = ToSet(s) \cup {x}
         /\ IsInjective(s) /\ x \notin ToSet(s) => IsInjective(Append(s, x))
<1>1. /\ Len(Append(s, x)) = Len(s) + 1 /\ Len(s) \in Nat
      /\ DOMAIN s = 1 .. Len(s) /\ DOMAIN Append(s, x) = 1 .. Len(s) + 1
      /\ \A i \in 1 .. Len(s) : Append(s, x)[i] = s[i]
      /\ Append(s, x)[Len(s) + 1] = x
  OBVIOUS
<1>2. \A i : i \in 1 .. Len(s) + 1 <=> i \in 1 .. Len(s) \/ i = Len(s) + 1
  BY <1>1
<1> QED
  BY <1>1, <1>2 DEF ToSet, IsInjective

OncePooled == PoolTypeOK /\ AnnouncedOnce

\* However the confirmations of a request are interleaved, and whatever fails, the
\* node that made it puts it in its pool once.
THEOREM AnnouncedOnceCorrect == Spec => []AnnouncedOnce
<1>1. DupInit => OncePooled
  BY DEF DupInit, FreshStart, OncePooled, PoolTypeOK, AnnouncedOnce, ToSet, IsInjective
<1>2. ASSUME DupInv, OncePooled, [Next]_vars PROVE OncePooled'
  <2>1. CASE UNCHANGED <<announced, pool>>
    BY <2>1, <1>2 DEF OncePooled, PoolTypeOK, AnnouncedOnce
  <2>2. ASSUME NEW q \in Nodes, NEW u \in Reqs, Verify(q, u), ~ UNCHANGED <<announced, pool>>
        PROVE  OncePooled'
    <3> DEFINE o == Origin[u]
    <3>1. /\ u \notin announced /\ announced' = announced \cup {u} /\ o \in Nodes
          /\ pool' = [pool EXCEPT ![o] = Append(pool[o], u)]
          /\ pool \in [Nodes -> Seq(Reqs)]
      BY <2>2, DupConstants, <1>2 DEF Verify, VerifyLate, VerifyFew, VerifyPasses, Vote,
                                      voteVars, OncePooled, PoolTypeOK
    <3>2. pool[o] \in Seq(Reqs) /\ IsInjective(pool[o]) /\ u \notin ToSet(pool[o])
      BY <3>1, <1>2 DEF OncePooled, AnnouncedOnce
    <3>3. /\ pool'[o] = Append(pool[o], u)
          /\ ToSet(pool'[o]) = ToSet(pool[o]) \cup {u} /\ IsInjective(pool'[o])
      BY <3>1, <3>2, AppendOnce
    <3>4. \A n \in Nodes \ {o} : pool'[n] = pool[n]
      BY <3>1
    <3> HIDE DEF o
    <3>5. ASSUME NEW n \in Nodes
          PROVE  IsInjective(pool'[n]) /\ ToSet(pool'[n]) = {v \in announced' : Origin[v] = n}
      <4>1. CASE n = o
        BY <4>1, <3>1, <3>3, <1>2 DEF OncePooled, AnnouncedOnce, o
      <4>2. CASE n # o
        BY <4>2, <3>1, <3>4, <1>2 DEF OncePooled, AnnouncedOnce, o
      <4> QED
        BY <4>1, <4>2
    <3>6. PoolTypeOK'
      BY <3>1, <3>2 DEF PoolTypeOK, o
    <3> QED
      BY <3>5, <3>6 DEF OncePooled, AnnouncedOnce
  <2>3. ~ UNCHANGED <<announced, pool>> => \E q \in Nodes, u \in Reqs : Verify(q, u)
    <3>1. ASSUME NEW n \in Nodes, Connect(n) \/ Fail(n) PROVE UNCHANGED <<announced, pool>>
      BY <3>1 DEF Connect, Fail, Kill, BackFails, ClientMissing, CallFails, Stop, voteVars
    <3>2. ASSUME NEW u \in Reqs, Send(u) PROVE UNCHANGED <<announced, pool>>
      BY <3>2 DEF Send, MakeReq, Duplicate, voteVars
    <3>3. ASSUME NEW n \in Nodes, NEW q \in Nodes, NEW u \in Reqs, Store(q, u) \/ Confirm(n, q, u)
          PROVE  UNCHANGED <<announced, pool>>
      BY <3>3 DEF Store, Confirm, Forward, Return, ReceiveBack, voteVars
    <3>4. UNCHANGED vars => UNCHANGED <<announced, pool>>
      BY DEF vars, voteVars
    <3> QED
      BY <1>2, <3>1, <3>2, <3>3, <3>4, DupConstants DEF Next, Progress
  <2> QED
    BY <2>1, <2>2, <2>3
<1>3. OncePooled => AnnouncedOnce
  BY DEF OncePooled
<1> QED
  BY <1>1, <1>2, <1>3, DuplicationInvariant, PTL DEF Spec
=============================================================================
