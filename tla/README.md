# A TLA+ verification of praft

praft (`src/zpbft`) is a parallel variant of Raft for permissioned networks.
Every node broadcasts batches of transactions of its own (*duplication*), a
leader orders the batches whose broadcast is confirmed (*ordering*), and every
node runs the ordered blocks (*execution*).  This directory holds TLA+ modules
of these phases, TLC configurations that check them on small instances, and
TLAPS proofs of the main safety properties for all values of the constants.

## 1. Inventory

| part | code | state | operations |
|---|---|---|---|
| duplication | `server.go` 99-425, 445-466, 944-1034, 1124-1170; `cert.go` | `seq2cert` (request, stage, confirmation queue, votes), `seqCh`, `id2srvCli`, `duplicateMu` | `makeReq`, `workLoop`, `duplicate` / `DuplicateRpc`, `treeDuplicate` / `TreeDuplicateRpc` / `PrimaryReceiveBackRpc`, `verifyBallot`, `connect` |
| ordering | `server.go` 468-693; `blocklog.go` | `localDuplicatedReqs`, `height2blockLog`, `currentBlockIndex`, confirmation lists | `controlSending`, `Sending`, `Receiving`, `check` |
| execution | `server.go` 695-755 | `execCh`, `aheadSet`, `curExecHeight` | `execute` |
| broadcast tree | `tree.go` | none, two functions | `makeTree`, `traverseTree` |
| transaction pool | `server.go` 75-97, 1054-1122 | `txPoolBatches` | `pushTxToPool`, the loop of `makeReq` |
| configuration | `config.go`, `node.go`, `util.go` | `KConfig` | `InitConfig`, `GetId` |
| earlier protocol | `server.go` 757-942, most of `cert.go` | certificates | `Prepare`, `Commit` and their RPCs; called by nobody |
| proposers, delay | `server.go` 427-443, 1036-1052 | `proposers` | `rotateProposers`, `isProposerOrNot`, `delayReset` |
| client | `client.go` | | `RunClient`; called by nobody |
| local view | `view.go` | `LocalView` | created, read by nobody |
| key-value store | `ycsb.go` | `kmap`, never filled | `GenTxSet`, `ExecTxSet` |
| cryptography | `crypto.go`, `gencerts/` | one key pair | sign, verify, digest |
| consistent hashing | `consistent/` | hash circle | `Add`, `Remove`, `Set`, `Get`, `GetTwo`, `GetN`; not used by the server |
| log, tools | `zlog/`, `bandwidth/`, scripts | | `Error` prints and panics |

**How they interact.**  `RunServer` starts three goroutines, `Start`,
`pushTxToPool` and `execute`, and serves RPCs, each in a goroutine of its own.
`Start` runs `connect` and `workLoop`; `workLoop` calls `makeReq` once, starts
`controlSending`, and duplicates what comes out of `seqCh`.  The confirmations
come back to goroutines that call `verifyBallot` under `duplicateMu`; when
`FaultNum` confirmations are counted, `verifyBallot` appends the request to
`localDuplicatedReqs` and calls `makeReq` again, which waits for transactions
while the mutex is held.  The leader's `Sending` copies `localDuplicatedReqs` into a block,
calls `Receiving` on every follower, and merges the follower's own
`localDuplicatedReqs` out of the reply into its own.  A follower logs the block of height h as prepared and the
block of height h - 1 as committed; the leader counts the replies.  A height that
is both goes to `execCh`, and `execute` runs the heights in order.

**What is hard.**  Two calls of `Receiving` and their replies interleave at
every lock region; `height2blockLog` entries are looked up in one critical section
and inserted in another; `localDuplicatedReqs` is cleared without its lock;
`execute` reads the log map without one; the payload of a request may be later
than the block that orders it; a failed RPC panics its caller.  `PROJECT.json`
lists these hazards, each at its line, with the properties that would catch it.

**What makes each part correct.**  Duplication: a request is announced once,
only when `FaultNum` peers store it, and origins make progress.  Ordering: nodes
run the same blocks in the same order, each once; a queued block is
complete and never replaced; nothing announced gets lost.  Tree: every node is reached
once.  Pool: its batches are used up oldest first, and all of them in the end.  Ring: its map, its sorted list and its members agree, a name moves only when it must, lookups
return the closest elements and do not go round for ever.

## 2. Modules

| module | models | lines of the code |
|---|---|---|
| `Config` | the nodes, `FaultNum`, `Peers` | `config.go` 116, `server.go` 1010 |
| `Deployment` | the loops of `InitConfig` that fill `PeerIds` and `Id2Node`, the ids, the proposers | `config.go` 89-113, `util.go` 82, `main.go` 23 |
| `ReliableBroadcast` | *abstract*: what duplication promises to ordering | |
| `Duplication` | the duplication phase, flooding and tree mode | see above |
| `TotalOrder` | *abstract*: what ordering promises to the nodes that execute | |
| `Ordering` | `Sending`, `Receiving`, `execute`, on top of `ReliableBroadcast` | see above |
| `OrderingPrompt` | `Ordering` on a network faster than the leader's pauses | `server.go` 468-502 |
| `Tree`, `BroadcastTree` | a tree broadcast of a process of a `Deployment`: `makeTree` over any order of the map of clients, the calls down the tree, `traverseTree` at each node | `tree.go`, `server.go` 118-160, 174-290 |
| `System` | the process: `Duplication` and `Ordering` on the same nodes, with one pool | `server.go` 1152-1170, 1180-1271 |
| `TxPool` | `pushTxToPool`, the loop of `makeReq`, one batch per step | see above |
| `ConsistentHash` | the ring, with elements whose hashes may collide | `consistent.go` |
| `MCOrdering`, `MCPrompt`, `MCDuplication`, `MCSystem`, `MCTree`, `MCRing` | instances for TLC | |
| `OrderingProofs`, `AccountingProofs`, `PromptProofs` | the theorems on `Ordering` and `OrderingPrompt` | |
| `DuplicationProofs`, `SystemProofs` | the theorems on `Duplication` and `System` | |
| `DeploymentProofs` | the theorems on `BroadcastTree`, with `Tree` and `Deployment` | |
| `TxPoolProofs`, `ConsistentHashProofs` | the theorems on `TxPool` and `ConsistentHash` | |

`Duplication` implements `ReliableBroadcast`, `Ordering` extends `ReliableBroadcast` and
implements `TotalOrder`: the chain from the RPCs of a request to the execution of
the block that holds it.  `System` puts the two together: the actions of `Duplication` stand where
`Ordering` has only the abstraction, and `System` implements `Ordering`.  Definitions that begin a comment with *Mutant* are
wrong on purpose: each is a plausible bug of the definition after it, and shows
that a property of a run would find it.

### Duplication

`held[n]` is the set of requests whose certificate on n has a payload,
`rpc[u][q]` how far the call that carries u to q has come, through q's handler and
back to the queue of the origin's certificate.  In tree mode a reply first goes to
q's parent (`gathered`), which returns the confirmations of all its children with
one call of `PrimaryReceiveBackRpc`; a flood is the tree in which everybody is a child of the
origin, so one set of actions serves both modes.  `making[n]` is true while n
is in `makeReq`: `Verify` needs it to be false, which is `duplicateMu`.  Every RPC
confirmation is pushed to `confirmQ` outside the mutex and counted inside it,
together with whatever else is in the queue by then (`Return`, `Verify`).
A process stops (`up[n]`) when it is killed, when a call of a node that is down fails (`zlog.Error`
panics), and when a request has to be forwarded before `connect` has
dialled the next node (`ClientMissing`, a nil client).  `Verify` has three cases:
the stage says the request is announced (`VerifyLate`), the ballot is still too small
(`VerifyFew`), or it passes (`VerifyPasses`).

### Ordering

A log entry `height2blockLog[h]` of node n is spread over `logged`, `content`,
`prepared`, `committed` and `executed`.  `call[p][h]` is the program counter of
the call `Receiving(h)` at p and of the leader's goroutine that waits for it.  Each
lock region of the code is one action: `StartReceiving` and `InsertPrepared` (two
regions, lines 626-639), `LookupCommit` and `InsertCommitted` (646-670), `Reply`
(672-693); `CountReply` (both log mutexes held, 573-601) and `MergeReply`
(601-610); `BuildBlock`, `RecordBlock` and `Broadcast` (505-567).  `PutLog` is
the assignment of a fresh `BlockLog` to a map entry and resets what was there.
`workLoop` starts `controlSending` when `connect` has dialled every peer and the first `makeReq` has returned
(1152-1157, 1181): `BuildBlock` waits for `SendingStarted`, so a leader whose peer died before may be up and silent for ever.
A call fails when the follower is down and no reply has come, also when the handler has emptied
the pool and only the reply is lost (`CallFails` in the state `replied`).

Two data races are choices over what the build can produce.  The clear of
`localDuplicatedReqs` (557) races with the append of `verifyBallot` and with the loop
that merges a reply: `ClearRaces` leaves the batch from some element on, or the pool as if
the clear had never been, or a slice header with a length and no array (`torn`), on which the next access
faults.  `execute`'s unlocked read of the map races with an insertion, which the
Go runtime may answer by ending the process: `ConcurrentMapAccess`.  The content
that `execute` reads is in every case of an entry that was written long before,
which `QueuedLogFrozen` proves.

### System

`System` declares the variables of both phases once: `up`, `held`, `announced` and the pool are
shared, the rest belongs to one phase.  A step is one of `Duplication` (`DupStep`),
one of `Ordering` other than its abstract duplication (`OrderStep`), or the one step that belongs to both: a
ballot of the leader passes, so that `verifyBallot` appends to the pool, while `Sending` clears it (`RaceStep`).
Processes stop for the reasons of `Duplication` or of `Ordering`, and stay down for both.

### BroadcastTree

Three loops of the code run one round per step: `InitConfig` (`AddPeer`, `NextHost`), the loop of `makeTree` over `treeIp`
(`AddClient`), and `traverseTree` (`Visit`).  `order` is `treeIp` as far as it has been walked: the next id is any client that is not in it, an idle
one while there are some (`NextId`), which are all the orders that a Go map, split into `idleIp` and `busyIp`, can have.  `calls[n]` and `answered[n]` count how often n was told to
broadcast and has: the root by itself, in `treeDuplicate`, the others by
`TreeDuplicateRpc`.  Each looks for its own children in the tree it was sent, from the root of the tree on (`StartWalk`, `Visit`,
`Found`), and calls them (`Forward`).  Walks read a tree that nobody changes any more, so they are taken one after the other.  What a call carries
and what comes back is `Duplication`, for which a tree is a constant: `MCDuplication` gives it one that `MakeTree`, the whole loop as a fold, has built.

### TxPool

`txPoolMu` is held while `at` is not 0: `StartReq` is the last look of the polling loop, which finds the newest batch not empty, `TakeBatch` and
`FillUp` are the two branches of the loop over the batches, `FinishReq` releases the lock and builds the request.  The code throws `realBatchTxNum` away:
every request has `TxNum` = `BatchTxNum` and a generated `TxSet` (1126-1137), so what is stated here is the accounting of the pool, never the contents of requests.

### ConsistentHash

`hash` gives each element the hashes of its replicas, any assignment being possible; `circle`, `sortedHashes`, `members` and `count` are
the fields of the code.  A write is one step, except `Set`, which removes and adds one element per step
while it holds the lock; a lookup takes one step per round of its loop.  Readers change nothing and exclude writers, so one call at a time
loses no behaviour.  `sortedHashes` may name a point that `circle` lacks only if the code let it: `At` then gives
the empty string, as a Go map does.

Three things a caller can do put the ring out of order, and the properties name them in `Healthy`: adding a
member again or removing a stranger moves `count` away from the number of members; two elements
with the same points leave one of them without any.  `GetTwo` and `GetN` wrap their index inside the
round, so when `start` is 0 the test at the head of the loop is never false: on such a ring, and
in `GetN` with n = 0, they go round for ever with the read lock held, and a negative `count` makes `GetN` panic.
`LookupsReturn` says that on a healthy ring none of this happens.  The comment of `New` promises 20 replicas, the code sets 1; the model has any number.

### Bounds and over-approximations

`MaxHeight` bounds the blocks the leader sends, `MaxKills` the nodes that are
killed (not those that stop of themselves), `Reqs` the requests; `TxPool` has
`MaxBatches` and `MaxReqs`; `ConsistentHash` has `MaxLookup`, `MaxSet` and `MaxDrift`.  `execCh` has `ChanSize`
places, 10000 in the code: `order_returns` gives it one, so that it is full whenever it is in use.  `seqCh` never holds more than one request, because the next is made after this one was sent and announced, so its 10000 places
are not modelled.  `DuplicationFails` lets a node stop whenever a peer is
down, though the RPC to it may have been answered before, or before its first own request; `Duplication` has
the conditions of each call, and `System` shows that they are covered.  One of them is a little wide: a node whose call of `PrimaryReceiveBackRpc` was
answered can still stop in `BackFails`, because the model does not keep whether the answer of that call was received.
Signature and digest checks always pass: all processes load one
key pair, and `JsonMarshal` (crypto.go:90) returns 100 zero bytes for every value, so all digests are equal.  In tree mode
this is what lets confirmations pass `verifyBallot` at all, because the digest a
node confirms there is that of another message.

## 3. Runs

| run | instance | what it shows |
|---|---|---|
| `order_pair` | 2 nodes, 3 blocks, a request of each node | all interleavings of lookups, insertions, replies and the unlocked clear: agreement with the sent blocks, the leader's log extends what it sent, frozen logs, one report per request, `TotalOrder`; the inductive invariant `AccountInv` |
| `order_quorum` | 4 nodes, 2 empty blocks | the first size with `FaultNum` = 1: a quorum behind every block the leader runs, no height queued twice or unprepared; the inductive invariant `OrderingInv` |
| `order_returns` | 3 nodes, 2 empty blocks, 1 kill, `ChanSize` 1, fair | calls return also when a full channel stops a handler under the log mutexes; a follower that stops takes down a leader that has begun to send |
| `prompt_quorum` | 4 nodes, 2 blocks, a request of the leader, fair, prompt | neither side leaves a block behind, what is queued runs unless a payload is missing, and every node gets as far as the first block it had to drop; the inductive invariant `PromptInv` |
| `dup_tree` | 7 connected nodes, 1 request, one binary tree or a flood, 2 kills | `FaultNum` = 2: refinement of `ReliableBroadcast`, no vote lost between two calls of `verifyBallot`; the inductive invariant `DupInv` |
| `dup_live` | 4 nodes, 2 requests of one origin, one binary tree, nobody killed, fair | announced once, every request announced, payloads arrive |
| `system` | 4 nodes, 1 flooded request of the leader, 1 block, 1 kill | both phases together implement `Ordering`; what is in a block is stored by `FaultNum` others; the inductive invariant `SystemInv` |
| `tree_shape` | 3 hosts with 3, 2 and 2 processes, the last host busy, 2 children, 2 proposers | ids tell processes apart, the first two processes of the file are the proposers; a broadcast from every process over every order of the map calls every node once and spares the busy host; the inductive invariant `TreeInv` |
| `pool_batches` | batches of 2, `BatchTxNum` 5, 7 of each | oldest first, every batch completed; the inductive invariant `PoolInv` |
| `ring_lookup` | 3 elements with 2 points each on 4 hashes, lookups of up to 3, `Set` of up to 2, `count` off by up to 1 | the ring holds together, names stay, `Set` is exact, lookups find the closest and return; the inductive invariants `RingInv` and `LookupInv` |
| `announced_lost`, `proposer_hosts` | the smallest that fails; that of `tree_shape` | the findings below |

*Why the bounds are enough.*  A handler touches two heights, so three blocks have
a height with a call on either side; two nodes have every race between one handler
and its successor, and four have the first quorum that is not empty.  Two requests of one
origin are what it takes for the confirmations of one to run into the next.  The blocks of `order_quorum` and `order_returns` are
the empty ones that `controlSending` sends while the first payload is on its way (`EmptyBlocksNext`): these runs are about calls, quorums and
the channel, `order_pair` about contents.  In `prompt_quorum` the followers differ in nothing but their names, so they store the one payload in the order of
their names (`StoresInTurn`), each as late as it likes or never; TLC's own symmetry is unsound for liveness.  Seven nodes are the least of which one
confirmation is not enough, and a full binary tree of them has inner nodes that return two confirmations
each, before or after the ballot passes; the symmetry is that of the tree.  `dup_tree` starts when everybody is connected
(`ConnectedInit`, a reachable state); start-up, with the connections in any order, is part of `dup_live` and `system`.  `system` has one block, of whose height the calls log and count; the interplay of heights is what
`order_pair` and `order_quorum` are for, and the theorem covers the rest.  Six points on four hashes always collide
somewhere, within an element or between two; that collisions between elements can also be absent takes elements whose points coincide, as in (0,0), (1,1), (2,3).
The hosts of
`tree_shape` end in 1.148 and 2.48, which only the factor 1000 of `GetId` tells apart, and their ports run over a multiple
of 100; the trees of
six peers have a node with one child, two levels and both kinds of hosts.

`CHECK_DEADLOCK FALSE` appears in the runs of `Duplication`, `System` and `TxPool` only: their requests and batches are
finite, and the origin then waits for transactions as the code does.  `Ordering` has an explicit `Finished` step instead, so a
state in which work is left and nothing can move would be reported.

**Fairness.**  In `Ordering` the leader's `Sending`, every handler, reply, failing call and `execute` of a
running process are fair together: some step of them (`Progress`) is taken as long as there is one.  Each happens at most once per
height and follower, so this says no more than that no goroutine with work waits for ever; a mutex that is always released is as good as none for it.
Requests, kills and races are not fair, so the leader may never make its first request and then never sends.  `Duplication` has the same form
of fairness for the same reason.  In `TxPool` only `makeReq` is fair, which is `EveryRequestAnnounced` of `Duplication`:
the call comes again.  In `ConsistentHash` only the rounds of a lookup are fair: a goroutine that waits for nothing.  `EveryBatchCompletes` needs Load <= BatchTxNum,
as in `config-example.json` (27 and 2000).

`OrderingPrompt` adds what the code hopes for and does not enforce: the leader's
pause of 100 ms or more outlasts the round trip of a block, and nodes have dialled each other when they call.  Payloads are as late as in `Ordering`: a request is
announced when `FaultNum` nodes hold it (976), so a block can be due on a node that has not got it.

**Findings.**
- `announced_lost` (server.go:557): the unlocked clear drops requests announced since.
- `proposer_hosts` (config.go:106): the comment has the first `ProposerNum` hosts propose, as the line that is commented out did; the code takes
  the first processes, here two of the first host.

More behaviours of the same kind come out of `Ordering` when the invariants of `prompt_quorum` are
checked without promptness, and are in the hazard list:
- `AnsweredIsQueued` fails (server.go:657): a follower's insertions can overtake each
  other.  When the call of h + 1 has found no log of h, the call of h inserts and answers, and the insertion of h + 1 then replaces that log; the
  follower has answered both calls and never runs the block, nor any later one.
- `CountedIsQueued` fails when the reply that prepares a block comes after those that commit it
  (server.go:593).

A third loss needs no such order and is part of what `prompt_quorum` says: a block that is due before its payload has come is not tried
again (server.go:737), and no later block runs on that node.  `QueuedRunsOrLacksPayload` says that `execute` drops a block for no other reason, and
`Dropped` is the way out in `BlocksRunEverywhere`, which fails without it.

Three more are visible without any assumption.  The leader copies the pool twice, under two holds of its lock (server.go:546), so what it
logs and runs at a height can have requests that the block it sent has not: `LeaderExtendsSentBlocks` says how
far the two can differ.  A clear that is overwritten by an append leaves requests in the pool for a second block.  And `FillUp`
subtracts 0 from the batch that does not fit, because `realBatchTxNum` is raised first (server.go:1098-1099): the next call counts the same transactions again.

## 4. Proofs

All theorems hold for any number of nodes, requests, blocks and kills, from
the assumptions named in the modules: nodes are a finite set that is not empty,
`Leader` is one of them, `Origin` maps requests to nodes, trees lead to peers of their origin.

`OrderingProofs`.  `TypeCorrect` first.  `InvCorrect` proves `OrderingInv`, the
conjunction of one invariant per follower and one for the leader.  Agreement is
not inductive: it must be known which call wrote a log.  `FollowerLogInv` says
that while `Receiving(h + 1)` has not looked log h up, only `Receiving(h)` has
inserted it, so that log is prepared and has the block as sent; and that a queued
height has been passed by both calls, so nobody inserts it again.  What can go
wrong is that `Receiving(h + 1)` replaces log h by an
empty one; the invariant says that such a log is not prepared and so never
queued.  `LeaderInv` says that the leader queues below its newest block, which is the only one
`RecordBlock` replaces.  From these follow `FollowersAgree`, `QueueIsRunnable`, `LogsFrozen`
and `Implementation` (the followers implement `TotalOrder`).  One lemma per kind of step and process (`FollowerFrame`,
`FollowerReceiving`, `LeaderCount`, ...) keeps the case analysis flat; `StepKinds`
sorts the disjuncts of `Next` into these kinds.

`AccountingProofs`.  What happens once needs more than `OrderingInv`, on top of which `AccountInv` (`AccountCorrect`) is
inductive.  It has four parts.  `RunOnceInv`: a height is in one place of
`execCh`, `aheadSet` and the run blocks, and what has run keeps its executed
flag; with it `QueueOnce` covers all the paths that can queue a height.
`CountInv`: the length of a confirmation list is the number of followers whose
call has been counted, and a flag has a full list behind it, so
`QuorumBehindBlocks` can name the followers.  `ExtendInv`: between the leader's
two copies of the pool the pool only grows, hence `LeaderExtends`.  `ReportInv`: a request
of a follower is in its pool, or in one reply, or collected by the leader, never in two of these,
whatever the races with the clear do to the leader's pool; hence `ReportOnce`.  `QueuedRuns`, that `execute` passes a height over only for a missing payload,
needs of `OrderingInv` that the log of a height that is due is prepared and committed (`DueRuns`).

`PromptProofs`.  On a prompt network `PromptInv` (`PromptCorrect`) holds besides.  `InTurnInv`, that calls of
different heights do not overlap, is what promptness gives; from it follows that
each handler finds the log of the height before (`FoundInv`, `AnswersQueue`) and each full list meets a
flag that is set (`QuorumInv`, `CountsQueue`).  `CountsQueue` assumes a follower: with a leader alone no reply is ever counted.

`DuplicationProofs`.  `DupInv` says that what travels exists at its origin
(`SentInv`), that whoever is counted stores the payload (`ConfirmInv`), and that
an origin has at most one request that is not announced, none while it is making
the next (`OneAtATimeInv`).  `DuplicationRefines` maps every step to one of
`ReliableBroadcast` or a stutter: storing is `Store`, a ballot that passes is
`Announce` because votes are a subset of the holders.  `AnnouncedOnceCorrect` follows from the same
invariant.  `EnoughAnnounces` needs `VotesInv`: until a request is announced, a confirmation whose goroutine waits for `duplicateMu` is queued or counted,
one that has been through `verifyBallot` is counted, and what is counted did not suffice.

`SystemProofs`.  `SystemCorrect` proves `SystemInv`, which is `SysInv` (`SystemInvariant`) and `CarriedInv`.  `DupInv` says nothing of the pool, so the steps of the ordering phase keep it; with it goes
`ConnectedInv`, that a node without clients has made no request.  `SystemRefines` takes every step of the composition to one of
`Ordering`: a stop in the duplication phase is `DuplicationFails` because the node holds a payload (`ConfirmInv`) and either a
peer is down or, `ConnectedInv`, it has no request of its own.  It is the theorem that lets the
results of `OrderingProofs`, stated over the abstraction, speak of the whole process.  `CarriedInv` says that pools, replies and blocks hold announced requests only, and
that those are stored by `FaultNum` nodes besides their origin, which `VerifyPasses` establishes and nothing undoes; `BlocksStored` follows.

`TxPoolProofs`.  `PoolInv` (`PoolCorrect`) ties the round of the loop to the batches: what has been passed is used up unless the request is full, and a
loop that has taken nothing yet has a newest batch to come to that is not empty (`LoopInv`).  `OldestFirst` is a part of `PoolInv`.

`ConsistentHashProofs`.  `RingStaysTogether` proves `RingInv` for any elements, hashes and replicas; `MembersKeepPoints` needs the assumption of no collisions, which it states.
`RingKeepsNames` follows from it and from the lemma that the closest of a set of points is unique and stays the closest
in a smaller set that has it.  `SetIsExact` needs `SetInv`: what `Set` has not yet added it has yet to look at.  `LookupsCorrect` proves `LookupInv`: whoever has a point before the one
that the loop looks at next is in the result (`PassedInv`), also when the loop begins a second time around, and
the elements of the result are in the order of their first points (`InOrder`).  It rests on what `search` finds in a list that is
`Sorted`, the list without repetitions whose i-th member has i - 1 below it.  `ClosestReturned` follows: on any ring
`Get`, `GetTwo` and `GetN` return the owner first, and on a healthy one exactly the closest, in order.

`DeploymentProofs`.  `IdsIdentify`: `GetId` gives different processes different ids, if hosts differ in the last two
numbers of their addresses and have at most 100 processes (`DeploymentAssumption`).  This is what lets `Config`
take nodes for a set and `Cardinality(Nodes)` for the number of processes.  The rest follows from
`TreeInv` (`TreeCorrect`).  `PeersInv` says where in `PeerIds` a process has its id,
by the number of processes before it in the file; hence `ProposersKnown`.
`CompleteTree` gives every node its children in closed form: with the nodes numbered in the order
of `treeIp`, node i has those after `Upto(i - 1)` up to `Upto(i)`, so nobody is
below two nodes, and children come later than their parents, so `WorkOnIdleNodes`
follows from `IdleFirst`.  `WalkInv`: the queue of a walk is always a segment of
that order, so a walk finds its node.  `CallsInv`: a node was called exactly if its
parent has forwarded.  `BroadcastReachesAll` takes, of the nodes that were not called when
nothing is under way, the first in that order, whose parent was; this least counterexample stands for an induction along the tree.

Only model-checked: the liveness properties (`CallsReturn`,
`FollowerStopStopsLeader`, `BlocksRunEverywhere`, `EveryRequestAnnounced`,
`PayloadArrives`, `EveryBatchCompletes`, `LookupsReturn`), since fairness is out of
the prover's reach; and that the fold `MakeTree`, which only `MCDuplication` uses, computes the tree of
`BroadcastTree`'s steps, which would need induction over data.  Every
safety invariant and action property of the passing runs is a theorem.

## 5. Not modelled, and why

Prepare and Commit of the earlier protocol (reached by no call), the client,
the local view, statistics and discarded code (dead or measurements); cryptography (checks
always pass, see above); transaction contents and the store they run against
(`kmap` is never filled, so results depend on nothing); start-up I/O, the goroutine that a leaf of the tree leaves behind for ever
(server.go:288), time.  One leader: every shipped configuration has `ProposerNum` 1.

## 6. Plan

Done: `Config`, `ReliableBroadcast`, `Duplication`, `TotalOrder`, `Ordering`,
`OrderingPrompt`, `System`, `Deployment`, `Tree`, `TxPool`, `ConsistentHash`, and the proofs above.  Next, in this order:

1. A theorem that the trees of `BroadcastTree` satisfy what `Duplication` assumes of its constant `Trees`, so that `PayloadArrives` speaks of
   them for every cluster.
2. Two leaders that number their blocks independently, should a configuration ever name them.
