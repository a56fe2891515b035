------------------------------- MODULE TxPool -------------------------------
(***************************************************************************)
(* The transaction pool of a node (zpbft/server.go): pushTxToPool adds a   *)
(* batch every second, makeReq takes up to BatchTxNum transactions from    *)
(* the oldest batches on, one batch per round of its loop.  Both hold      *)
(* txPoolMu, and duplicateMu keeps two calls of makeReq apart.  The        *)
(* numbers are all there is: a request gets generated transactions.        *)
(***************************************************************************)
EXTENDS Integers, SequencesExt

CONSTANTS Load,         \* Load / ProposerNum of the configuration
          BatchTxNum,
          MaxBatches,   \* bound on the calls of pushTxToPool
          MaxReqs       \* bound on the calls of makeReq

ASSUME PoolAssumption == {Load, BatchTxNum, MaxBatches, MaxReqs} \subseteq Nat \ {0}

VARIABLES txPoolBatches,   \* txNum of each batch
          at,              \* the batch that makeReq looks at, 0 when txPoolMu is free
          realBatchTxNum,
          made             \* the number of requests made

poolVars == <<txPoolBatches, at, realBatchTxNum, made>>

\* pushTxToPool starts with the process, makeReq at least two seconds later.
PoolInit ==
  /\ txPoolBatches = <<Load>>
  /\ at = 0 /\ realBatchTxNum = 0
  /\ made = 0

PushTxToPool ==
  /\ at = 0
  /\ Len(txPoolBatches) < MaxBatches
  /\ txPoolBatches' = Append(txPoolBatches, Load)
  /\ UNCHANGED <<at, realBatchTxNum, made>>

-----------------------------------------------------------------------------
(* makeReq.                                                                *)

LoopFrom(i) ==
  /\ at = 0 /\ at' = i
  /\ made < MaxReqs
  /\ realBatchTxNum' = 0
  /\ UNCHANGED <<txPoolBatches, made>>

\* Mutant: the oldest batch is looked at, as if batches were not kept.
StartWhenOldest == LoopFrom(1) /\ Head(txPoolBatches) # 0

\* makeReq polls until the newest batch is not empty, with the lock released
\* in between, and keeps the lock from then on.
StartReq == LoopFrom(1) /\ Last(txPoolBatches) # 0

Looking == at \in 1 .. Len(txPoolBatches)

\* Mutant: what was taken before does not count.
FitsAlone == txPoolBatches[at] <= BatchTxNum

\* The batch does not fill the request beyond BatchTxNum.
Fits == txPoolBatches[at] <= BatchTxNum - realBatchTxNum

\* A batch that fits is used up; one that is empty already changes nothing.
TakeBatch ==
  /\ Looking /\ Fits
  /\ realBatchTxNum' = realBatchTxNum + txPoolBatches[at]
  /\ txPoolBatches' = [txPoolBatches EXCEPT ![at] = 0]
  /\ at' = at + 1
  /\ UNCHANGED made

\* The first that does not ends the loop.  realBatchTxNum is raised before the
\* difference is subtracted from the batch, so the batch loses nothing.
FillUp ==
  /\ Looking /\ ~Fits
  /\ realBatchTxNum' = realBatchTxNum + (BatchTxNum - realBatchTxNum)
  /\ txPoolBatches' = [txPoolBatches EXCEPT ![at] = @ - (BatchTxNum - realBatchTxNum')]
  /\ at' = Len(txPoolBatches) + 1
  /\ UNCHANGED made

\* The lock is released.  What the counters say is thrown away: the request that
\* is built has a generated TxSet and TxNum = BatchTxNum whatever was taken.
FinishReq ==
  /\ at = Len(txPoolBatches) + 1
  /\ made' = made + 1
  /\ at' = 0
  /\ UNCHANGED <<txPoolBatches, realBatchTxNum>>

MakeReq == StartReq \/ TakeBatch \/ FillUp \/ FinishReq

PoolNext == PushTxToPool \/ MakeReq
PoolSpec == PoolInit /\ [][PoolNext]_poolVars /\ WF_poolVars(MakeReq)

-----------------------------------------------------------------------------
\* A batch is touched only when the older ones are used up.
CompletedInOrder ==
  \A i \in 1 .. Len(txPoolBatches) : \A j \in 1 .. i - 1 :
    txPoolBatches[i] # Load => txPoolBatches[j] = 0

PoolTypeOK ==
  /\ txPoolBatches \in Seq({0, Load}) /\ txPoolBatches # << >>
  /\ at \in 0 .. Len(txPoolBatches) + 1
  /\ realBatchTxNum \in 0 .. BatchTxNum
  /\ made \in Nat

\* The loop has used up what it has passed, unless the request is full, and comes
\* to the end with something: the newest batch was not empty when it began.
LoopInv ==
  at # 0 =>
    /\ \/ \A j \in 1 .. at - 1 : txPoolBatches[j] = 0
       \/ at = Len(txPoolBatches) + 1 /\ realBatchTxNum = BatchTxNum
    /\ \/ realBatchTxNum > 0
       \/ at <= Len(txPoolBatches) /\ Last(txPoolBatches) # 0

\* The inductive invariant of the pool: batches are whole or used up, oldest first,
\* before, between and after the rounds of makeReq's loop.
PoolInv == PoolTypeOK /\ LoopInv /\ CompletedInOrder

\* When a batch fits into a request, every batch is completed in the end.
EveryBatchCompletes ==
  \A i \in 1 .. MaxBatches :
    Len(txPoolBatches) >= i ~> Len(txPoolBatches) >= i /\ txPoolBatches[i] = 0
=============================================================================
