----------------------------- MODULE TxPoolProofs -----------------------------
(***************************************************************************)
(* The counters of the pool stay within their limits, and batches are used *)
(* up oldest first, for any load, limit, number of batches and of requests.*)
(***************************************************************************)
EXTENDS TxPool, TLAPS

LEMMA PoolInitInv == PoolInit => PoolInv
BY PoolAssumption DEF PoolInit, PoolInv, PoolTypeOK, LoopInv, CompletedInOrder

\* pushTxToPool adds a batch that nobody has touched after all others.
LEMMA PushKeepsInv ==
  ASSUME PoolInv, PushTxToPool
  PROVE  PoolInv'
<1> USE PoolAssumption DEF PoolInv, PoolTypeOK, LoopInv
<1>1. /\ at = 0 /\ txPoolBatches' = Append(txPoolBatches, Load)
      /\ UNCHANGED <<at, realBatchTxNum, made>>
  BY DEF PushTxToPool
<1>2. /\ txPoolBatches' \in Seq({0, Load})
      /\ Len(txPoolBatches') = Len(txPoolBatches) + 1
      /\ \A i \in 1 .. Len(txPoolBatches) : txPoolBatches'[i] = txPoolBatches[i]
      /\ txPoolBatches'[Len(txPoolBatches) + 1] = Load
  BY <1>1
<1>3. PoolTypeOK' /\ LoopInv'
  BY <1>1, <1>2
<1>4. CompletedInOrder'
  <2> SUFFICES ASSUME NEW i \in 1 .. Len(txPoolBatches) + 1, NEW j \in 1 .. i - 1,
                      txPoolBatches'[i] # Load
               PROVE  txPoolBatches'[j] = 0
    BY <1>2 DEF CompletedInOrder
  <2>1. i # Len(txPoolBatches) + 1 /\ Len(txPoolBatches) \in Nat
    BY <1>2
  <2>2. i \in 1 .. Len(txPoolBatches) /\ j \in 1 .. Len(txPoolBatches)
    BY <2>1
  <2> QED
    BY <1>2, <2>2 DEF CompletedInOrder
<1> QED
  BY <1>3, <1>4

\* The loop begins when the newest batch has something to give.
LEMMA StartKeepsInv ==
  ASSUME PoolInv, StartReq
  PROVE  PoolInv'
BY PoolAssumption DEF PoolInv, PoolTypeOK, LoopInv, StartReq, LoopFrom, Last,
                      CompletedInOrder

\* A round that uses a batch up: the batches before it are used up already.
LEMMA TakeKeepsInv ==
  ASSUME PoolInv, TakeBatch
  PROVE  PoolInv'
<1> USE PoolAssumption DEF PoolInv, PoolTypeOK
<1>1. /\ at \in 1 .. Len(txPoolBatches) /\ at' = at + 1
      /\ txPoolBatches[at] \in {0, Load}
      /\ txPoolBatches[at] <= BatchTxNum - realBatchTxNum
      /\ realBatchTxNum' = realBatchTxNum + txPoolBatches[at]
      /\ UNCHANGED made
  BY DEF TakeBatch, Looking, Fits
<1>2. /\ txPoolBatches' = [txPoolBatches EXCEPT ![at] = 0]
      /\ txPoolBatches' \in Seq({0, Load})
      /\ Len(txPoolBatches') = Len(txPoolBatches)
      /\ txPoolBatches'[at] = 0
      /\ \A i \in 1 .. Len(txPoolBatches) \ {at} : txPoolBatches'[i] = txPoolBatches[i]
  BY <1>1 DEF TakeBatch
<1>3. \A j \in 1 .. at - 1 : txPoolBatches[j] = 0
  BY <1>1 DEF LoopInv
<1>4. PoolTypeOK'
  BY <1>1, <1>2
<1>5. CompletedInOrder'
  BY <1>1, <1>2, <1>3 DEF CompletedInOrder
<1>6. LoopInv'
  <2>1. \A j \in 1 .. at' - 1 : txPoolBatches'[j] = 0
    BY <1>1, <1>2, <1>3
  <2>2. CASE at = Len(txPoolBatches)
    <3>1. realBatchTxNum > 0 \/ txPoolBatches[at] # 0
      BY <1>1, <2>2 DEF LoopInv, Last
    <3> QED
      BY <1>1, <2>1, <3>1 DEF LoopInv
  <2>3. CASE at < Len(txPoolBatches)
    <3>1. Len(txPoolBatches) \in 1 .. Len(txPoolBatches) \ {at}
      BY <2>3
    <3>2. txPoolBatches'[Len(txPoolBatches')] = txPoolBatches[Len(txPoolBatches)]
      BY <1>2, <3>1
    <3> QED
      <4>1. at # 0 /\ at' <= Len(txPoolBatches')
        BY <1>1, <1>2, <2>3
      <4>2. realBatchTxNum > 0 \/ txPoolBatches[Len(txPoolBatches)] # 0
        BY <4>1 DEF LoopInv, Last
      <4>3. realBatchTxNum > 0 => realBatchTxNum' > 0
        BY <1>1
      <4> QED
        BY <2>1, <3>2, <4>1, <4>2, <4>3 DEF LoopInv, Last
  <2> QED
    BY <1>1, <2>2, <2>3
<1> QED
  BY <1>4, <1>5, <1>6

\* The round that fills the request up leaves the batch as it was.
LEMMA FillKeepsInv ==
  ASSUME PoolInv, FillUp
  PROVE  PoolInv'
<1> USE PoolAssumption DEF PoolInv, PoolTypeOK
<1>1. /\ at \in 1 .. Len(txPoolBatches) /\ at' = Len(txPoolBatches) + 1
      /\ realBatchTxNum' = BatchTxNum
      /\ UNCHANGED made
  BY DEF FillUp, Looking
<1>2. txPoolBatches' = txPoolBatches
  <2>1. txPoolBatches[at] - (BatchTxNum - realBatchTxNum') = txPoolBatches[at]
    <3>1. txPoolBatches[at] \in {0, Load} /\ {0, Load} \subseteq Int /\ BatchTxNum \in Int
      BY <1>1
    <3> QED
      BY <1>1, <3>1
  <2> QED
    BY <1>1, <2>1 DEF FillUp
<1> QED
  BY <1>1, <1>2 DEF LoopInv, CompletedInOrder

\* The lock is free again.
LEMMA FinishKeepsInv ==
  ASSUME PoolInv, FinishReq
  PROVE  PoolInv'
<1> USE PoolAssumption DEF PoolInv, PoolTypeOK
<1>1. /\ at = Len(txPoolBatches) + 1 /\ at' = 0
      /\ made' = made + 1
      /\ UNCHANGED <<txPoolBatches, realBatchTxNum>>
  BY DEF FinishReq
<1> QED
  BY <1>1 DEF LoopInv, CompletedInOrder

LEMMA PoolNextInv == PoolInv /\ [PoolNext]_poolVars => PoolInv'
<1> SUFFICES ASSUME PoolInv, [PoolNext]_poolVars
             PROVE  PoolInv'
  OBVIOUS
<1>1. CASE PoolNext
  BY <1>1, PushKeepsInv, StartKeepsInv, TakeKeepsInv, FillKeepsInv, FinishKeepsInv
     DEF PoolNext, MakeReq
<1>2. CASE UNCHANGED poolVars
  BY <1>2 DEF poolVars, PoolInv, PoolTypeOK, LoopInv, CompletedInOrder
<1> QED
  BY <1>1, <1>2

\* Between and after the rounds of makeReq's loop, batches are whole or used up,
\* oldest first, and what the loop has passed is used up or the request is full.
THEOREM PoolCorrect == PoolSpec => []PoolInv
BY PoolInitInv, PoolNextInv, PTL DEF PoolSpec

\* makeReq uses a batch only when every older one is used up.
THEOREM OldestFirst == PoolSpec => []CompletedInOrder
<1>1. PoolInv => CompletedInOrder
  BY DEF PoolInv
<1> QED
  BY <1>1, PoolCorrect, PTL
=============================================================================
