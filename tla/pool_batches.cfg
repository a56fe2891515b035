CONSTANTS
  Load = 2
  BatchTxNum = 5
  MaxBatches = 7
  MaxReqs = 7
CHECK_DEADLOCK FALSE
SPECIFICATION PoolSpec
INVARIANT PoolInv
PROPERTY EveryBatchCompletes
