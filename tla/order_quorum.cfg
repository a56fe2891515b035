CONSTANTS
  n1 = n1
  n2 = n2
  n3 = n3
  n4 = n4
  a = a
  b = b
  Nodes = {n1, n2, n3, n4}
  Reqs = {a}
  Origin <- OriginLeader
  Leader = n1
  ChanSize = 10000
  MaxHeight = 2
  MaxKills = 0
SPECIFICATION EmptyBlocksSpec
SYMMETRY Symm234
INVARIANTS
  OrderingInv
  ExecutedQuorum
  QueuedOnce
  QueuedBlocksAreRunnable
