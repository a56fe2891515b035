CONSTANTS
  n1 = n1
  n2 = n2
  n3 = n3
  n4 = n4
  a = a
  b = b
  Nodes = {n1, n2}
  Reqs = {a, b}
  Origin <- OriginBoth
  Leader = n1
  ChanSize = 10000
  MaxHeight = 3
  MaxKills = 0
SPECIFICATION Spec
INVARIANTS
  FollowersExecuteSentBlocks
  LeaderExtendsSentBlocks
  ReportedOnce
  AccountInv
PROPERTIES
  QueuedLogFrozen
  ImplementsTotalOrder
