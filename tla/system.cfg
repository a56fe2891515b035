CONSTANTS
  n1 = n1
  n2 = n2
  n3 = n3
  n4 = n4
  a = a
  Nodes = {n1, n2, n3, n4}
  Reqs = {a}
  Origin <- OriginLeader
  Trees <- Floods
  Leader = n1
  ChanSize = 10000
  MaxHeight = 1
  MaxKills = 1
CHECK_DEADLOCK FALSE
SPECIFICATION SysSpec
SYMMETRY Symm
INVARIANTS
  SystemInv
  BlocksAreStored
PROPERTY ImplementsOrdering
