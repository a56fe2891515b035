CONSTANTS
  n1 = n1
  n2 = n2
  n3 = n3
  n4 = n4
  a = a
  b = b
  Nodes = {n1, n2, n3}
  Reqs = {a}
  Origin <- OriginLeader
  Leader = n1
  ChanSize = 1
  MaxHeight = 2
  MaxKills = 1
SPECIFICATION EmptyBlocksFair
PROPERTIES
  CallsReturn
  FollowerStopStopsLeader
