CONSTANTS
  n1 = n1
  n2 = n2
  n3 = n3
  n4 = n4
  n5 = n5
  n6 = n6
  n7 = n7
  a = a
  b = b
  Nodes = {n1, n2, n3, n4, n5, n6, n7}
  Reqs = {a}
  Origin <- OriginOne
  Trees <- TwoModes
  MaxKills = 2
CHECK_DEADLOCK FALSE
SPECIFICATION ConnectedSpec
SYMMETRY Automorphisms
INVARIANTS
  DupInv
  EnoughIsAnnounced
PROPERTY ImplementsReliableBroadcast
