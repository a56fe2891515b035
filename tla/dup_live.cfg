CONSTANTS
  n1 = n1
  n2 = n2
  n3 = n3
  n4 = n4
  n5 = n5
  n6 = n6
  n7 = n7
  a = a
  b = b
  Nodes = {n1, n2, n3, n4}
  Reqs = {a, b}
  Origin <- OriginTwice
  Trees <- OneTree
  MaxKills = 0
CHECK_DEADLOCK FALSE
SPECIFICATION FairSpec
INVARIANT AnnouncedOnce
PROPERTIES
  EveryRequestAnnounced
  PayloadArrives
