CONSTANTS
  PeerIps <- ThreeHosts
  ProcessNumArray <- ThreeTwoTwo
  PortBase = 10098
  ProposerNum = 2
  ChildNum = 2
SPECIFICATION TreeSpec
INVARIANTS
  TreeInv
  EveryNodeOnce
  BusyForwardsToBusy
  OneProcessPerId
  ProposersAgree
