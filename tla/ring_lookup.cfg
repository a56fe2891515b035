CONSTANTS
  Elts = {1, 2, 3}
  NoElt = 0
  Replicas = 2
  HashSpace = 4
  MaxLookup = 3
  MaxSet = 2
  MaxDrift = 1
SPECIFICATION MCRingSpec
INVARIANTS RingInv ReturnsClosest LookupInv
PROPERTIES NamesStay SetReplacesMembers LookupsReturn
