-------------------------------- MODULE MCRing --------------------------------
(***************************************************************************)
(* ConsistentHash with the elements numbered.  Neither the numbers of the  *)
(* elements nor those of an element's points make a difference: hashes     *)
(* are tried in one order only.                                            *)
(***************************************************************************)
EXTENDS ConsistentHash

MCRingInit ==
  /\ RingInit
  /\ \A e \in Elts : \A i \in 1 .. Replicas - 1 : hash[e][i - 1] <= hash[e][i]
  /\ \A d, e \in Elts : d < e => hash[d][0] <= hash[e][0]

MCRingSpec == MCRingInit /\ [][Next]_vars /\ Fairness
=============================================================================
