------------------------------- MODULE MCTree -------------------------------
(* A small instance of BroadcastTree for TLC: two hosts whose addresses differ *)
(* by a carry, one busy host, and ports that pass a multiple of 100.           *)
EXTENDS BroadcastTree

ThreeHosts == << <<10, 1, 1, 148>>, <<10, 1, 2, 48>>, <<10, 1, 148, 45>> >>
ThreeTwoTwo  == <<3, 2, 2>>
=============================================================================
