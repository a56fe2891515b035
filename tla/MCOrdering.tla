----------------------------- MODULE MCOrdering -----------------------------
(* Small instances of Ordering for TLC. *)
EXTENDS Ordering

CONSTANTS n1, n2, n3, n4, a, b

\* Who makes which request, for the sets of requests the configurations use.
OriginLeader == (a :> n1)
OriginBoth   == (a :> n1) @@ (b :> n2)

\* The steps of Ordering in which no payload arrives at a follower: the leader makes
\* its first request, and the blocks are the empty ones that it sends meanwhile.
EmptyBlocksNext ==
  \/ \E u \in Reqs : MakeReq(u)
  \/ Progress
  \/ \E n \in Nodes : DuplicationFails(n) \/ ConcurrentMapAccess(n) \/ Kill(n)
  \/ Finished
EmptyBlocksSpec == OrderingInit /\ [][EmptyBlocksNext]_vars
EmptyBlocksFair == EmptyBlocksSpec /\ Fairness

\* Followers that make no request are interchangeable.
Symm234 == Permutations({n2, n3, n4})
=============================================================================
