----------------------------- MODULE TotalOrder -----------------------------
(***************************************************************************)
(* What the ordering phase promises to the replicas that execute blocks:   *)
(* there is one sequence of blocks, it only grows at its end, and every    *)
(* replica executes a prefix of it, block after block, skipping none and   *)
(* repeating none.                                                         *)
(***************************************************************************)
EXTENDS Integers, Sequences

CONSTANTS Replicas,  \* the nodes that execute the sequence
          Batches    \* the possible contents of a block

VARIABLES order,     \* the blocks, in the order of their heights
          applied    \* applied[r]: the blocks r has executed, in its order

toVars == <<order, applied>>

TOInit ==
  /\ order = << >>
  /\ applied = [r \in Replicas |-> << >>]

\* Batches may be infinite, so the new block is not quantified over.
Seal ==
  /\ order' \in Seq(Batches)
  /\ Len(order') = Len(order) + 1
  /\ SubSeq(order', 1, Len(order)) = order
  /\ UNCHANGED applied

Apply(r) ==
  /\ Len(applied[r]) < Len(order)
  /\ applied' = [applied EXCEPT ![r] = Append(@, order[Len(@) + 1])]
  /\ UNCHANGED order

TONext == Seal \/ \E r \in Replicas : Apply(r)

TOSpec == TOInit /\ [][TONext]_toVars
=============================================================================
