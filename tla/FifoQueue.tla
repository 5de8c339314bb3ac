----------------------------- MODULE FifoQueue -----------------------------
(***************************************************************************)
(* What the packet driver expects of its software queues: a bounded FIFO   *)
(* whose operations take effect at one instant each.                       *)
(***************************************************************************)
EXTENDS Naturals, Sequences

CONSTANTS Items, Capacity

VARIABLE items

FifoInit == items = << >>

Put(x) == /\ Len(items) < Capacity
          /\ items' = Append(items, x)

Get == /\ items # << >>
       /\ items' = Tail(items)

FifoNext == Get \/ \E x \in Items : Put(x)

FifoSpec == FifoInit /\ [][FifoNext]_items
=============================================================================
