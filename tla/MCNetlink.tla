----------------------------- MODULE MCNetlink -----------------------------
(* Netlink on small instances.                                             *)
EXTENDS Netlink

CONSTANTS g1, g2

MCGroupLists == { << g1 >>, << g2, g1 >> }

(* What MessageFits of NetlinkProofs says, around the limit.               *)
ASSUME SizesAroundLimit ==
    \A n \in (0 .. 100) \cup (9100 .. 9300) :
        /\ DataLen(n) <= n
        /\ HdrLen + TotalSize(DataLen(n)) <= PktLenMax
        /\ HdrLen + TotalSize(n) <= PktLenMax => DataLen(n) = n
=============================================================================
