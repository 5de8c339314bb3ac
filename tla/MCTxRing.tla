------------------------------ MODULE MCTxRing ------------------------------
(* TxRing on small instances.  Packets and ports are interchangeable.      *)
EXTENDS TxRing, TLC

Symm == Permutations(Packets) \cup Permutations(Ports)
=============================================================================
