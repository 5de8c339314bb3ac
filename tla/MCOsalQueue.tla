---------------------------- MODULE MCOsalQueue ----------------------------
(* OsalQueue on small instances: one producer and one consumer (spsc), two *)
(* producers (the Tx queue), two consumers (an Rx queue and its flush).    *)
EXTENDS OsalQueue, TLC

Symm == Permutations(Items) \cup Permutations(Producers)
          \cup Permutations(Consumers)
=============================================================================
