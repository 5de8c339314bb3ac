------------------------------ MODULE MCRxRing ------------------------------
(* RxRing on small instances.                                              *)
EXTENDS RxRing
=============================================================================
