------------------------------- MODULE MCMdc -------------------------------
(* Mdc on small instances.                                                 *)
EXTENDS Mdc
=============================================================================
