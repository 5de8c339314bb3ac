--------------------------- MODULE MCIntrDispatch ---------------------------
(* IntrDispatch on small instances.                                        *)
EXTENDS IntrDispatch
=============================================================================
