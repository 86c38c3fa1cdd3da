--------------------------- MODULE MCCompletion ---------------------------
(* Completion on small instances.                                          *)
EXTENDS Completion
=============================================================================
