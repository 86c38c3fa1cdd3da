------------------------------- MODULE MCRoom -------------------------------
(* Room on small instances.                                                *)
EXTENDS Room, TLC

Symmetry == Permutations(Conn)
=============================================================================
