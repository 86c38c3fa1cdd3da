---------------------------- MODULE MCRequests ----------------------------
(* Requests on small instances.                                            *)
EXTENDS Requests, TLC

Symmetry == Permutations(Conn)
=============================================================================
