--------------------------- MODULE MCProperties ---------------------------
(* Properties on small instances.                                          *)
EXTENDS Properties, TLC

Symmetry == Permutations(Conn \ Table) \cup Permutations(Key)

(* Another state the server comes to: two have come and gone, one of them  *)
(* not among Conn, and both have found the room empty; that one has reset  *)
(* it and c has still to.  The next player can then be given a number that *)
(* is given once more.                                                     *)
SecondReset(c) ==
  EmptyRoom([d \in Conn |-> IF d = c THEN "wiping" ELSE "outside"],
            [d \in Conn |-> IF d = c THEN 2 ELSE 0])

VisitedInit == Init \/ \E c \in Conn \ Table : SecondReset(c)

VisitedSpec == VisitedInit /\ [][Next]_vars
=============================================================================
