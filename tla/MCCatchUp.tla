----------------------------- MODULE MCCatchUp -----------------------------
(* CatchUp on small instances.                                             *)
EXTENDS CatchUp, TLC

Symmetry == Permutations(Conn) \cup Permutations(View)

(* For liveness, where symmetry is not sound: the connections are alike,   *)
(* so they may as well arrive in one fixed order.                          *)
Place == CHOOSE f \in [Conn -> 1 .. Cardinality(Conn)] :
           \A c, d \in Conn : f[c] = f[d] => c = d

InOrder ==
  \A c, d \in Conn :
    pc[d] # "outside" /\ Place[c] < Place[d] => pc[c] # "outside"

InOrderFairSpec ==
  Init /\ [][Next /\ InOrder']_vars /\ \A c \in Conn : WF_vars(ThreadStep(c))
=============================================================================
