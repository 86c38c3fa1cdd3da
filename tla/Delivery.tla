------------------------------ MODULE Delivery ------------------------------
(***************************************************************************)
(* What the server promises of the messages of one connection: it takes    *)
(* them up in the order in which they were sent, none twice, none that has *)
(* not come in full, and as long as the connection is intact all that have.*)
(***************************************************************************)
EXTENDS Naturals, Sequences

VARIABLES
  sent,        \* the number of messages sent
  here,        \* those that have come in full
  delivered,   \* those taken up, in order
  intact       \* nothing was lost so far

deliveryVars == <<sent, here, delivered, intact>>

Init == sent = 0 /\ here = {} /\ delivered = <<>> /\ intact = TRUE

Send ==
  /\ sent' = sent + 1
  /\ UNCHANGED <<here, delivered, intact>>

(* Any number of messages come at a time.                                  *)
Deliver ==
  /\ here \subseteq here' /\ here' \subseteq 1 .. sent
  /\ DOMAIN delivered \subseteq DOMAIN delivered'
  /\ \A i \in DOMAIN delivered : delivered'[i] = delivered[i]
  /\ \A i, j \in DOMAIN delivered' : i < j => delivered'[i] < delivered'[j]
  /\ {delivered'[i] : i \in DOMAIN delivered'} \subseteq here'
  /\ intact' => intact /\ here' \subseteq {delivered'[i] : i \in DOMAIN delivered'}
  /\ UNCHANGED sent

Next == Send \/ Deliver

Spec == Init /\ [][Next]_deliveryVars
=============================================================================
