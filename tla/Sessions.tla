------------------------------ MODULE Sessions ------------------------------
(***************************************************************************)
(* What the server promises of the life of a connection: it is joined,     *)
(* then listened to and served in turn, never both at a time, and when it  *)
(* is given up its data are freed, once, before its player is taken from   *)
(* the room.  Nothing that happens to one connection touches another, with *)
(* one exception: once a player has been mixed up with another, and so has *)
(* not come into the room, a removal may take out others.                  *)
(***************************************************************************)
CONSTANT Conn

VARIABLES
  stage,     \* how far each connection is
  alive,     \* those whose data are allocated
  players,   \* those in the room
  mixed      \* a player was mixed up with another

sessionVars == <<stage, alive, players, mixed>>

Init ==
  /\ stage = [c \in Conn |-> "absent"]
  /\ alive = {}
  /\ players = {}
  /\ mixed = FALSE

Move(c, from, to) == stage[c] \in from /\ stage' = [stage EXCEPT ![c] = to]

(* One at a time.                                                          *)
Join(c) ==
  /\ Move(c, {"absent"}, "joining")
  /\ \A d \in Conn : stage[d] # "joining"
  /\ alive' = alive \cup {c}
  /\ \/ players' = players \cup {c} /\ mixed' \in {mixed, TRUE}
     \/ players' = players /\ mixed' = TRUE

Listen(c) ==
  /\ Move(c, {"joining", "serving"}, "listening")
  /\ UNCHANGED <<alive, players, mixed>>

(* The first receive fails: nobody will ever listen.                       *)
Deafen(c) ==
  Move(c, {"joining"}, "deaf") /\ UNCHANGED <<alive, players, mixed>>

Serve(c) ==
  Move(c, {"listening"}, "serving") /\ UNCHANGED <<alive, players, mixed>>

GiveUp(c) ==
  /\ Move(c, {"listening", "serving"}, "freeing")
  /\ UNCHANGED <<alive, players, mixed>>

Free(c) ==
  /\ c \in alive
  /\ Move(c, {"freeing"}, "removing")
  /\ alive' = alive \ {c}
  /\ UNCHANGED <<players, mixed>>

(* The player is out of the room afterwards.                               *)
Remove(c) ==
  /\ Move(c, {"removing"}, "gone")
  /\ players' \subseteq players \ {c}
  /\ ~mixed => c \in players /\ players' = players \ {c}
  /\ UNCHANGED <<alive, mixed>>

(* The process ends, and every connection with it.                         *)
Crash ==
  /\ stage' = [c \in Conn |-> "over"]
  /\ UNCHANGED <<alive, players, mixed>>

(* A step either takes one connection on or ends them all.                 *)
Next ==
  \/ \E c \in Conn : /\ stage'[c] # stage[c]
                     /\ \/ Join(c) \/ Listen(c) \/ Deafen(c) \/ Serve(c)
                        \/ GiveUp(c) \/ Free(c) \/ Remove(c)
  \/ Crash

Spec == Init /\ [][Next]_sessionVars
=============================================================================
