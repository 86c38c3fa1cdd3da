------------------------------ MODULE RoomLog ------------------------------
(***************************************************************************)
(* What the server promises of the messages it buffers and relays: the     *)
(* room has one log.  A player is let in with the whole of the log in hand *)
(* and a message counts as published only once everybody who is in has it. *)
(* m.player is the player who has sent m.  The promise ends when the log   *)
(* is lost: thrown away too early, or a player let into the room who will  *)
(* be taken for another.                                                   *)
(***************************************************************************)
CONSTANT Conn   \* the client connections, one player each

VARIABLES
  present,     \* the players in the room
  let,         \* those of them who have been let in
  log,         \* the messages in the log
  got,         \* the messages that each player has been sent
  published,   \* the messages that everybody has been sent
  removed,     \* those that somebody asked to be removed
  lost         \* the log promises nothing any more

logVars == <<present, let, log, got, published, removed, lost>>

Init ==
  /\ present = {} /\ let = {} /\ log = {}
  /\ got = [c \in Conn |-> {}]
  /\ published = {} /\ removed = {} /\ lost = FALSE

Enter(c) ==
  /\ c \notin present
  /\ present' = present \cup {c}
  /\ lost' \in {lost, TRUE}
  /\ UNCHANGED <<let, log, got, published, removed>>

LetIn(c) ==
  /\ c \in present \ let
  /\ let' = let \cup {c}
  /\ got' = [got EXCEPT ![c] = @ \cup log]
  /\ UNCHANGED <<present, log, published, removed, lost>>

Say(c) ==
  /\ c \in let
  /\ log \subseteq log'
  /\ \A m \in log' \ log : m.player = c
  /\ UNCHANGED <<present, let, got, published, removed, lost>>

(* Somebody else's messages.                                               *)
Relay(c) ==
  /\ got[c] \subseteq got'[c]
  /\ got' = [got EXCEPT ![c] = got'[c]]
  /\ \A m \in got'[c] \ got[c] : m.player # c
  /\ UNCHANGED <<present, let, log, published, removed, lost>>

(* What stays in the log is had by everybody who is in.                    *)
Publish(c) ==
  /\ c \in let
  /\ published \subseteq published'
  /\ \A m \in published' \ published :
       /\ m.player = c
       /\ m \notin removed /\ ~lost =>
            m \in log /\ \A r \in let \ {c} : m \in got[r]
  /\ UNCHANGED <<present, let, log, got, removed, lost>>

Retract ==
  /\ log' \subseteq log
  /\ removed' = removed \cup (log \ log')
  /\ UNCHANGED <<present, let, got, published, lost>>

Leave(c) ==
  /\ c \in let
  /\ present' = present \ {c}
  /\ let' = let \ {c}
  /\ UNCHANGED <<log, got, published, removed, lost>>

(* The log has no use for what those who have left said.                   *)
Forget(c) ==
  /\ c \notin present
  /\ log' \subseteq {m \in log : m.player # c}
  /\ ~lost => \A m \in log \ log' : m.player \notin present
  /\ UNCHANGED <<present, let, got, published, removed, lost>>

ThrowAway ==
  /\ log' = {}
  /\ lost' = (lost \/ present # {})
  /\ UNCHANGED <<present, let, got, published, removed>>

Next ==
  \/ \E c \in Conn :
       \/ Enter(c) \/ LetIn(c) \/ Leave(c) \/ Forget(c)
       \/ Say(c) \/ Relay(c) \/ Publish(c)
  \/ Retract
  \/ ThrowAway

Spec == Init /\ [][Next]_logVars
=============================================================================
