-------------------------- MODULE BufferedMessages --------------------------
(***************************************************************************)
(* BufferedMessages (BufferedMessages.cpp, BufferedMessages.h): the RPC    *)
(* and Instantiate messages kept for the players who join later.           *)
(*                                                                         *)
(* The list is only ever appended to at its end, so it is kept as the set  *)
(* of its messages, and a message's id gives its place: the list is in the *)
(* order of the ids.  A message's player is a connection here; the code    *)
(* keeps the number of its player, which another may be given later.       *)
(***************************************************************************)
EXTENDS Naturals, FiniteSets

CONSTANTS
  Conn,        \* the client connections, one player each
  NoPlayer,    \* no connection
  View,        \* the view ids
  PackLimit    \* BUFFER - 10, in messages: all have the same length here

ASSUME BufferAssumption ==
  /\ NoPlayer \notin Conn
  /\ PackLimit \in Nat

Message == [player : Conn, view : View, id : Nat]

VARIABLES
  actorNumber,    \* Player::actorNumber, 0 before the connection has a player
  messageQueue,   \* the buffered messages
  hMutex,         \* the connection whose handler holds hMutex, or NoPlayer
  nextId          \* the id of the next message

bufferVars == <<messageQueue, hMutex, nextId>>

BufferTypeOK ==
  /\ messageQueue \in SUBSET Message
  /\ hMutex \in Conn \cup {NoPlayer}
  /\ nextId \in Nat

BufferInit ==
  /\ messageQueue = {}
  /\ hMutex = NoPlayer
  /\ nextId = 0

EnqueueLocked(m) ==   \* mutant: the mutex is not released
  /\ hMutex = NoPlayer /\ hMutex' = m.player
  /\ messageQueue' = messageQueue \cup {m}
  /\ nextId' = nextId + 1

EnqueueMessage(m) ==
  /\ hMutex = NoPlayer
  /\ messageQueue' = messageQueue \cup {m}
  /\ nextId' = nextId + 1
  /\ UNCHANGED hMutex

(* RPC::playerActorNr.                                                     *)
playerActorNr(m) == actorNumber[m.player]

(* The removals: each walks the whole list under the mutex.                *)
Keep(kept) ==
  /\ hMutex = NoPlayer
  /\ messageQueue' = kept
  /\ UNCHANGED <<hMutex, nextId>>

RemoveOtherPlayers(n) ==   \* mutant: the comparison is inverted
  Keep({m \in messageQueue : playerActorNr(m) = n})

RemoveFirstOf(n) ==   \* mutant: the walk stops after the first erase
  LET found == {m \in messageQueue : playerActorNr(m) = n}
  IN  Keep({m \in messageQueue :
              m \in found => \E k \in found : k.id < m.id})

RemovePlayerNr(n) == Keep({m \in messageQueue : playerActorNr(m) # n})

RemoveViewID(v) == Keep({m \in messageQueue : m.view # v})

RemoveRPC(n, v) ==
  Keep({m \in messageQueue : ~(m.view = v /\ playerActorNr(m) = n)})

RemoveAll == Keep({})

(***************************************************************************)
(* SendBufferedMessages locks, joins messages from the front of the list   *)
(* to one text and sends it.  Its inner loop ends only at the end of the   *)
(* list, and goes on to the next message only while the text stays below   *)
(* the limit: either the whole list goes out as one text, or the loop      *)
(* never ends.                                                             *)
(***************************************************************************)
LockQueue(c) ==
  /\ hMutex = NoPlayer
  /\ hMutex' = c
  /\ UNCHANGED <<messageQueue, nextId>>

Packs == Cardinality(messageQueue) <= 1 \/ Cardinality(messageQueue) < PackLimit

UnlockNever(c) ==   \* mutant: the mutex is not released
  hMutex = c /\ UNCHANGED bufferVars

UnlockQueue(c) ==
  /\ hMutex = c
  /\ hMutex' = NoPlayer
  /\ UNCHANGED <<messageQueue, nextId>>
=============================================================================
