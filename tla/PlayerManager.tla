--------------------------- MODULE PlayerManager ---------------------------
(***************************************************************************)
(* PlayerManager (PlayerManager.cpp, PlayerManager.h): the table of the    *)
(* players in the room, the master client and the counter that numbers     *)
(* the players.  The module holds the state and one operator per method;   *)
(* the threads that call the methods are in Room.                          *)
(*                                                                         *)
(* A Player object lives as long as the process (nothing deletes it), and  *)
(* there is one per accepted connection, so a connection names its player. *)
(* playerHash maps an actor number to the player that carries that number  *)
(* since CreatePlayer; it is kept here as the set of the mapped players.   *)
(***************************************************************************)
EXTENDS Naturals, FiniteSets

CONSTANTS
  Conn,       \* the client connections, each one accepted at most once
  NoPlayer    \* nullptr

ASSUME ConnAssumption == NoPlayer \notin Conn /\ IsFiniteSet(Conn)

VARIABLES
  playerHash,        \* the players in the table
  masterPlayer,      \* the master client, or NoPlayer
  nextActorNumber,   \* the number the next player gets
  actorNumber,       \* Player::actorNumber, 0 before the player is created
  isMasterClient,    \* Player::isMasterClient
  hMutex             \* the connection whose handler holds hMutex, or NoPlayer

managerVars == <<playerHash, masterPlayer, nextActorNumber, actorNumber,
                 isMasterClient, hMutex>>

ManagerTypeOK ==
  /\ playerHash \in SUBSET Conn
  /\ masterPlayer \in Conn \cup {NoPlayer}
  /\ nextActorNumber \in Nat \ {0}
  /\ actorNumber \in [Conn -> Nat]
  /\ isMasterClient \in [Conn -> BOOLEAN]
  /\ hMutex \in Conn \cup {NoPlayer}

ManagerInit ==
  /\ playerHash = {}
  /\ masterPlayer = NoPlayer
  /\ nextActorNumber = 1
  /\ actorNumber = [c \in Conn |-> 0]
  /\ isMasterClient = [c \in Conn |-> FALSE]
  /\ hMutex = NoPlayer

(* playerHash.find(n): the player the table holds under number n, if any.  *)
Lookup(n) == {p \in playerHash : actorNumber[p] = n}

(* What a loop over the table visits when it skips the entry of c's number.*)
OthersOf(c) == {p \in playerHash : actorNumber[p] # actorNumber[c]}

Lock(c) == hMutex = NoPlayer /\ hMutex' = c

Unlock(c) == hMutex = c /\ hMutex' = NoPlayer

(***************************************************************************)
(* CreatePlayer is two steps, because Reset writes nextActorNumber without *)
(* the mutex: the first reads the counter and inserts the player (insert   *)
(* keeps an entry that is already there), the second does                  *)
(* nextActorNumber++ and unlocks.  The increment's own load may come       *)
(* before such a write, hence the choice.                                  *)
(***************************************************************************)
CreatePlayerInsert(c) ==
  /\ Lock(c)
  /\ actorNumber' = [actorNumber EXCEPT ![c] = nextActorNumber]
  /\ isMasterClient' = [isMasterClient EXCEPT ![c] = (playerHash = {})]
  /\ masterPlayer' = IF playerHash = {} THEN c ELSE masterPlayer
  /\ playerHash' = playerHash \cup {p \in {c} : Lookup(nextActorNumber) = {}}
  /\ UNCHANGED nextActorNumber

CreatePlayerUncounted(c) ==   \* mutant: nextActorNumber++ is forgotten
  /\ Unlock(c)
  /\ UNCHANGED <<playerHash, masterPlayer, nextActorNumber, actorNumber,
                 isMasterClient>>

CreatePlayerNumber(c) ==
  /\ Unlock(c)
  /\ nextActorNumber' \in {nextActorNumber + 1, actorNumber[c] + 1}
  /\ UNCHANGED <<playerHash, masterPlayer, actorNumber, isMasterClient>>

(* RemovePlayer erases whatever the table holds under c's number; when it  *)
(* holds nothing ("Missing actor") it changes nothing.                     *)
RemovePlayer(c) ==
  /\ hMutex = NoPlayer
  /\ playerHash' = playerHash \ Lookup(actorNumber[c])
  /\ UNCHANGED <<masterPlayer, nextActorNumber, actorNumber,
                 isMasterClient, hMutex>>

SetMasterKeepingOld(p) ==   \* mutant: the old master keeps its flag
  /\ hMutex = NoPlayer
  /\ isMasterClient' = [isMasterClient EXCEPT ![p] = TRUE]
  /\ masterPlayer' = p
  /\ UNCHANGED <<playerHash, nextActorNumber, actorNumber, hMutex>>

SetMasterFlagOnly(p) ==   \* mutant: masterPlayer is not assigned
  /\ hMutex = NoPlayer
  /\ isMasterClient' = [q \in Conn |-> \/ q = p
                                       \/ isMasterClient[q] /\ q # masterPlayer]
  /\ UNCHANGED <<playerHash, masterPlayer, nextActorNumber, actorNumber, hMutex>>

SetMasterLocked(p) ==   \* mutant: the mutex is not released
  /\ hMutex = NoPlayer /\ hMutex' = p
  /\ masterPlayer' = p
  /\ UNCHANGED <<playerHash, nextActorNumber, actorNumber, isMasterClient>>

(* SetMasterClient when the table holds newMaster p: the old master loses  *)
(* its flag, then p gets one.  It locks, writes and unlocks in one step.   *)
SetMasterClient(p) ==
  /\ hMutex = NoPlayer
  /\ isMasterClient' = [q \in Conn |-> \/ q = p
                                       \/ isMasterClient[q] /\ q # masterPlayer]
  /\ masterPlayer' = p
  /\ UNCHANGED <<playerHash, nextActorNumber, actorNumber, hMutex>>

(* ChangeMasterClientOnDisconnect up to its broadcast, which it makes with *)
(* the mutex held.  GetFirstPlayer is playerHash.begin(): any player.      *)
ElectFirstPlayer(c, p) ==
  /\ Lock(c)
  /\ p \in playerHash
  /\ masterPlayer' = p
  /\ isMasterClient' = [isMasterClient EXCEPT ![p] = TRUE]
  /\ UNCHANGED <<playerHash, nextActorNumber, actorNumber>>

(* Reset() makes two plain writes and takes no mutex.                      *)
ResetMaster ==
  /\ masterPlayer' = NoPlayer
  /\ UNCHANGED <<playerHash, nextActorNumber, actorNumber,
                 isMasterClient, hMutex>>

ResetNumberToZero ==   \* mutant: numbering starts from 0, the room's own target
  /\ nextActorNumber' = 0
  /\ UNCHANGED <<playerHash, masterPlayer, actorNumber,
                 isMasterClient, hMutex>>

ResetNumber ==
  /\ nextActorNumber' = 1
  /\ UNCHANGED <<playerHash, masterPlayer, actorNumber,
                 isMasterClient, hMutex>>
=============================================================================
