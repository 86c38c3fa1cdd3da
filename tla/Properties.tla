---------------------------- MODULE Properties ----------------------------
(***************************************************************************)
(* How the server's and the clients' copies of the properties stay alike:  *)
(* Handle_PropertyRequest and the broadcast that follows it, against the   *)
(* room information of a join (HandlePlayerJoin, EncodePlayersToNetwork)   *)
(* and the clearing of the room's table when it empties (ResetServer).     *)
(*                                                                         *)
(* Each connection has one handler at a time.  A player's table bears its  *)
(* connection's name; Table is the room's and those players' whose tables  *)
(* are followed.  A message names a player by number, and the server looks *)
(* the number up when it sets the property.  A client that sets a property *)
(* has it set already; its number is left out of the broadcast.            *)
(***************************************************************************)
EXTENDS HashTable

CONSTANTS
  Conn,         \* the client connections
  Room,         \* the room's table: IOCP_Server::customProperty
  NoWalk,       \* no table is being walked
  MaxUpdates    \* bound: SetHash messages in a behaviour

ASSUME PropertiesAssumption ==
  /\ Room \in Table
  /\ Table \subseteq Conn \cup {Room}
  /\ Room \notin Conn
  /\ NoWalk \notin Walk
  /\ MaxUpdates \in Nat

VARIABLES
  up,            \* FALSE once the process has crashed
  pc,            \* where the handler of each connection is
  playerHash,    \* the players in the table, each under its number
  actorNumber,   \* Player::actorNumber, by connection; 0 before it joins
  nextActorNumber, \* PlayerManager::nextActorNumber
  isConnected,   \* Player::isConnected
  tables,        \* the tables the room information has still to take in
  walk,          \* the walk over one of them
  info,          \* the properties in the room information so far
  view,          \* what was last sent to, or received from, each client
  packet,        \* the SetHash message being handled
  todo,          \* the players its broadcast has still to reach
  updates,       \* SetHash messages so far
  contested,     \* history: what two overlapping messages have set
  raced,         \* history: what was set while somebody was joining
  wiped          \* history: the room was reset with somebody in it

numberVars == <<playerHash, actorNumber, nextActorNumber>>
joinVars == <<isConnected, tables, walk, info>>
packetVars == <<packet, todo, updates>>
historyVars == <<contested, raced, wiped>>
vars == <<customProperty, up, pc, view, numberVars, joinVars, packetVars,
          historyVars>>

Slot == Table \X Key
Packet == [table : Table, keys : SUBSET Key, left : SUBSET Key, value : Nat]
NoPacket == [table |-> Room, keys |-> {}, left |-> {}, value |-> Unset]
NoProperties == [t \in Table |-> [k \in Key |-> Unset]]

(* The player found under a number, if there is one.                       *)
Lookup(n) == {c \in playerHash : actorNumber[c] = n}

(* The other players, for a loop over the table that leaves a number out.  *)
OthersOf(c) == {r \in playerHash : actorNumber[r] # actorNumber[c]}

(* The tables of the room and of the players in it.                        *)
Held == Table \cap ({Room} \cup playerHash)

(* The table that a message about t is found to be about.                  *)
Found(t) == IF t = Room THEN {Room} ELSE Lookup(actorNumber[t])

(* Who has joined and has not begun to leave.                              *)
Members == {c \in Conn : pc[c] \in {"encoding", "sent", "reading", "setting",
                                    "broadcasting"}}
Joining == {c \in Conn : pc[c] \in {"encoding", "sent"}}
Closing == {c \in Conn : pc[c] \in {"counting", "wiping"}}
Steps == {"outside", "encoding", "sent", "reading", "setting", "broadcasting",
          "counting", "wiping", "renumbering", "gone"}

(* An empty room, and where its visitors so far are.                       *)
EmptyRoom(at, number) ==
  /\ TableInit
  /\ up = TRUE
  /\ pc = at
  /\ playerHash = {}
  /\ actorNumber = number
  /\ nextActorNumber = 1
  /\ isConnected = [c \in Conn |-> FALSE]
  /\ tables = [c \in Conn |-> {}]
  /\ walk = [c \in Conn |-> NoWalk]
  /\ info = [c \in Conn |-> NoProperties]
  /\ view = [c \in Conn |-> NoProperties]
  /\ packet = [c \in Conn |-> NoPacket]
  /\ todo = [c \in Conn |-> {}]
  /\ updates = 0
  /\ contested = {}
  /\ raced = {}
  /\ wiped = FALSE

Init == EmptyRoom([c \in Conn |-> "outside"], [c \in Conn |-> 0])

Goto(c, from, to) == pc[c] = from /\ pc' = [pc EXCEPT ![c] = to]

---------------------------------------------------------------------------
(* The accept thread: HandlePlayerJoin.                                    *)

(* A player whose number somebody has is not put into the table.           *)
TakeNumber(c) ==
  /\ actorNumber' = [actorNumber EXCEPT ![c] = nextActorNumber]
  /\ nextActorNumber' = nextActorNumber + 1
  /\ playerHash' = playerHash \cup {d \in {c} : Lookup(nextActorNumber) = {}}

(* The joiner's own table, and those of all but the joiner's number.       *)
TablesFor(c) == Table \cap ({Room, c} \cup OthersOf(c))

ConnectAtOnce(c) ==   \* mutant: a new player counts as connected
  /\ Goto(c, "outside", "encoding")
  /\ Joining = {}
  /\ TakeNumber(c)
  /\ isConnected' = [isConnected EXCEPT ![c] = TRUE]
  /\ tables' = [tables EXCEPT ![c] = TablesFor(c)']
  /\ UNCHANGED <<customProperty, view, walk, info, packetVars, historyVars>>

(* CreatePlayer.  A broadcast under way may or may not come to the player, *)
(* if it is in the table and not of the sender's number.                   *)
CreatePlayer(c) ==
  /\ Goto(c, "outside", "encoding")
  /\ Joining = {}
  /\ TakeNumber(c)
  /\ tables' = [tables EXCEPT ![c] = TablesFor(c)']
  /\ \E seen \in SUBSET {w \in Conn : todo[w] # {} /\ c \in OthersOf(w)'} :
       todo' = [w \in Conn |-> IF w \in seen THEN todo[w] \cup {c}
                                             ELSE todo[w]]
  /\ UNCHANGED <<customProperty, view, isConnected, walk, info, packet,
                 updates, historyVars>>

(* EncodeToNetwork of the room's table, then of each player's.             *)
EncodeTable(c, t) ==
  /\ pc[c] = "encoding" /\ walk[c] = NoWalk
  /\ t \in tables[c]
  /\ Room \in tables[c] => t = Room
  /\ tables' = [tables EXCEPT ![c] = @ \ {t}]
  /\ walk' = [walk EXCEPT ![c] = BeginWalk(t)]
  /\ UNCHANGED <<customProperty, pc, numberVars, view, isConnected, info,
                 packetVars, historyVars>>

EncodeEntry(c, k) ==
  /\ walk[c] # NoWalk /\ Visits(walk[c], k)
  /\ walk' = [walk EXCEPT ![c].seen = @ \cup {k}]
  /\ LET t == walk[c].table IN
       info' = [info EXCEPT ![c][t][k] = customProperty[t][k]]
  /\ UNCHANGED <<customProperty, pc, numberVars, view, isConnected, tables,
                 packetVars, historyVars>>

(* The loop is over, or goes on as if it were when the entry it is at has  *)
(* been cleared.                                                           *)
EndTable(c) ==
  /\ walk[c] # NoWalk
  /\ WalkEnds(walk[c]) \/ WalkBroken(walk[c])
  /\ walk' = [walk EXCEPT ![c] = NoWalk]
  /\ UNCHANGED <<customProperty, pc, numberVars, view, isConnected, tables,
                 info, packetVars, historyVars>>

SendInfo(c) ==
  /\ walk[c] = NoWalk /\ tables[c] = {}
  /\ Goto(c, "encoding", "sent")
  /\ view' = [view EXCEPT ![c] = info[c]]
  /\ info' = [info EXCEPT ![c] = NoProperties]
  /\ UNCHANGED <<customProperty, numberVars, isConnected, tables, walk,
                 packetVars, historyVars>>

(* SendBufferedMessages sets isConnected; the join comes to its end.       *)
MarkConnected(c) ==
  /\ Goto(c, "sent", "reading")
  /\ isConnected' = [isConnected EXCEPT ![c] = TRUE]
  /\ UNCHANGED <<customProperty, numberVars, view, tables, walk, info,
                 packetVars, historyVars>>

---------------------------------------------------------------------------
(* The workers: a SetHash message.                                         *)

(* It names the room, a player in the table or its own number, and a key   *)
(* or more.                                                                *)
ReceiveSetHash(c, t, keys) ==
  /\ updates < MaxUpdates
  /\ Goto(c, "reading", "setting")
  /\ t \in Held \cup {c}
  /\ keys # {}
  /\ updates' = updates + 1
  /\ packet' = [packet EXCEPT ![c] = [table |-> t, keys |-> keys,
                                      left |-> keys, value |-> updates']]
  /\ view' = [view EXCEPT ![c][t] =
                [k \in Key |-> IF k \in keys THEN updates' ELSE @[k]]]
  /\ contested' = contested \cup {s \in {t} \X keys :
                    \E d \in Conn : s \in {packet[d].table} \X packet[d].keys}
  /\ UNCHANGED <<customProperty, numberVars, joinVars, todo, raced, wiped>>

(* One turn of Handle_PropertyRequest's loop.                              *)
SetHash(c, k) ==
  /\ pc[c] = "setting" /\ k \in packet[c].left
  /\ \E t \in Found(packet[c].table) :
       /\ \/ t \in Table /\ SetProperty(t, k, packet[c].value)
          \/ t \notin Table /\ UNCHANGED customProperty
       /\ raced' = raced \cup {s \in {<<t, k>>} : t \in Table /\ Joining # {}}
  /\ packet' = [packet EXCEPT ![c].left = @ \ {k}]
  /\ UNCHANGED <<pc, view, numberVars, joinVars, todo, updates, contested,
                 wiped>>

(* The player has left: operator[] yields a null Player.                   *)
SetForMissing(c) ==
  /\ pc[c] = "setting" /\ packet[c].left # {}
  /\ Found(packet[c].table) = {}

BeginBroadcast(c) ==
  /\ packet[c].left = {}
  /\ Goto(c, "setting", "broadcasting")
  /\ todo' = [todo EXCEPT ![c] = OthersOf(c)]
  /\ UNCHANGED <<customProperty, numberVars, view, joinVars, packet, updates,
                 historyVars>>

Deliver(c, r) ==
  /\ pc[c] = "broadcasting" /\ r \in todo[c]
  /\ todo' = [todo EXCEPT ![c] = @ \ {r}]
  /\ view' = IF ~isConnected[r] THEN view
             ELSE [view EXCEPT ![r][packet[c].table] =
                     [k \in Key |-> IF k \in packet[c].keys
                                    THEN packet[c].value ELSE @[k]]]
  /\ UNCHANGED <<customProperty, pc, numberVars, joinVars, packet, updates,
                 historyVars>>

EndBroadcast(c) ==
  /\ todo[c] = {}
  /\ Goto(c, "broadcasting", "reading")
  /\ packet' = [packet EXCEPT ![c] = NoPacket]
  /\ UNCHANGED <<customProperty, numberVars, view, joinVars, todo, updates,
                 historyVars>>

---------------------------------------------------------------------------
(* The workers: HandlePlayerDisconnect.                                    *)

(* Whoever is found under the number goes, with its table.                 *)
RemovePlayer(c) ==
  LET gone == Lookup(actorNumber[c]) IN
  /\ Goto(c, "reading", "counting")
  /\ playerHash' = playerHash \ gone
  /\ tables' = [w \in Conn |-> tables[w] \ (gone \ {w})]
  /\ todo' = [w \in Conn |-> todo[w] \ gone]
  /\ view' = [view EXCEPT ![c] = NoProperties]
  /\ isConnected' = [isConnected EXCEPT ![c] = FALSE]
  /\ UNCHANGED <<customProperty, actorNumber, nextActorNumber, walk, info,
                 packet, updates, historyVars>>

CountPlayers(c) ==
  /\ \/ playerHash = {} /\ Goto(c, "counting", "wiping")
     \/ playerHash # {} /\ Goto(c, "counting", "gone")
  /\ UNCHANGED <<customProperty, numberVars, view, joinVars, packetVars,
                 historyVars>>

(* ResetServer: the room's properties, then PlayerManager::Reset.          *)
Wipe(c) ==
  /\ Goto(c, "wiping", "renumbering")
  /\ RemoveAllProperties(Room)
  /\ wiped' = (wiped \/ Members # {})
  /\ UNCHANGED <<view, numberVars, joinVars, packetVars, contested, raced>>

Renumber(c) ==
  /\ Goto(c, "renumbering", "gone")
  /\ nextActorNumber' = 1
  /\ wiped' = (wiped \/ Members # {})
  /\ UNCHANGED <<customProperty, playerHash, actorNumber, view, joinVars,
                 packetVars, contested, raced>>

---------------------------------------------------------------------------

(* A message for a player who has left, or a walk over a cleared table.    *)
Crash(c) ==
  /\ SetForMissing(c) \/ (walk[c] # NoWalk /\ WalkBroken(walk[c]))
  /\ up' = FALSE
  /\ UNCHANGED <<customProperty, pc, numberVars, view, joinVars, packetVars,
                 historyVars>>

Step(c) ==
  /\ UNCHANGED up
  /\ \/ CreatePlayer(c)
     \/ \E t \in Table : EncodeTable(c, t)
     \/ \E k \in Key : EncodeEntry(c, k)
     \/ EndTable(c)
     \/ SendInfo(c)
     \/ MarkConnected(c)
     \/ \E t \in Table, keys \in SUBSET Key : ReceiveSetHash(c, t, keys)
     \/ \E k \in Key : SetHash(c, k)
     \/ BeginBroadcast(c)
     \/ \E r \in Conn : Deliver(c, r)
     \/ EndBroadcast(c)
     \/ RemovePlayer(c)
     \/ CountPlayers(c)
     \/ Wipe(c)
     \/ Renumber(c)

Next == up /\ \E c \in Conn : Step(c) \/ Crash(c)

Spec == Init /\ [][Next]_vars

---------------------------------------------------------------------------

TypeOK ==
  /\ TableTypeOK
  /\ up \in BOOLEAN
  /\ pc \in [Conn -> Steps]
  /\ playerHash \in SUBSET Conn
  /\ actorNumber \in [Conn -> Nat]
  /\ nextActorNumber \in Nat
  /\ isConnected \in [Conn -> BOOLEAN]
  /\ tables \in [Conn -> SUBSET Table]
  /\ walk \in [Conn -> Walk \cup {NoWalk}]
  /\ info \in [Conn -> [Table -> [Key -> Nat]]]
  /\ view \in [Conn -> [Table -> [Key -> Nat]]]
  /\ packet \in [Conn -> Packet]
  /\ todo \in [Conn -> SUBSET Conn]
  /\ updates \in 0 .. MaxUpdates
  /\ contested \in SUBSET Slot
  /\ raced \in SUBSET Slot
  /\ wiped \in BOOLEAN

(* At rest every client was last sent, or has itself last sent, the value *)
(* that the server has, whichever joins, departures and other messages ran *)
(* meanwhile, with three exceptions: two messages about the property       *)
(* overlapped, it was set while a player not yet connected was being told  *)
(* the properties, or the room was reset with somebody in it, after which  *)
(* two players may have one number (MessageHandler.cpp:94, 102,            *)
(* Player.cpp:22, IOCP_Server.cpp:223, PlayerManager.cpp:28, 89).          *)
Converged ==
  ~wiped /\ (\A c \in Conn : pc[c] \in {"outside", "reading", "gone"}) =>
    \A r \in playerHash, t \in Held, k \in Key :
      <<t, k>> \notin contested \cup raced =>
        view[r][t][k] = customProperty[t][k]

(* What a client is told of a property never goes back to an earlier value *)
(* unless two messages about the property overlapped: a join's information *)
(* is old when it is sent, but no broadcast overtakes it, for isConnected  *)
(* is set only after it is sent (IOCP_Server.cpp:279-282).  Of players'    *)
(* properties this is so until the room is reset with somebody in it, when *)
(* numbers no longer tell players apart.                                   *)
NeverBackwards ==
  [][\A r \in playerHash' : \A s \in Slot \ contested :
       s[1] = Room \/ ~wiped' =>
         view'[r][s[1]][s[2]] >= view[r][s[1]][s[2]]]_vars

(* A room that has emptied starts over: however the departures overlapped  *)
(* one another or a join, and whomever the numbers found, once the last is *)
(* done the room's table is clear if nobody is in it (IOCP_Server.cpp:321, *)
(* ResetServer 339).                                                       *)
StartsOver == Members = {} /\ Closing = {} => KeysOf(Room) = {}
=============================================================================
