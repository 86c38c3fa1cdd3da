------------------------------ MODULE CatchUp ------------------------------
(***************************************************************************)
(* How a player who joins catches up: HandlePlayerJoin and                 *)
(* SendBufferedMessages on the accept thread, against the workers that     *)
(* handle packets (HandleMessage: EnqueueMessage and the removals, then    *)
(* BroadcastMessage) and disconnects (RemovePlayerNr, RemoveAll).          *)
(*                                                                         *)
(* There is no lock from EnqueueMessage to the end of the broadcast, nor   *)
(* from isConnected to the sending of the buffered messages: a message may *)
(* reach the joining player by the broadcast, from the buffer, or by both. *)
(* Players, messages and their removal go by the player's number, and the  *)
(* numbers start again when the server resets: a leaver whose removal is   *)
(* still to come may share his with a newer player.  Room has what the     *)
(* iterators of the table add.  Each connection has one handler at a time, *)
(* and there are workers enough for all of them.                           *)
(***************************************************************************)
EXTENDS BufferedMessages, Sequences

CONSTANT MaxMessages   \* bound: messages the clients send in a behaviour

ASSUME CatchUpAssumption == MaxMessages \in Nat

VARIABLES
  pc,            \* where the handler of each connection is
  nextActorNumber,
  playerHash,    \* the players in the table, each under its number
  isConnected,   \* Player::isConnected
  outgoing,      \* broadcastMessage: what the packet's broadcast will send
  todo,          \* the players that broadcast has still to reach
  received,      \* the texts sent to a client: a sequence of message sets
  handled,       \* messages handled so far
  published,     \* history: the messages whose broadcast is over
  removed,       \* history: the messages a client's request removed
  wiped,         \* history: RemoveAll ran while somebody was in the table
  clashed        \* history: a number was given that somebody still had

numberVars == <<actorNumber, nextActorNumber>>
roomVars == <<pc, playerHash, isConnected, outgoing, todo, received>>
historyVars == <<handled, published, removed, wiped, clashed>>
vars == <<bufferVars, numberVars, roomVars, historyVars>>

JoinSteps == {"created", "connected", "packing", "notifying"}
PacketSteps == {"handling", "broadcasting"}
CloseSteps == {"counting", "wiping", "renumbering", "forgetting"}
Steps == {"outside", "reading", "gone"}
           \cup JoinSteps \cup PacketSteps \cup CloseSteps

Init ==
  /\ BufferInit
  /\ actorNumber = [c \in Conn |-> 0]
  /\ nextActorNumber = 1
  /\ pc = [c \in Conn |-> "outside"]
  /\ playerHash = {}
  /\ isConnected = [c \in Conn |-> FALSE]
  /\ outgoing = [c \in Conn |-> {}]
  /\ todo = [c \in Conn |-> {}]
  /\ received = [c \in Conn |-> <<>>]
  /\ handled = 0
  /\ published = {}
  /\ removed = {}
  /\ wiped = FALSE
  /\ clashed = FALSE

Goto(c, from, to) == pc[c] = from /\ pc' = [pc EXCEPT ![c] = to]

(* playerHash[n]: the player found under the number n, or nobody.          *)
Lookup(n) == {p \in playerHash : actorNumber[p] = n}

(* The players on the server, whether or not the table has them, and those *)
(* whose number may still be looked for in the buffer.                     *)
Members == {c \in Conn : pc[c] \in JoinSteps \cup PacketSteps \cup {"reading"}}
Numbered == Members \cup {c \in Conn : pc[c] \in {"counting", "forgetting"}}

(* What has been sent to r, and the first and last text that had m in it.  *)
Reached(r) == UNION {received[r][i] : i \in DOMAIN received[r]}
Copies(r, m) == {i \in DOMAIN received[r] : m \in received[r][i]}

---------------------------------------------------------------------------
(* The accept thread.                                                      *)

(* CreatePlayer.  insert leaves the table alone when it has the number.  A *)
(* broadcast under way may or may not come to the player.                  *)
CreatePlayer(c) ==
  LET n == nextActorNumber
      added == {p \in {c} : Lookup(n) = {}}
  IN
  /\ \A d \in Conn : pc[d] \notin JoinSteps
  /\ Goto(c, "outside", "created")
  /\ actorNumber' = [actorNumber EXCEPT ![c] = n]
  /\ nextActorNumber' = n + 1
  /\ playerHash' = playerHash \cup added
  /\ \E seen \in SUBSET {w \in Conn : todo[w] # {} /\ actorNumber[w] # n} :
       todo' = [w \in Conn |-> IF w \in seen THEN todo[w] \cup added
                                             ELSE todo[w]]
  /\ clashed' = (clashed \/ \E d \in Numbered : actorNumber[d] = n)
  /\ UNCHANGED <<bufferVars, isConnected, outgoing, received, handled,
                 published, removed, wiped>>

(* The first statement of SendBufferedMessages, before its lock.           *)
MarkConnected(c) ==
  /\ Goto(c, "created", "connected")
  /\ isConnected' = [isConnected EXCEPT ![c] = TRUE]
  /\ UNCHANGED <<bufferVars, numberVars, playerHash, outgoing, todo, received,
                 historyVars>>

BeginSendBuffered(c) ==
  /\ Goto(c, "connected", "packing")
  /\ LockQueue(c)
  /\ UNCHANGED <<numberVars, playerHash, isConnected, outgoing, todo, received,
                 historyVars>>

SendAllButLast(c) ==   \* mutant: the last buffered message is not sent
  /\ Packs
  /\ Goto(c, "packing", "notifying")
  /\ UnlockQueue(c)
  /\ received' = [received EXCEPT ![c] =
       Append(@, {m \in messageQueue : \E n \in messageQueue : m.id < n.id})]
  /\ UNCHANGED <<numberVars, playerHash, isConnected, outgoing, todo,
                 historyVars>>

SendBuffered(c) ==
  /\ Packs
  /\ Goto(c, "packing", "notifying")
  /\ UnlockQueue(c)
  /\ received' = IF messageQueue = {} THEN received
                 ELSE [received EXCEPT ![c] = Append(@, messageQueue)]
  /\ UNCHANGED <<numberVars, playerHash, isConnected, outgoing, todo,
                 historyVars>>

(* OnLocalPlayerJoined, the PlayerJoined broadcast and the first WSARecv.  *)
FinishJoin(c) ==
  /\ Goto(c, "notifying", "reading")
  /\ UNCHANGED <<bufferVars, numberVars, playerHash, isConnected, outgoing,
                 todo, received, historyVars>>

---------------------------------------------------------------------------
(* The workers: a packet.                                                  *)

ReceivePacket(c) ==
  /\ handled < MaxMessages
  /\ Goto(c, "reading", "handling")
  /\ UNCHANGED <<bufferVars, numberVars, playerHash, isConnected, outgoing,
                 todo, received, historyVars>>

NextMessage(c) ==
  /\ pc[c] = "handling"
  /\ handled < MaxMessages
  /\ handled' = handled + 1

HandleRPCMisread(c, v) ==   \* mutant: the player stands for the view id
  /\ NextMessage(c)
  /\ EnqueueMessage([player |-> c, view |-> c, id |-> nextId])
  /\ UNCHANGED <<numberVars, roomVars, published, removed, wiped, clashed>>

(* An RPC or Instantiate message of the packet.                            *)
HandleRPC(c, v) ==
  /\ NextMessage(c)
  /\ LET m == [player |-> c, view |-> v, id |-> nextId]
     IN  /\ EnqueueMessage(m)
         /\ outgoing' = [outgoing EXCEPT ![c] = @ \cup {m}]
  /\ UNCHANGED <<numberVars, pc, playerHash, isConnected, todo, received,
                 published, removed, wiped, clashed>>

(* A RemoveRPC request: for a player and a view, for a player, for a view. *)
HandleRemove(c, p, v) ==
  /\ NextMessage(c)
  /\ \/ RemoveRPC(actorNumber[p], v)
     \/ RemovePlayerNr(actorNumber[p])
     \/ RemoveViewID(v)
  /\ removed' = removed \cup (messageQueue \ messageQueue')
  /\ UNCHANGED <<numberVars, roomVars, published, wiped, clashed>>

(* The packet has no more messages; what it has to broadcast is sent.      *)
EndPacket(c) ==
  /\ Goto(c, "handling", "broadcasting")
  /\ todo' = [todo EXCEPT ![c] =
       {r \in playerHash : outgoing[c] # {} /\ actorNumber[r] # actorNumber[c]}]
  /\ UNCHANGED <<bufferVars, numberVars, playerHash, isConnected, outgoing,
                 received, historyVars>>

(* Player::Send in BroadcastMessage's loop.                                *)
Deliver(c, r) ==
  /\ pc[c] = "broadcasting"
  /\ r \in todo[c]
  /\ todo' = [todo EXCEPT ![c] = @ \ {r}]
  /\ received' = IF isConnected[r]
                 THEN [received EXCEPT ![r] = Append(@, outgoing[c])]
                 ELSE received
  /\ UNCHANGED <<bufferVars, numberVars, pc, playerHash, isConnected, outgoing,
                 historyVars>>

EndBroadcastUncleared(c) ==   \* mutant: broadcastMessage is not cleared
  /\ todo[c] = {}
  /\ Goto(c, "broadcasting", "reading")
  /\ published' = published \cup outgoing[c]
  /\ UNCHANGED <<bufferVars, numberVars, playerHash, isConnected, outgoing,
                 todo, received, handled, removed, wiped, clashed>>

EndBroadcast(c) ==
  /\ todo[c] = {}
  /\ Goto(c, "broadcasting", "reading")
  /\ published' = published \cup outgoing[c]
  /\ outgoing' = [outgoing EXCEPT ![c] = {}]
  /\ UNCHANGED <<bufferVars, numberVars, playerHash, isConnected, todo,
                 received, handled, removed, wiped, clashed>>

---------------------------------------------------------------------------
(* The workers: HandlePlayerDisconnect.                                    *)

(* Whoever the table has under the number is taken out.                    *)
RemovePlayer(c) ==
  LET found == Lookup(actorNumber[c]) IN
  /\ Goto(c, "reading", "counting")
  /\ playerHash' = playerHash \ found
  /\ todo' = [w \in Conn |-> todo[w] \ found]
  /\ UNCHANGED <<bufferVars, numberVars, isConnected, outgoing, received,
                 historyVars>>

CountPlayers(c) ==
  /\ \/ playerHash = {} /\ Goto(c, "counting", "wiping")
     \/ playerHash # {} /\ Goto(c, "counting", "forgetting")
  /\ UNCHANGED <<bufferVars, numberVars, playerHash, isConnected, outgoing,
                 todo, received, historyVars>>

(* ResetServer: RemoveAll, and then Reset of the numbers.                  *)
Wipe(c) ==
  /\ Goto(c, "wiping", "renumbering")
  /\ RemoveAll
  /\ wiped' = (wiped \/ playerHash # {})
  /\ UNCHANGED <<numberVars, playerHash, isConnected, outgoing, todo, received,
                 handled, published, removed, clashed>>

Renumber(c) ==
  /\ Goto(c, "renumbering", "gone")
  /\ nextActorNumber' = 1
  /\ UNCHANGED <<bufferVars, actorNumber, playerHash, isConnected, outgoing,
                 todo, received, historyVars>>

ForgetPlayer(c) ==
  /\ Goto(c, "forgetting", "gone")
  /\ RemovePlayerNr(actorNumber[c])
  /\ UNCHANGED <<numberVars, playerHash, isConnected, outgoing, todo, received,
                 historyVars>>

---------------------------------------------------------------------------

ThreadStep(c) ==
  \/ MarkConnected(c)
  \/ BeginSendBuffered(c)
  \/ SendBuffered(c)
  \/ FinishJoin(c)
  \/ EndPacket(c)
  \/ \E r \in Conn : Deliver(c, r)
  \/ EndBroadcast(c)
  \/ CountPlayers(c)
  \/ Wipe(c)
  \/ Renumber(c)
  \/ ForgetPlayer(c)

Arrival(c) ==
  \/ CreatePlayer(c)
  \/ ReceivePacket(c)
  \/ \E v \in View : HandleRPC(c, v)
  \/ \E p \in Conn, v \in View : HandleRemove(c, p, v)
  \/ RemovePlayer(c)

Next == \E c \in Conn : ThreadStep(c) \/ Arrival(c)

Spec == Init /\ [][Next]_vars

(* The scheduler runs every thread that can go on.                         *)
FairSpec == Spec /\ \A c \in Conn : WF_vars(ThreadStep(c))

---------------------------------------------------------------------------

TypeOK ==
  /\ BufferTypeOK
  /\ actorNumber \in [Conn -> Nat]
  /\ nextActorNumber \in Nat \ {0}
  /\ pc \in [Conn -> Steps]
  /\ playerHash \in SUBSET Conn
  /\ isConnected \in [Conn -> BOOLEAN]
  /\ outgoing \in [Conn -> SUBSET Message]
  /\ todo \in [Conn -> SUBSET Conn]
  /\ received \in [Conn -> Seq(SUBSET Message)]
  /\ handled \in 0 .. MaxMessages
  /\ published \in SUBSET Message
  /\ removed \in SUBSET Message
  /\ wiped \in BOOLEAN
  /\ clashed \in BOOLEAN

(* The players who have been sent the buffered messages.                   *)
CaughtUp == {r \in Members : pc[r] \notin {"created", "connected", "packing"}}

(* A message of a player on the server reaches every other player there,   *)
(* those who join after it too, unless a client has it removed: whichever  *)
(* of EnqueueMessage, the broadcast, isConnected and the sending of the    *)
(* buffer come first (SendBufferedMessages, EchoThreadMain 220-223).       *)
(* Excepted is a RemoveAll that somebody's join has overtaken, and a       *)
(* number given again while its last owner was on the server or had his    *)
(* RemovePlayerNr still to do.                                             *)
NothingMissed ==
  ~wiped /\ ~clashed =>
    \A m \in published \ removed, r \in CaughtUp :
      m.player \in Members /\ m.player # r => m \in Reached(r)

(* The inductive form of NothingMissed.  As long as no number is given     *)
(* twice the table holds the players on the server, and a number finds     *)
(* nobody else's messages; a broadcast has messages only while its packet  *)
(* is handled, and only that player's.                                     *)
PlayersInv ==
  /\ \A r \in Members : pc[r] # "created" => isConnected[r]
  /\ ~clashed => playerHash = Members
  /\ ~clashed => \A c, d \in Numbered :
                   actorNumber[c] = actorNumber[d] => c = d

Sent(c) == outgoing[c] \cup {m \in published : m.player = c}

OutgoingInv ==
  \A c \in Conn :
    /\ pc[c] \notin PacketSteps => outgoing[c] = {}
    /\ pc[c] \in JoinSteps \cup {"outside"} => Sent(c) = {}
    /\ \A m \in outgoing[c] : m.player = c

(* What a player on the server sent and nobody had removed is still buffered,*)
(* so that a join picks it up.  A broadcast under way has sent it to, or   *)
(* has still to visit, every player who has had the buffer; a finished one *)
(* has reached them all.                                                   *)
ReachInv ==
  ~wiped /\ ~clashed =>
    \A c \in Members : \A m \in Sent(c) \ removed :
      /\ m \in messageQueue
      /\ \A r \in CaughtUp \ {c} :
           \/ m \in Reached(r)
           \/ m \notin published /\ (pc[c] = "broadcasting" => r \in todo[c])

CatchUpInv == PlayersInv /\ OutgoingInv /\ ReachInv

(* The server keeps one log of the room, as RoomLog has it: the buffer is  *)
(* the log, a player is let in when the buffer has been sent, and a        *)
(* message is published when its broadcast is over                         *)
(* (IOCP_Server.cpp:220-223, BufferedMessages.cpp:99-124).                 *)
Log == INSTANCE RoomLog WITH
  present <- Members,
  let <- CaughtUp,
  log <- messageQueue,
  got <- [c \in Conn |-> Reached(c)],
  lost <- wiped \/ clashed

ImplementsLog == Log!Spec

(* A client is sent a message twice at most, by the broadcast and from the *)
(* buffer, and never its own.                                              *)
TwiceAtMost ==
  \A r \in Conn : \A m \in Reached(r) :
    Cardinality(Copies(r, m)) <= 2 /\ m.player # r

(* Of two buffered messages of one player, the last copy of the later one  *)
(* never comes before the last copy of the earlier: a client that applies  *)
(* every copy ends up with the later message's effect.                     *)
LaterWins ==
  \A r \in CaughtUp :
    \A m, n \in messageQueue \cap Reached(r) :
      m.player = n.player /\ m.id < n.id =>
        \E i \in Copies(r, n) : \A j \in Copies(r, m) : j <= i

(* Nothing stays buffered of a player who has left (RemovePlayerNr and     *)
(* RemoveAll at the end of HandlePlayerDisconnect).                        *)
NoneLeftBehind ==
  \A m \in messageQueue : pc[m.player] # "gone"

(* HandlePlayerJoin comes to its last steps, "//7 .Notify others" and the  *)
(* first WSARecv (IOCP_Server.cpp:292, 71).                                *)
JoinsFinish == \A c \in Conn : pc[c] = "created" ~> pc[c] = "reading"

(* Every packet and every disconnect that a worker takes up is finished,   *)
(* although joins hold the buffer's mutex while they pack and send it.     *)
WorkersFinish ==
  \A c \in Conn : pc[c] \in PacketSteps \cup CloseSteps
                    ~> pc[c] \in {"reading", "gone"}
=============================================================================
