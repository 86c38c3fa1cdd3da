------------------------------ MODULE LogProofs ------------------------------
(***************************************************************************)
(* CatchUp implements RoomLog, for every set of connections and views,     *)
(* every pack limit and every number of messages; and how often and in     *)
(* what order a client is sent what the log has.                           *)
(***************************************************************************)
EXTENDS CatchUpProofs, FiniteSetTheorems

Got == [c \in Conn |-> Reached(c)]

(* A broadcast never comes to the player whose packet it is, and only a    *)
(* handler that is broadcasting has anybody to reach.                      *)
TodoInv ==
  \A c \in Conn : c \notin todo[c] /\ (pc[c] # "broadcasting" => todo[c] = {})

---------------------------------------------------------------------------

(* A step leaves players to reach only to a broadcast, and never its own.  *)
LEMMA TodoStep ==
  ASSUME TypeOK, TodoInv, NEW c \in Conn, ThreadStep(c) \/ Arrival(c)
  PROVE  TodoInv'
<1> USE DEF TypeOK, TodoInv, Goto
<1>1. CASE CreatePlayer(c)
  BY <1>1 DEF CreatePlayer
<1>2. CASE MarkConnected(c) \/ BeginSendBuffered(c) \/ SendBuffered(c)
  BY <1>2 DEF MarkConnected, BeginSendBuffered, SendBuffered
<1>3. CASE FinishJoin(c) \/ ReceivePacket(c)
  BY <1>3 DEF FinishJoin, ReceivePacket
<1>4. CASE \E p \in Conn, v \in View : HandleRPC(c, v) \/ HandleRemove(c, p, v)
  BY <1>4 DEF HandleRPC, HandleRemove, roomVars
<1>5. CASE EndPacket(c)
  BY <1>5 DEF EndPacket
<1>6. CASE \E r \in Conn : Deliver(c, r)
  BY <1>6 DEF Deliver
<1>7. CASE EndBroadcast(c)
  BY <1>7 DEF EndBroadcast
<1>8. CASE RemovePlayer(c)
  BY <1>8 DEF RemovePlayer
<1>9. CASE CountPlayers(c) \/ Wipe(c) \/ Renumber(c) \/ ForgetPlayer(c)
  BY <1>9 DEF CountPlayers, Wipe, Renumber, ForgetPlayer
<1> QED
  BY <1>1, <1>2, <1>3, <1>4, <1>5, <1>6, <1>7, <1>8, <1>9
     DEF ThreadStep, Arrival

(* BroadcastMessageExcept never comes to the player whose packet it sends. *)
THEOREM TodoInvariant == Spec => []TodoInv
<1>1. Init => TodoInv
  BY DEF Init, TodoInv
<1>2. TypeOK /\ TodoInv /\ [Next]_vars => TodoInv'
  BY TodoStep DEF Next, vars, roomVars, TodoInv
<1> QED
  BY <1>1, <1>2, TypeCorrect, PTL DEF Spec

---------------------------------------------------------------------------
(* What the steps of CatchUp are in RoomLog.                               *)

(* Sending r the messages S adds them to what r has got, and only that.    *)
LEMMA GotStep ==
  ASSUME TypeOK, NEW r \in Conn, NEW S \in SUBSET Message,
         received' = [received EXCEPT ![r] = Append(@, S)]
  PROVE  Got' = [Got EXCEPT ![r] = @ \cup S]
<1>1. received[r] \in Seq(SUBSET Message) /\ received'[r] = Append(received[r], S)
  BY DEF TypeOK
<1>2. DOMAIN received'[r] = DOMAIN received[r] \cup {Len(received[r]) + 1}
  BY <1>1
<1>3. \A i \in DOMAIN received[r] : received'[r][i] = received[r][i]
  BY <1>1
<1>4. received'[r][Len(received[r]) + 1] = S
  BY <1>1
<1>5. Reached(r)' = Reached(r) \cup S
  BY <1>2, <1>3, <1>4 DEF Reached
<1>6. \A q \in Conn \ {r} : Reached(q)' = Reached(q)
  BY DEF TypeOK, Reached
<1> QED
  BY <1>5, <1>6 DEF Got

(* Nothing that RoomLog speaks of changes.                                 *)
LEMMA StutterStep ==
  ASSUME TypeOK, NEW c \in Conn,
         \/ MarkConnected(c) \/ BeginSendBuffered(c) \/ FinishJoin(c)
         \/ ReceivePacket(c) \/ EndPacket(c) \/ CountPlayers(c)
         \/ Renumber(c)
  PROVE  UNCHANGED Log!logVars
<1>1. UNCHANGED <<messageQueue, received, published, removed, wiped, clashed>>
  BY DEF MarkConnected, BeginSendBuffered, FinishJoin, ReceivePacket,
         EndPacket, CountPlayers, Renumber, LockQueue, bufferVars, historyVars
<1>2. Members' = Members /\ CaughtUp' = CaughtUp
  <2>1. /\ pc \in [Conn -> Steps]
        /\ \/ MarkConnected(c) /\ pc[c] = "created" /\ pc' = [pc EXCEPT ![c] = "connected"]
           \/ pc[c] = "connected" /\ pc' = [pc EXCEPT ![c] = "packing"]
           \/ pc[c] = "notifying" /\ pc' = [pc EXCEPT ![c] = "reading"]
           \/ pc[c] = "reading" /\ pc' = [pc EXCEPT ![c] = "handling"]
           \/ pc[c] = "handling" /\ pc' = [pc EXCEPT ![c] = "broadcasting"]
           \/ pc[c] = "counting" /\ pc' = [pc EXCEPT ![c] = "wiping"]
           \/ pc[c] = "counting" /\ pc' = [pc EXCEPT ![c] = "forgetting"]
           \/ pc[c] = "renumbering" /\ pc' = [pc EXCEPT ![c] = "gone"]
    BY DEF TypeOK, MarkConnected, BeginSendBuffered, FinishJoin,
           ReceivePacket, EndPacket, CountPlayers, Renumber, Goto
  <2>2. Members' = Members
    BY <2>1 DEF Members, JoinSteps, PacketSteps
  <2> QED
    BY <2>1, <2>2 DEF CaughtUp, Members
<1>3. Got' = Got
  BY <1>1 DEF Got, Reached
<1> QED
  BY <1>1, <1>2, <1>3 DEF Log!logVars, Got

(* The accept thread lets a player in with the whole buffer.               *)
LEMMA JoinInLog ==
  ASSUME TypeOK, CatchUpInv, NEW c \in Conn, CreatePlayer(c) \/ SendBuffered(c)
  PROVE  Log!Next
<1>1. CASE CreatePlayer(c)
  <2>1. /\ UNCHANGED <<messageQueue, received, published, removed, wiped>>
        /\ clashed' \in {clashed, TRUE}
    BY <1>1 DEF CreatePlayer, bufferVars, TypeOK
  <2>2. c \notin Members /\ Members' = Members \cup {c}
    BY <1>1, CreateMembers DEF Numbered
  <2>3. CaughtUp' = CaughtUp
    <3>1. pc' = [pc EXCEPT ![c] = "created"]
      BY <1>1 DEF CreatePlayer, Goto
    <3>2. Members \subseteq Conn /\ pc \in [Conn -> Steps]
      BY DEF Members, TypeOK
    <3> QED
      BY <2>2, <3>1, <3>2 DEF CaughtUp
  <2>4. Got' = Got
    BY <2>1 DEF Got, Reached
  <2>5. (wiped \/ clashed)' \in {wiped \/ clashed, TRUE}
    <3>1. CASE clashed' = TRUE
      BY <3>1
    <3>2. CASE clashed' = clashed
      BY <2>1, <3>2
    <3> QED
      BY <2>1, <3>1, <3>2
  <2>6. Log!Enter(c)
    BY <2>1, <2>2, <2>3, <2>4, <2>5 DEF Log!Enter, Got
  <2> QED
    BY <2>6 DEF Log!Next
<1>2. CASE SendBuffered(c)
  <2>1. UNCHANGED <<messageQueue, published, removed, wiped, clashed>>
    BY <1>2 DEF SendBuffered, UnlockQueue, historyVars
  <2>2. /\ c \in Members /\ Members' = Members
        /\ c \notin CaughtUp /\ CaughtUp' = CaughtUp \cup {c}
    BY <1>2, <2>1 DEF TypeOK, SendBuffered, Goto, Members, JoinSteps,
                      PacketSteps, CaughtUp
  <2>3. Got' = [Got EXCEPT ![c] = @ \cup messageQueue]
    <3>1. CASE messageQueue = {}
      BY <1>2, <3>1 DEF SendBuffered, Got, Reached
    <3>2. CASE messageQueue # {}
      BY <1>2, <3>2, GotStep DEF SendBuffered, TypeOK, BufferTypeOK
    <3> QED
      BY <3>1, <3>2
  <2>4. Log!LetIn(c)
    BY <2>1, <2>2, <2>3 DEF Log!LetIn, Got
  <2> QED
    BY <2>4 DEF Log!Next
<1> QED
  BY <1>1, <1>2

(* A worker's packet: what it says, has removed, relays and publishes.     *)
LEMMA PacketInLog ==
  ASSUME TypeOK, CatchUpInv, TodoInv, NEW c \in Conn,
         \/ \E v \in View : HandleRPC(c, v)
         \/ \E p \in Conn, v \in View : HandleRemove(c, p, v)
         \/ EndBroadcast(c)
  PROVE  Log!Next
<1>1. CASE \E v \in View : HandleRPC(c, v)
  <2>1. c \in CaughtUp
    BY <1>1 DEF HandleRPC, NextMessage, Members, PacketSteps, CaughtUp
  <2>2. UNCHANGED <<pc, received, published, removed, wiped, clashed>>
    BY <1>1 DEF HandleRPC
  <2>3. /\ messageQueue \subseteq messageQueue'
        /\ \A m \in messageQueue' \ messageQueue : m.player = c
    BY <1>1 DEF HandleRPC, EnqueueMessage
  <2>4. Members' = Members /\ CaughtUp' = CaughtUp /\ Got' = Got
    BY <2>2 DEF Members, CaughtUp, Got, Reached
  <2>5. Log!Say(c)
    BY <2>1, <2>2, <2>3, <2>4 DEF Log!Say, Got
  <2> QED
    BY <2>5 DEF Log!Next
<1>2. CASE \E p \in Conn, v \in View : HandleRemove(c, p, v)
  <2>1. /\ UNCHANGED <<pc, received, published, wiped, clashed>>
        /\ removed' = removed \cup (messageQueue \ messageQueue')
    BY <1>2 DEF HandleRemove, roomVars
  <2>2. messageQueue' \subseteq messageQueue
    BY <1>2 DEF HandleRemove, RemoveRPC, RemovePlayerNr, RemoveViewID, Keep
  <2>3. Members' = Members /\ CaughtUp' = CaughtUp /\ Got' = Got
    BY <2>1 DEF Members, CaughtUp, Got, Reached
  <2>4. Log!Retract
    BY <2>1, <2>2, <2>3 DEF Log!Retract, Got
  <2> QED
    BY <2>4 DEF Log!Next
<1>3. CASE EndBroadcast(c)
  <2>1. /\ pc[c] = "broadcasting" /\ todo[c] = {}
        /\ UNCHANGED <<messageQueue, received, removed, wiped, clashed>>
        /\ published' = published \cup outgoing[c]
    BY <1>3 DEF EndBroadcast, Goto, bufferVars
  <2>2. c \in CaughtUp
    BY <2>1 DEF Members, PacketSteps, CaughtUp
  <2>3. Members' = Members /\ CaughtUp' = CaughtUp /\ Got' = Got
    BY <1>3, <2>1 DEF EndBroadcast, Goto, TypeOK, Members, JoinSteps,
                      PacketSteps, CaughtUp, Got, Reached
  <2>4. ASSUME NEW m \in published' \ published
        PROVE  /\ m.player = c
               /\ m \notin removed /\ ~(wiped \/ clashed) =>
                    /\ m \in messageQueue
                    /\ \A r \in CaughtUp \ {c} : m \in Got[r]
    <3>1. m \in outgoing[c] /\ m \notin published
      BY <2>1
    <3>2. m.player = c
      BY <3>1 DEF CatchUpInv, OutgoingInv
    <3>3. m \in Sent(c) /\ c \in Members
      BY <2>2, <3>1 DEF Sent, CaughtUp
    <3>4. ASSUME m \notin removed, ~(wiped \/ clashed)
          PROVE  /\ m \in messageQueue
                 /\ \A r \in CaughtUp \ {c} : m \in Reached(r)
      BY <2>1, <3>3, <3>4 DEF CatchUpInv, ReachInv
    <3>5. CaughtUp \subseteq Conn
      BY DEF CaughtUp, Members
    <3> QED
      BY <3>2, <3>4, <3>5 DEF Got
  <2>5. Log!Publish(c)
    BY <2>1, <2>2, <2>3, <2>4 DEF Log!Publish, Got
  <2> QED
    BY <2>5 DEF Log!Next
<1> QED
  BY <1>1, <1>2, <1>3

(* A broadcast's step relays c's messages to somebody else.                *)
LEMMA DeliverInLog ==
  ASSUME TypeOK, CatchUpInv, TodoInv, NEW c \in Conn, NEW r \in Conn,
         Deliver(c, r)
  PROVE  Log!Next \/ UNCHANGED Log!logVars
<1>1. /\ UNCHANGED <<pc, messageQueue, published, removed, wiped, clashed>>
      /\ r # c
  BY DEF Deliver, TodoInv, bufferVars, historyVars
<1>2. Members' = Members /\ CaughtUp' = CaughtUp
  BY <1>1 DEF Members, CaughtUp
<1>3. CASE ~isConnected[r]
  <2>1. Got' = Got
    BY <1>3 DEF Deliver, Got, Reached
  <2> QED
    BY <1>1, <1>2, <2>1 DEF Log!logVars, Got
<1>4. CASE isConnected[r]
  <2>1. outgoing[c] \in SUBSET Message
    BY DEF TypeOK
  <2>2. Got' = [Got EXCEPT ![r] = @ \cup outgoing[c]]
    BY <1>4, <2>1, GotStep DEF Deliver
  <2>3. Got'[r] = Got[r] \cup outgoing[c]
    BY <2>2 DEF Got
  <2>4. \A m \in Got'[r] \ Got[r] : m.player # r
    BY <1>1, <2>3 DEF CatchUpInv, OutgoingInv
  <2>5. Log!Relay(r)
    BY <1>1, <1>2, <2>2, <2>3, <2>4 DEF Log!Relay, Got
  <2> QED
    BY <2>5 DEF Log!Next
<1> QED
  BY <1>3, <1>4

(* A worker's disconnect: the player leaves, and the log forgets him or is *)
(* thrown away.                                                            *)
LEMMA CloseInLog ==
  ASSUME TypeOK, CatchUpInv, NEW c \in Conn,
         RemovePlayer(c) \/ Wipe(c) \/ ForgetPlayer(c)
  PROVE  Log!Next
<1>1. CASE RemovePlayer(c)
  <2>1. /\ UNCHANGED <<messageQueue, received, published, removed, wiped, clashed>>
        /\ pc[c] = "reading" /\ pc' = [pc EXCEPT ![c] = "counting"]
    BY <1>1 DEF RemovePlayer, Goto, bufferVars, historyVars
  <2>2. /\ Members' = Members \ {c}
        /\ c \in CaughtUp /\ CaughtUp' = CaughtUp \ {c}
    BY <2>1 DEF TypeOK, Members, JoinSteps, PacketSteps, CaughtUp
  <2>3. Got' = Got
    BY <2>1 DEF Got, Reached
  <2>4. Log!Leave(c)
    BY <2>1, <2>2, <2>3 DEF Log!Leave, Got
  <2> QED
    BY <2>4 DEF Log!Next
<1>2. CASE Wipe(c) \/ ForgetPlayer(c)
  <2>1. /\ UNCHANGED <<received, published, removed, clashed>>
        /\ pc[c] \in {"wiping", "forgetting"}
        /\ \E to \in {"renumbering", "gone"} : pc' = [pc EXCEPT ![c] = to]
    BY <1>2 DEF Wipe, ForgetPlayer, Goto, historyVars
  <2>2. /\ c \notin Members /\ Members' = Members
        /\ CaughtUp' = CaughtUp
    BY <2>1 DEF TypeOK, Members, JoinSteps, PacketSteps, CaughtUp
  <2>3. Got' = Got
    BY <2>1 DEF Got, Reached
  <2>4. CASE Wipe(c)
    <3>1. (wiped \/ clashed)' = (wiped \/ clashed \/ Members # {})
      <4>1. wiped' = (wiped \/ playerHash # {}) /\ clashed' = clashed
        BY <2>1, <2>4 DEF Wipe
      <4>2. CASE clashed
        BY <4>1, <4>2 DEF TypeOK
      <4>3. CASE ~clashed
        BY <4>1, <4>3 DEF CatchUpInv, PlayersInv
      <4> QED
        BY <4>2, <4>3
    <3>2. messageQueue' = {}
      BY <2>4 DEF Wipe, RemoveAll, Keep
    <3>3. Log!ThrowAway
      BY <2>1, <2>2, <2>3, <3>1, <3>2 DEF Log!ThrowAway, Got
    <3> QED
      BY <3>3 DEF Log!Next
  <2>5. CASE ForgetPlayer(c)
    <3>1. /\ messageQueue' = {m \in messageQueue :
                                actorNumber[m.player] # actorNumber[c]}
          /\ wiped' = wiped /\ pc[c] = "forgetting"
      BY <2>5 DEF ForgetPlayer, Goto, RemovePlayerNr, Keep, playerActorNr,
                  historyVars
    <3>2. ASSUME ~clashed, NEW m \in messageQueue \ messageQueue'
          PROVE  m.player \notin Members
      BY <2>2, <3>1, <3>2 DEF CatchUpInv, PlayersInv, Numbered
    <3>3. messageQueue' \subseteq {m \in messageQueue : m.player # c}
      BY <3>1
    <3>4. Log!Forget(c)
      BY <2>1, <2>2, <2>3, <3>1, <3>2, <3>3 DEF Log!Forget, Got
    <3> QED
      BY <3>4 DEF Log!Next
  <2> QED
    BY <1>2, <2>4, <2>5
<1> QED
  BY <1>1, <1>2

(* The accept thread and the workers together keep the one log that        *)
(* RoomLog promises, although no lock is held from the buffering of a      *)
(* message to the end of its broadcast, nor from isConnected to the        *)
(* sending of the buffer; it loses messages only once RemoveAll has been   *)
(* overtaken or a number was given whose last owner still counted.         *)
THEOREM CatchUpImplementsLog == Spec => ImplementsLog
<1>1. Init => Log!Init
  BY DEF Init, BufferInit, Log!Init, Members, JoinSteps, PacketSteps, CaughtUp,
         Reached
<1>2. TypeOK /\ CatchUpInv /\ TodoInv /\ [Next]_vars => [Log!Next]_(Log!logVars)
  <2> SUFFICES ASSUME TypeOK, CatchUpInv, TodoInv, [Next]_vars
               PROVE  Log!Next \/ UNCHANGED Log!logVars
    OBVIOUS
  <2>1. CASE UNCHANGED vars
    BY <2>1 DEF vars, bufferVars, roomVars, historyVars, Log!logVars,
                Members, CaughtUp, Reached
  <2>2. ASSUME NEW c \in Conn, ThreadStep(c) \/ Arrival(c)
        PROVE  Log!Next \/ UNCHANGED Log!logVars
    BY <2>2, StutterStep, JoinInLog, PacketInLog, DeliverInLog, CloseInLog
       DEF ThreadStep, Arrival
  <2> QED
    BY <2>1, <2>2 DEF Next
<1> QED
  BY <1>1, <1>2, TypeCorrect, CatchUpInvariant, TodoInvariant, PTL
     DEF Spec, ImplementsLog, Log!Spec

---------------------------------------------------------------------------
(* The copies of a message, and their order.                               *)

(* A message's id is taken from the counter, and the counter moves on.     *)
FreshInv ==
  /\ \A m \in messageQueue : m.id < nextId
  /\ \A c \in Conn : \A m \in outgoing[c] \cup Reached(c) : m.id < nextId

(* Nothing is sent before SendBufferedMessages sets isConnected.           *)
EarlyInv ==
  \A r \in Conn : pc[r] \in {"outside", "created"} =>
    received[r] = <<>> /\ ~isConnected[r]

(* A player is in the room before a message of its is buffered, and its    *)
(* own broadcast passes it over.                                           *)
OwnInv ==
  /\ \A m \in messageQueue : pc[m.player] \notin JoinSteps \cup {"outside"}
  /\ \A r \in Conn : \A m \in Reached(r) : m.player # r

(* A packet's messages are the player's latest.                            *)
PacketInv ==
  \A c \in Conn : \A m \in outgoing[c], n \in messageQueue :
    n.player = c /\ m.id < n.id => n \in outgoing[c]

(* The two texts that r may still get m in: the buffer and the broadcast.  *)
ToBuffer(r) == pc[r] \in {"outside", "created", "connected", "packing"}

ToDeliver(r, m) ==
  /\ m \in outgoing[m.player]
  /\ pc[m.player] = "broadcasting" => r \in todo[m.player]

Due(r, m) ==
  (IF ToBuffer(r) THEN 1 ELSE 0) + (IF ToDeliver(r, m) THEN 1 ELSE 0)

DueInv ==
  \A r \in Conn, m \in Message : Cardinality(Copies(r, m)) + Due(r, m) <= 2

(* LaterWins, for players who have not had the buffer as well.             *)
OrderInv ==
  \A r \in Conn : \A m, n \in messageQueue \cap Reached(r) :
    m.player = n.player /\ m.id < n.id =>
      \E i \in Copies(r, n) : \A j \in Copies(r, m) : j <= i

(* r is sent the text S.                                                   *)
Sends(r, S) == received' = [received EXCEPT ![r] = Append(@, S)]

(* The copies of m after a text more.                                      *)
LEMMA CopiesStep ==
  ASSUME TypeOK, NEW r \in Conn, NEW S \in SUBSET Message, Sends(r, S)
  PROVE  /\ \A q \in Conn \ {r} : \A m : Copies(q, m)' = Copies(q, m)
         /\ \A m \in S : Copies(r, m)' = Copies(r, m) \cup {Len(received[r]) + 1}
         /\ \A m : m \notin S => Copies(r, m)' = Copies(r, m)
<1>1. received[r] \in Seq(SUBSET Message) /\ received'[r] = Append(received[r], S)
  BY DEF TypeOK, Sends
<1>2. DOMAIN received'[r] = DOMAIN received[r] \cup {Len(received[r]) + 1}
  BY <1>1
<1>3. \A i \in DOMAIN received[r] : received'[r][i] = received[r][i]
  BY <1>1
<1>4. received'[r][Len(received[r]) + 1] = S
  BY <1>1
<1>5. \A q \in Conn \ {r} : received'[q] = received[q]
  BY DEF TypeOK, Sends
<1> QED
  BY <1>2, <1>3, <1>4, <1>5 DEF Copies

(* The places of a client's copies are places in its sequence of texts.    *)
LEMMA CopiesPlaces ==
  ASSUME TypeOK, NEW r \in Conn, NEW m
  PROVE  /\ \A i \in Copies(r, m) : i \in Nat /\ i <= Len(received[r])
         /\ Len(received[r]) \in Nat
         /\ IsFiniteSet(Copies(r, m)) /\ Cardinality(Copies(r, m)) \in Nat
<1>1. received[r] \in Seq(SUBSET Message)
  BY DEF TypeOK
<1>2. Len(received[r]) \in Nat /\ DOMAIN received[r] = 1 .. Len(received[r])
  BY <1>1
<1>3. Copies(r, m) \subseteq 1 .. Len(received[r])
  BY <1>2 DEF Copies
<1>4. IsFiniteSet(1 .. Len(received[r]))
  BY <1>2, FS_Interval
<1>5. IsFiniteSet(Copies(r, m))
  BY <1>3, <1>4, FS_Subset
<1> QED
  BY <1>2, <1>3, <1>5, FS_CardinalityType

(* The three kinds of steps: no text, the buffer's text, a packet's text.  *)
LEMMA TextKinds ==
  ASSUME TypeOK, NEW c \in Conn, ThreadStep(c) \/ Arrival(c)
  PROVE  \/ received' = received
         \/ SendBuffered(c) /\ Sends(c, messageQueue)
         \/ \E r \in todo[c] : Deliver(c, r) /\ isConnected[r] /\ Sends(r, outgoing[c])
<1>1. CASE CreatePlayer(c) \/ MarkConnected(c) \/ BeginSendBuffered(c)
           \/ FinishJoin(c)
  BY <1>1 DEF CreatePlayer, MarkConnected, BeginSendBuffered, FinishJoin
<1>2. CASE SendBuffered(c)
  BY <1>2 DEF SendBuffered, Sends
<1>3. CASE \E r \in Conn : Deliver(c, r)
  BY <1>3 DEF Deliver, Sends
<1>4. CASE ReceivePacket(c) \/ EndPacket(c) \/ EndBroadcast(c)
  BY <1>4 DEF ReceivePacket, EndPacket, EndBroadcast
<1>5. CASE \E p \in Conn, v \in View : HandleRPC(c, v) \/ HandleRemove(c, p, v)
  BY <1>5 DEF HandleRPC, HandleRemove, roomVars
<1>6. CASE \/ RemovePlayer(c) \/ CountPlayers(c) \/ Wipe(c) \/ Renumber(c)
           \/ ForgetPlayer(c)
  BY <1>6 DEF RemovePlayer, CountPlayers, Wipe, Renumber, ForgetPlayer
<1> QED
  BY <1>1, <1>2, <1>3, <1>4, <1>5, <1>6 DEF ThreadStep, Arrival

(* What a step can do to the buffer and to the packets: a message is taken *)
(* up, with the counter's number, or some are dropped.                     *)
Takes(c, m) ==
  /\ m \in Message /\ m.player = c /\ m.id = nextId /\ pc[c] = "handling"
  /\ nextId' = nextId + 1
  /\ messageQueue' = messageQueue \cup {m}
  /\ outgoing' = [outgoing EXCEPT ![c] = @ \cup {m}]
  /\ UNCHANGED <<pc, todo, received, isConnected>>

(* Only HandleRPC appends to the buffer.                                   *)
LEMMA BufferKinds ==
  ASSUME TypeOK, OutgoingInv, NEW c \in Conn, ThreadStep(c) \/ Arrival(c)
  PROVE  \/ \E m : Takes(c, m)
         \/ /\ nextId' = nextId
            /\ messageQueue' \subseteq messageQueue
            /\ \A d \in Conn : outgoing'[d] = outgoing[d] \/ outgoing'[d] = {}
<1>1. CASE CreatePlayer(c) \/ MarkConnected(c) \/ FinishJoin(c)
  BY <1>1 DEF CreatePlayer, MarkConnected, FinishJoin, bufferVars
<1>2. CASE BeginSendBuffered(c) \/ SendBuffered(c)
  BY <1>2 DEF BeginSendBuffered, SendBuffered, LockQueue, UnlockQueue
<1>3. CASE \E r \in Conn : Deliver(c, r)
  BY <1>3 DEF Deliver, bufferVars
<1>4. CASE ReceivePacket(c) \/ EndPacket(c)
  BY <1>4 DEF ReceivePacket, EndPacket, bufferVars
<1>5. CASE EndBroadcast(c)
  BY <1>5 DEF EndBroadcast, bufferVars, TypeOK
<1>6. ASSUME NEW v \in View, HandleRPC(c, v)
      PROVE  \E m : Takes(c, m)
  <2> DEFINE m == [player |-> c, view |-> v, id |-> nextId]
  <2>1. m \in Message /\ m.player = c /\ m.id = nextId
    BY DEF TypeOK, BufferTypeOK, Message
  <2>2. Takes(c, m)
    BY <1>6, <2>1 DEF HandleRPC, NextMessage, EnqueueMessage, Takes
  <2> QED
    BY <2>2
<1>7. CASE \E p \in Conn, v \in View : HandleRemove(c, p, v)
  BY <1>7 DEF HandleRemove, RemoveRPC, RemovePlayerNr, RemoveViewID, Keep,
     roomVars
<1>8. CASE RemovePlayer(c) \/ CountPlayers(c) \/ Renumber(c)
  BY <1>8 DEF RemovePlayer, CountPlayers, Renumber, bufferVars
<1>9. CASE Wipe(c) \/ ForgetPlayer(c)
  BY <1>9 DEF Wipe, ForgetPlayer, RemoveAll, RemovePlayerNr, Keep
<1> QED
  BY <1>1, <1>2, <1>3, <1>4, <1>5, <1>6, <1>7, <1>8, <1>9 DEF ThreadStep,
     Arrival

(* Where the handlers may go.                                              *)
LEMMA JoinKinds ==
  ASSUME TypeOK, NEW c \in Conn, ThreadStep(c) \/ Arrival(c), NEW d \in Conn
  PROVE  /\ pc'[d] \in JoinSteps \cup {"outside"} => pc[d] \in JoinSteps \cup {"outside"}
         /\ ToBuffer(d)' => ToBuffer(d)
         /\ d # c => pc'[d] = pc[d]
<1> USE DEF TypeOK, Goto, ToBuffer
<1>1. CASE CreatePlayer(c) \/ MarkConnected(c) \/ BeginSendBuffered(c)
  BY <1>1 DEF CreatePlayer, MarkConnected, BeginSendBuffered, JoinSteps
<1>2. CASE SendBuffered(c) \/ FinishJoin(c)
  BY <1>2 DEF SendBuffered, FinishJoin, JoinSteps
<1>3. CASE ReceivePacket(c) \/ EndPacket(c) \/ EndBroadcast(c)
  BY <1>3 DEF ReceivePacket, EndPacket, EndBroadcast, JoinSteps
<1>4. CASE RemovePlayer(c) \/ CountPlayers(c)
  BY <1>4 DEF RemovePlayer, CountPlayers, JoinSteps
<1>5. CASE Wipe(c) \/ Renumber(c) \/ ForgetPlayer(c)
  BY <1>5 DEF Wipe, Renumber, ForgetPlayer, JoinSteps
<1>6. CASE \/ \E r \in Conn : Deliver(c, r)
           \/ \E v \in View : HandleRPC(c, v)
           \/ \E p \in Conn, v \in View : HandleRemove(c, p, v)
  BY <1>6 DEF Deliver, HandleRPC, HandleRemove, roomVars
<1> QED
  BY <1>1, <1>2, <1>3, <1>4, <1>5, <1>6 DEF ThreadStep, Arrival

(* What a text more has reached.                                           *)
LEMMA ReachedStep ==
  ASSUME TypeOK, NEW r \in Conn, NEW S \in SUBSET Message, Sends(r, S)
  PROVE  /\ Reached(r)' = Reached(r) \cup S
         /\ \A q \in Conn \ {r} : Reached(q)' = Reached(q)
<1>1. Got' = [Got EXCEPT ![r] = @ \cup S]
  BY GotStep DEF Sends
<1>2. \A q \in Conn : Got[q] = Reached(q) /\ Got'[q] = Reached(q)'
  BY DEF Got
<1> QED
  BY <1>1, <1>2 DEF Got

(* What is sent on was taken up before.                                    *)
LEMMA FreshStep ==
  ASSUME TypeOK, OutgoingInv, FreshInv, NEW c \in Conn, ThreadStep(c) \/ Arrival(c)
  PROVE  FreshInv'
<1>1. nextId \in Nat /\ messageQueue \in SUBSET Message
      /\ outgoing \in [Conn -> SUBSET Message]
  BY DEF TypeOK, BufferTypeOK
<1>2. \A m \in Message : m.id \in Nat
  BY DEF Message
<1>3. /\ nextId' \in Nat /\ nextId <= nextId'
      /\ \A m \in messageQueue' : m.id < nextId'
      /\ \A d \in Conn : \A m \in outgoing'[d] : m.id < nextId'
  <2>1. CASE \E m : Takes(c, m)
    <3>1. PICK m : Takes(c, m)
      BY <2>1
    <3>2. \A n \in messageQueue' : n = m \/ n \in messageQueue
      BY <3>1 DEF Takes
    <3>3. \A d \in Conn : \A n \in outgoing'[d] : n = m \/ n \in outgoing[d]
      BY <1>1, <3>1 DEF Takes
    <3>4. nextId' = nextId + 1 /\ m.id = nextId
      BY <3>1 DEF Takes
    <3>5. \A n \in Message : n.id < nextId => n.id < nextId'
      BY <1>1, <1>2, <3>4
    <3>6. \A n \in messageQueue' : n.id < nextId'
      BY <1>1, <3>2, <3>4, <3>5 DEF FreshInv
    <3>7. \A d \in Conn : \A n \in outgoing'[d] : n.id < nextId'
      BY <1>1, <3>3, <3>4, <3>5 DEF FreshInv
    <3> QED
      BY <1>1, <3>4, <3>6, <3>7
  <2>2. CASE ~\E m : Takes(c, m)
    <3>1. /\ nextId' = nextId
          /\ messageQueue' \subseteq messageQueue
          /\ \A d \in Conn : outgoing'[d] = outgoing[d] \/ outgoing'[d] = {}
      BY <2>2, BufferKinds
    <3> QED
      BY <1>1, <3>1 DEF FreshInv
  <2> QED
    BY <2>1, <2>2
<1>4. \A d \in Conn : \A m \in Reached(d)' : m \in Message /\ m.id < nextId
  <2>1. \A d \in Conn : Reached(d) \subseteq Message
    BY DEF TypeOK, Reached
  <2>2. CASE received' = received
    BY <2>1, <2>2 DEF FreshInv, Reached
  <2>3. CASE Sends(c, messageQueue)
    BY <1>1, <2>1, <2>3, ReachedStep DEF FreshInv
  <2>4. ASSUME NEW r \in todo[c], Sends(r, outgoing[c])
        PROVE  \A d \in Conn : \A m \in Reached(d)' : m \in Message /\ m.id < nextId
    <3>1. r \in Conn
      BY DEF TypeOK
    <3> QED
      BY <1>1, <2>1, <2>4, <3>1, ReachedStep DEF FreshInv
  <2> QED
    BY <2>2, <2>3, <2>4, TextKinds
<1>5. \A d \in Conn : \A m \in Reached(d)' : m.id < nextId'
  BY <1>1, <1>2, <1>3, <1>4
<1> QED
  BY <1>3, <1>5 DEF FreshInv

(* Deliver skips who is not connected; the buffer comes after              *)
(* MarkConnected.                                                          *)
LEMMA EarlyStep ==
  ASSUME TypeOK, EarlyInv, NEW c \in Conn, ThreadStep(c) \/ Arrival(c)
  PROVE  EarlyInv'
<1> USE DEF TypeOK, EarlyInv, Goto
<1>1. CASE CreatePlayer(c) \/ MarkConnected(c) \/ BeginSendBuffered(c)
  BY <1>1 DEF CreatePlayer, MarkConnected, BeginSendBuffered
<1>2. CASE SendBuffered(c) \/ FinishJoin(c)
  BY <1>2 DEF SendBuffered, FinishJoin
<1>3. CASE ReceivePacket(c) \/ EndPacket(c) \/ EndBroadcast(c)
  BY <1>3 DEF ReceivePacket, EndPacket, EndBroadcast
<1>4. CASE RemovePlayer(c) \/ CountPlayers(c)
  BY <1>4 DEF RemovePlayer, CountPlayers
<1>5. CASE Wipe(c) \/ Renumber(c) \/ ForgetPlayer(c)
  BY <1>5 DEF Wipe, Renumber, ForgetPlayer
<1>6. CASE \/ \E v \in View : HandleRPC(c, v)
           \/ \E p \in Conn, v \in View : HandleRemove(c, p, v)
  BY <1>6 DEF HandleRPC, HandleRemove, roomVars
<1>7. CASE \E r \in Conn : Deliver(c, r)
  BY <1>7 DEF Deliver
<1> QED
  BY <1>1, <1>2, <1>3, <1>4, <1>5, <1>6, <1>7 DEF ThreadStep, Arrival

(* The buffer a player gets has nothing of its own, as it has not been in  *)
(* the room; its broadcast skips it (TodoInv).                             *)
LEMMA OwnStep ==
  ASSUME TypeOK, OutgoingInv, TodoInv, OwnInv, NEW c \in Conn,
         ThreadStep(c) \/ Arrival(c)
  PROVE  OwnInv'
<1>1. messageQueue \in SUBSET Message /\ outgoing[c] \in SUBSET Message
      /\ \A m \in Message : m.player \in Conn
  BY DEF TypeOK, BufferTypeOK, Message
<1>2. \A m \in messageQueue' : pc'[m.player] \notin JoinSteps \cup {"outside"}
  <2>1. \A m \in messageQueue' :
          /\ m.player \in Conn
          /\ pc[m.player] \notin JoinSteps \cup {"outside"}
    <3>1. ASSUME NEW m, Takes(c, m)
          PROVE  \A n \in messageQueue' :
                   /\ n.player \in Conn
                   /\ pc[n.player] \notin JoinSteps \cup {"outside"}
      BY <1>1, <3>1 DEF Takes, OwnInv, JoinSteps
    <3>2. CASE messageQueue' \subseteq messageQueue
      BY <1>1, <3>2 DEF OwnInv
    <3> QED
      BY <3>1, <3>2, BufferKinds
  <2> QED
    BY <2>1, JoinKinds
<1>3. \A r \in Conn : \A m \in Reached(r)' : m.player # r
  <2>1. CASE received' = received
    BY <2>1 DEF OwnInv, Reached
  <2>2. CASE SendBuffered(c) /\ Sends(c, messageQueue)
    <3>1. pc[c] \in JoinSteps
      BY <2>2 DEF SendBuffered, Goto, JoinSteps
    <3>2. \A m \in messageQueue : m.player # c
      BY <3>1 DEF OwnInv
    <3> QED
      BY <1>1, <2>2, <3>2, ReachedStep DEF OwnInv
  <2>3. ASSUME NEW r \in todo[c], Sends(r, outgoing[c])
        PROVE  \A q \in Conn : \A m \in Reached(q)' : m.player # q
    <3>1. r \in Conn /\ r # c
      BY DEF TypeOK, TodoInv
    <3>2. \A m \in outgoing[c] : m.player # r
      BY <3>1 DEF OutgoingInv
    <3> QED
      BY <1>1, <2>3, <3>1, <3>2, ReachedStep DEF OwnInv
  <2> QED
    BY <2>1, <2>2, <2>3, TextKinds
<1> QED
  BY <1>2, <1>3 DEF OwnInv

(* A message taken up has the highest id and joins its sender's packet.    *)
LEMMA PacketStep ==
  ASSUME TypeOK, OutgoingInv, FreshInv, PacketInv, NEW c \in Conn,
         ThreadStep(c) \/ Arrival(c)
  PROVE  PacketInv'
<1>1. /\ nextId \in Nat /\ messageQueue \in SUBSET Message
      /\ outgoing \in [Conn -> SUBSET Message]
      /\ \A m \in Message : m.id \in Nat
  BY DEF TypeOK, BufferTypeOK, Message
<1>2. ASSUME NEW k, Takes(c, k)
      PROVE  PacketInv'
  <2>1. SUFFICES ASSUME NEW d \in Conn, NEW m \in outgoing'[d],
                        NEW n \in messageQueue', n.player = d, m.id < n.id
                 PROVE  n \in outgoing'[d]
    BY DEF PacketInv
  <2>2. /\ messageQueue' = messageQueue \cup {k}
        /\ k.player = c /\ k.id = nextId
        /\ outgoing'[c] = outgoing[c] \cup {k}
        /\ \A e \in Conn \ {c} : outgoing'[e] = outgoing[e]
    BY <1>1, <1>2 DEF Takes
  <2>3. CASE n = k
    BY <2>1, <2>2, <2>3
  <2>4. CASE n # k
    <3>1. n \in messageQueue /\ n.id < nextId /\ n.id \in Nat
      BY <1>1, <2>2, <2>4 DEF FreshInv
    <3>2. m # k
      BY <1>1, <2>1, <2>2, <3>1
    <3>3. m \in outgoing[d]
      BY <2>2, <3>2
    <3> QED
      BY <2>1, <2>2, <3>1, <3>3 DEF PacketInv
  <2> QED
    BY <2>3, <2>4
<1>3. ASSUME messageQueue' \subseteq messageQueue,
             \A d \in Conn : outgoing'[d] = outgoing[d] \/ outgoing'[d] = {}
      PROVE  PacketInv'
  BY <1>3 DEF PacketInv
<1> QED
  BY <1>2, <1>3, BufferKinds

(* But for a player who enters and a message taken up, no step makes a     *)
(* text due.                                                               *)
LEMMA DueFalls ==
  ASSUME TypeOK, OutgoingInv, NEW c \in Conn, ThreadStep(c) \/ Arrival(c),
         NEW r \in Conn, NEW m \in Message,
         CreatePlayer(c) => r # c, ~Takes(c, m)
  PROVE  Due(r, m)' <= Due(r, m)
<1>0. /\ m.player \in Conn /\ outgoing \in [Conn -> SUBSET Message]
      /\ todo \in [Conn -> SUBSET Conn] /\ pc \in [Conn -> Steps]
      /\ ToBuffer(r)' => ToBuffer(r)
  BY JoinKinds DEF TypeOK, Message
<1> USE DEF Goto, ToDeliver
<1>1. CASE CreatePlayer(c)
  <2>1. \A w \in Conn : todo'[w] \subseteq todo[w] \cup {c}
    BY <1>0, <1>1 DEF CreatePlayer
  <2>2. /\ outgoing' = outgoing /\ pc[c] = "outside" /\ pc'[c] = "created"
        /\ \A w \in Conn \ {c} : pc'[w] = pc[w]
    BY <1>0, <1>1 DEF CreatePlayer
  <2>3. outgoing[c] = {} /\ r # c
    BY <1>1, <2>2 DEF OutgoingInv, PacketSteps
  <2>4. ToDeliver(r, m)' => ToDeliver(r, m)
    BY <1>0, <2>1, <2>2, <2>3
  <2> QED
    BY <1>0, <2>4 DEF Due
<1>2. CASE \E v \in View : HandleRPC(c, v)
  <2>1. PICK v \in View : HandleRPC(c, v)
    BY <1>2
  <2> DEFINE n == [player |-> c, view |-> v, id |-> nextId]
  <2>2. n \in Message /\ n.player = c /\ n.id = nextId
    BY DEF TypeOK, BufferTypeOK, Message
  <2>3. Takes(c, n)
    BY <2>1, <2>2 DEF HandleRPC, NextMessage, EnqueueMessage, Takes
  <2>4. n # m
    BY <2>3
  <2>5. /\ outgoing' = [outgoing EXCEPT ![c] = @ \cup {n}]
        /\ UNCHANGED <<pc, todo>>
    BY <2>3 DEF Takes
  <2>6. ToDeliver(r, m)' => ToDeliver(r, m)
    BY <1>0, <2>4, <2>5
  <2> QED
    BY <1>0, <2>6 DEF Due
<1>3. CASE MarkConnected(c) \/ BeginSendBuffered(c) \/ SendBuffered(c)
           \/ FinishJoin(c)
  <2>1. /\ outgoing' = outgoing /\ todo' = todo
        /\ pc[c] # "broadcasting" /\ \A w \in Conn \ {c} : pc'[w] = pc[w]
    BY <1>0, <1>3 DEF MarkConnected, BeginSendBuffered, SendBuffered,
       FinishJoin
  <2>2. ToDeliver(r, m)' => ToDeliver(r, m)
    BY <1>0, <2>1
  <2> QED
    BY <1>0, <2>2 DEF Due
<1>4. CASE ReceivePacket(c) \/ EndPacket(c)
  <2>1. /\ outgoing' = outgoing /\ \A w \in Conn \ {c} : todo'[w] = todo[w]
        /\ pc[c] # "broadcasting" /\ \A w \in Conn \ {c} : pc'[w] = pc[w]
    BY <1>0, <1>4 DEF ReceivePacket, EndPacket
  <2>2. ToDeliver(r, m)' => ToDeliver(r, m)
    BY <1>0, <2>1
  <2> QED
    BY <1>0, <2>2 DEF Due
<1>5. CASE EndBroadcast(c)
  <2>1. /\ outgoing'[c] = {} /\ \A w \in Conn \ {c} : outgoing'[w] = outgoing[w]
        /\ todo' = todo /\ \A w \in Conn \ {c} : pc'[w] = pc[w]
    BY <1>0, <1>5 DEF EndBroadcast
  <2>2. ToDeliver(r, m)' => ToDeliver(r, m)
    BY <1>0, <2>1
  <2> QED
    BY <1>0, <2>2 DEF Due
<1>6. CASE \/ \E q \in Conn : Deliver(c, q)
           \/ \E p \in Conn, v \in View : HandleRemove(c, p, v)
  <2>1. /\ outgoing' = outgoing /\ pc' = pc
        /\ \A w \in Conn : todo'[w] \subseteq todo[w]
    BY <1>0, <1>6 DEF Deliver, HandleRemove, roomVars
  <2>2. ToDeliver(r, m)' => ToDeliver(r, m)
    BY <1>0, <2>1
  <2> QED
    BY <1>0, <2>2 DEF Due
<1>7. CASE \/ RemovePlayer(c) \/ CountPlayers(c) \/ Wipe(c) \/ Renumber(c)
           \/ ForgetPlayer(c)
  <2>1. /\ outgoing' = outgoing /\ pc[c] # "broadcasting"
        /\ \A w \in Conn : todo'[w] \subseteq todo[w]
        /\ \A w \in Conn \ {c} : pc'[w] = pc[w]
    BY <1>0, <1>7 DEF RemovePlayer, CountPlayers, Wipe, Renumber,
       ForgetPlayer
  <2>2. ToDeliver(r, m)' => ToDeliver(r, m)
    BY <1>0, <2>1
  <2> QED
    BY <1>0, <2>2 DEF Due
<1> QED
  BY <1>1, <1>2, <1>3, <1>4, <1>5, <1>6, <1>7 DEF ThreadStep, Arrival

(* A text more is a copy more at most.                                     *)
LEMMA OneMore ==
  ASSUME TypeOK, NEW r \in Conn, NEW S \in SUBSET Message, Sends(r, S), NEW m
  PROVE  /\ Cardinality(Copies(r, m)') <= Cardinality(Copies(r, m)) + 1
         /\ Cardinality(Copies(r, m)') \in Nat
<1>1. CASE m \in S
  <2>1. Copies(r, m)' = Copies(r, m) \cup {Len(received[r]) + 1}
    BY <1>1, CopiesStep
  <2>2. /\ IsFiniteSet(Copies(r, m)) /\ Cardinality(Copies(r, m)) \in Nat
    BY CopiesPlaces
  <2>3. \/ Cardinality(Copies(r, m)') = Cardinality(Copies(r, m))
        \/ Cardinality(Copies(r, m)') = Cardinality(Copies(r, m)) + 1
    BY <2>1, <2>2, FS_AddElement
  <2> QED
    BY <2>2, <2>3
<1>2. CASE m \notin S
  <2>1. Copies(r, m)' = Copies(r, m)
    BY <1>2, CopiesStep
  <2>2. Cardinality(Copies(r, m)) \in Nat
    BY CopiesPlaces
  <2> QED
    BY <2>1, <2>2
<1> QED
  BY <1>1, <1>2

(* A text more is one that was due: SendBuffered ends ToBuffer, Deliver    *)
(* takes r from the loop.                                                  *)
LEMMA DueStep ==
  ASSUME TypeOK, OutgoingInv, TodoInv, FreshInv, EarlyInv, DueInv,
         NEW c \in Conn, ThreadStep(c) \/ Arrival(c)
  PROVE  DueInv'
<1> SUFFICES ASSUME NEW r \in Conn, NEW m \in Message
             PROVE  Cardinality(Copies(r, m)') + Due(r, m)' <= 2
  BY DEF DueInv
<1>0. /\ Due(r, m) \in 0 .. 2 /\ Due(r, m)' \in 0 .. 2
      /\ Cardinality(Copies(r, m)) \in Nat
      /\ Cardinality(Copies(r, m)) + Due(r, m) <= 2
  BY CopiesPlaces DEF Due, DueInv
(* Nobody has a copy yet. *)
<1>1. ASSUME Copies(r, m) = {}, received' = received
      PROVE  Cardinality(Copies(r, m)') + Due(r, m)' <= 2
  <2>1. Copies(r, m)' = {}
    BY <1>1 DEF Copies
  <2> QED
    BY <1>0, <2>1, FS_EmptySet
<1>2. CASE CreatePlayer(c) /\ r = c
  <2>1. received[r] = <<>> /\ received' = received
    BY <1>2 DEF CreatePlayer, Goto, EarlyInv
  <2> QED
    BY <1>1, <2>1 DEF Copies
<1>3. CASE Takes(c, m)
  <2>1. m \notin Reached(r)
    BY <1>3 DEF Takes, FreshInv, TypeOK, BufferTypeOK
  <2>2. Copies(r, m) = {} /\ received' = received
    BY <1>3, <2>1 DEF Copies, Reached, Takes
  <2> QED
    BY <1>1, <2>2
<1>4. CASE ~(CreatePlayer(c) /\ r = c) /\ ~Takes(c, m)
  <2>1. Due(r, m)' <= Due(r, m)
    BY <1>4, DueFalls
  <2>2. ASSUME Copies(r, m)' = Copies(r, m)
        PROVE  Cardinality(Copies(r, m)') + Due(r, m)' <= 2
    BY <1>0, <2>1, <2>2
  <2>3. ASSUME NEW S \in SUBSET Message, Sends(r, S), Due(r, m)' < Due(r, m)
        PROVE  Cardinality(Copies(r, m)') + Due(r, m)' <= 2
    BY <1>0, <2>3, OneMore
  <2>4. CASE received' = received
    BY <2>2, <2>4 DEF Copies
  <2>5. CASE SendBuffered(c) /\ Sends(c, messageQueue)
    <3>1. messageQueue \in SUBSET Message
      BY DEF TypeOK, BufferTypeOK
    <3>2. CASE r # c
      BY <2>2, <2>5, <3>1, <3>2, CopiesStep
    <3>3. CASE r = c
      <4>1. ToBuffer(c) /\ ~ToBuffer(c)'
        BY <2>5 DEF SendBuffered, Goto, ToBuffer, TypeOK
      <4>2. ToDeliver(r, m)' => ToDeliver(r, m)
        BY <2>5 DEF SendBuffered, Goto, ToDeliver, TypeOK, Message
      <4>3. Due(r, m)' < Due(r, m)
        BY <3>3, <4>1, <4>2 DEF Due
      <4> QED
        BY <2>3, <2>5, <3>1, <3>3, <4>3
    <3> QED
      BY <3>2, <3>3
  <2>6. ASSUME NEW q \in todo[c], Deliver(c, q), Sends(q, outgoing[c])
        PROVE  Cardinality(Copies(r, m)') + Due(r, m)' <= 2
    <3>1. outgoing[c] \in SUBSET Message /\ q \in Conn /\ todo[c] \in SUBSET Conn
      BY DEF TypeOK
    <3>2. CASE r # q \/ m \notin outgoing[c]
      <4>1. Copies(r, m)' = Copies(r, m)
        BY <2>6, <3>1, <3>2, CopiesStep
      <4> QED
        BY <2>2, <4>1
    <3>3. CASE r = q /\ m \in outgoing[c]
      <4>1. m.player = c
        BY <3>3 DEF OutgoingInv
      <4>2. /\ pc[c] = "broadcasting" /\ pc' = pc /\ outgoing' = outgoing
            /\ q \in todo[c] /\ q \notin todo'[c]
        BY <2>6, <3>1 DEF Deliver, TypeOK
      <4>3. ToDeliver(r, m) /\ ~ToDeliver(r, m)'
        BY <3>3, <4>1, <4>2 DEF ToDeliver
      <4>4. ToBuffer(r)' = ToBuffer(r)
        BY <4>2 DEF ToBuffer
      <4>5. Due(r, m)' < Due(r, m)
        BY <4>3, <4>4 DEF Due
      <4> QED
        BY <2>3, <2>6, <3>1, <3>3, <4>5
    <3> QED
      BY <3>2, <3>3
  <2> QED
    BY <2>4, <2>5, <2>6, TextKinds
<1> QED
  BY <1>2, <1>3, <1>4

(* The buffer's text has both messages; a packet's text that has the       *)
(* earlier one has the later one too (PacketInv).                          *)
LEMMA OrderStep ==
  ASSUME TypeOK, OutgoingInv, FreshInv, PacketInv, OrderInv, NEW c \in Conn,
         ThreadStep(c) \/ Arrival(c)
  PROVE  OrderInv'
<1> SUFFICES ASSUME NEW r \in Conn, NEW m \in messageQueue', NEW n \in messageQueue',
                    m \in Reached(r)', n \in Reached(r)',
                    m.player = n.player, m.id < n.id
             PROVE  \E i \in Copies(r, n)' : \A j \in Copies(r, m)' : j <= i
  BY DEF OrderInv
<1>1. messageQueue \in SUBSET Message /\ outgoing[c] \in SUBSET Message
  BY DEF TypeOK, BufferTypeOK
(* Nobody has been sent anything new. *)
<1>2. ASSUME Copies(r, m)' = Copies(r, m), Copies(r, n)' = Copies(r, n),
             m \in messageQueue, n \in messageQueue
      PROVE  \E i \in Copies(r, n)' : \A j \in Copies(r, m)' : j <= i
  <2>1. m \in Reached(r) /\ n \in Reached(r)
    <3>1. Copies(r, m)' # {} /\ Copies(r, n)' # {}
      BY DEF Copies, Reached
    <3> QED
      BY <1>2, <3>1 DEF Copies, Reached
  <2> QED
    BY <1>2, <2>1 DEF OrderInv
<1>3. CASE received' = received
  <2>1. m \in Reached(r) /\ n \in Reached(r)
    BY <1>3 DEF Reached
  <2>2. m.id < nextId /\ n.id < nextId
    BY <2>1 DEF FreshInv
  <2>3. m \in messageQueue /\ n \in messageQueue
    <3>1. ASSUME NEW k, Takes(c, k)
          PROVE  m \in messageQueue /\ n \in messageQueue
      <4>1. /\ messageQueue' = messageQueue \cup {k} /\ k.id = nextId
            /\ nextId \in Nat
        BY <3>1 DEF Takes, TypeOK, BufferTypeOK
      <4>2. m # k /\ n # k
        BY <2>2, <4>1
      <4> QED
        BY <4>1, <4>2
    <3>2. CASE messageQueue' \subseteq messageQueue
      BY <3>2
    <3> QED
      BY <3>1, <3>2, BufferKinds
  <2>4. Copies(r, m)' = Copies(r, m) /\ Copies(r, n)' = Copies(r, n)
    BY <1>3 DEF Copies
  <2> QED
    BY <1>2, <2>3, <2>4
(* The new text has n in it: nothing comes after it. *)
<1>4. ASSUME NEW S \in SUBSET Message, Sends(r, S), n \in S
      PROVE  \E i \in Copies(r, n)' : \A j \in Copies(r, m)' : j <= i
  <2>1. Len(received[r]) + 1 \in Copies(r, n)'
    BY <1>4, CopiesStep
  <2>2. \A j \in Copies(r, m)' : j \in Copies(r, m) \/ j = Len(received[r]) + 1
    BY <1>4, CopiesStep
  <2>3. /\ Len(received[r]) \in Nat
        /\ \A j \in Copies(r, m) : j \in Nat /\ j <= Len(received[r])
    BY CopiesPlaces
  <2>4. \A j \in Copies(r, m)' : j <= Len(received[r]) + 1
    BY <2>2, <2>3
  <2> QED
    BY <2>1, <2>4
<1>5. CASE SendBuffered(c) /\ Sends(c, messageQueue)
  <2>1. messageQueue' = messageQueue
    BY <1>5 DEF SendBuffered, UnlockQueue
  <2>2. CASE r = c
    BY <1>1, <1>4, <1>5, <2>1, <2>2
  <2>3. CASE r # c
    BY <1>1, <1>2, <1>5, <2>1, <2>3, CopiesStep
  <2> QED
    BY <2>2, <2>3
<1>6. ASSUME NEW q \in todo[c], Deliver(c, q), Sends(q, outgoing[c])
      PROVE  \E i \in Copies(r, n)' : \A j \in Copies(r, m)' : j <= i
  <2>1. messageQueue' = messageQueue /\ q \in Conn
    BY <1>6 DEF Deliver, bufferVars, TypeOK
  <2>2. CASE r # q
    BY <1>1, <1>2, <1>6, <2>1, <2>2, CopiesStep
  <2>3. CASE r = q /\ n \in outgoing[c]
    BY <1>1, <1>4, <1>6, <2>3
  <2>4. CASE r = q /\ n \notin outgoing[c]
    <3>1. m \notin outgoing[c]
      BY <2>1, <2>4 DEF OutgoingInv, PacketInv
    <3>2. Copies(r, m)' = Copies(r, m) /\ Copies(r, n)' = Copies(r, n)
      BY <1>1, <1>6, <2>1, <2>4, <3>1, CopiesStep
    <3> QED
      BY <1>2, <2>1, <3>2
  <2> QED
    BY <2>2, <2>3, <2>4
<1> QED
  BY <1>3, <1>5, <1>6, TextKinds

CopiesInv ==
  FreshInv /\ EarlyInv /\ OwnInv /\ PacketInv /\ DueInv /\ OrderInv

(* The inductive invariant, on top of CatchUpInv and TodoInv.              *)
LEMMA CopiesInvariant == Spec => []CopiesInv
<1>1. Init => CopiesInv
  <2> SUFFICES ASSUME Init
               PROVE  CopiesInv
    OBVIOUS
  <2>1. /\ messageQueue = {} /\ \A c \in Conn : outgoing[c] = {} /\ received[c] = <<>>
        /\ \A c \in Conn : ~isConnected[c]
    BY DEF Init, BufferInit
  <2>2. \A r \in Conn : Reached(r) = {} /\ \A m : Copies(r, m) = {}
    BY <2>1 DEF Reached, Copies
  <2>3. FreshInv /\ EarlyInv /\ OwnInv /\ PacketInv /\ OrderInv
    BY <2>1, <2>2 DEF FreshInv, EarlyInv, OwnInv, PacketInv, OrderInv
  <2>4. \A r \in Conn, m \in Message : Cardinality(Copies(r, m)) = 0
    BY <2>2, FS_EmptySet
  <2>5. \A r \in Conn, m \in Message : Due(r, m) <= 2
    BY DEF Due
  <2>6. DueInv
    <3>1. \A r \in Conn, m \in Message : Due(r, m) \in 0 .. 2
      BY DEF Due
    <3> QED
      BY <2>4, <3>1 DEF DueInv
  <2> QED
    BY <2>3, <2>6 DEF CopiesInv
<1>2. TypeOK /\ CatchUpInv /\ TodoInv /\ CopiesInv /\ [Next]_vars => CopiesInv'
  <2> SUFFICES ASSUME TypeOK, CatchUpInv, TodoInv, CopiesInv, [Next]_vars
               PROVE  CopiesInv'
    OBVIOUS
  <2>1. CASE UNCHANGED vars
    <3>1. UNCHANGED <<messageQueue, nextId, pc, isConnected, outgoing, todo, received>>
      BY <2>1 DEF vars, bufferVars, roomVars
    <3>2. \A r, m : /\ Copies(r, m)' = Copies(r, m) /\ Reached(r)' = Reached(r)
                    /\ Due(r, m)' = Due(r, m)
      BY <3>1 DEF Copies, Reached, Due, ToBuffer, ToDeliver
    <3> QED
      BY <3>1, <3>2 DEF CopiesInv, FreshInv, EarlyInv, OwnInv, PacketInv,
                        DueInv, OrderInv
  <2>2. ASSUME NEW c \in Conn, ThreadStep(c) \/ Arrival(c)
        PROVE  CopiesInv'
    BY <2>2, FreshStep, EarlyStep, OwnStep, PacketStep, DueStep, OrderStep
       DEF CopiesInv, CatchUpInv
  <2> QED
    BY <2>1, <2>2 DEF Next
<1> QED
  BY <1>1, <1>2, TypeCorrect, CatchUpInvariant, TodoInvariant, PTL DEF Spec

(* A client is sent a message at most twice and never its own, whatever    *)
(* the order of EnqueueMessage, BroadcastMessageExcept, isConnected and    *)
(* the sending of the buffer (EchoThreadMain, SendBufferedMessages).       *)
THEOREM SentTwiceAtMost == Spec => []TwiceAtMost
<1>1. TypeOK /\ OwnInv /\ DueInv => TwiceAtMost
  <2> SUFFICES ASSUME TypeOK, OwnInv, DueInv, NEW r \in Conn, NEW m \in Reached(r)
               PROVE  Cardinality(Copies(r, m)) <= 2 /\ m.player # r
    BY DEF TwiceAtMost
  <2>1. m \in Message
    BY DEF TypeOK, Reached
  <2>2. /\ Cardinality(Copies(r, m)) \in Nat /\ Due(r, m) \in 0 .. 2
        /\ Cardinality(Copies(r, m)) + Due(r, m) <= 2
    BY <2>1, CopiesPlaces DEF Due, DueInv
  <2> QED
    BY <2>2 DEF OwnInv
<1> QED
  BY <1>1, TypeCorrect, CopiesInvariant, PTL DEF CopiesInv

(* The last copy of a player's later message comes no sooner than the last *)
(* copy of an earlier one, as long as both are buffered: a client that     *)
(* applies every copy ends with the later one (EnqueueMessage before the   *)
(* broadcast, the whole list as one text, one packet at a time).           *)
THEOREM LaterMessageWins == Spec => []LaterWins
<1>1. TypeOK /\ OrderInv => LaterWins
  BY DEF OrderInv, LaterWins, CaughtUp, Members
<1> QED
  BY <1>1, TypeCorrect, CopiesInvariant, PTL DEF CopiesInv
=============================================================================
