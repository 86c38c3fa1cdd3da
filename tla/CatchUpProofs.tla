--------------------------- MODULE CatchUpProofs ---------------------------
(***************************************************************************)
(* What CatchUp guarantees for every set of connections and views, every   *)
(* pack limit and every number of messages.                                *)
(***************************************************************************)
EXTENDS CatchUp, TLAPS

---------------------------------------------------------------------------
(* Type correctness.                                                       *)

(* The steps of the accept thread keep every variable in its type.         *)
LEMMA JoinTypes ==
  ASSUME TypeOK, NEW c \in Conn,
         \/ CreatePlayer(c) \/ MarkConnected(c) \/ BeginSendBuffered(c)
         \/ SendBuffered(c) \/ FinishJoin(c)
  PROVE  TypeOK'
<1> USE DEF TypeOK, Goto, Steps, JoinSteps, historyVars, numberVars
<1>1. CASE CreatePlayer(c)
  <2> DEFINE n == nextActorNumber
             added == {p \in {c} : Lookup(n) = {}}
  <2>1. PICK seen \in SUBSET {w \in Conn : todo[w] # {} /\ actorNumber[w] # n} :
          todo' = [w \in Conn |-> IF w \in seen THEN todo[w] \cup added
                                                ELSE todo[w]]
    BY <1>1 DEF CreatePlayer
  <2>2. added \subseteq Conn
    OBVIOUS
  <2>3. todo' \in [Conn -> SUBSET Conn]
    BY <2>1, <2>2
  <2>4. actorNumber' \in [Conn -> Nat] /\ nextActorNumber' \in Nat \ {0}
    BY <1>1 DEF CreatePlayer
  <2>5. playerHash' \in SUBSET Conn
    BY <1>1, <2>2 DEF CreatePlayer
  <2>6. clashed' \in BOOLEAN
    BY <1>1 DEF CreatePlayer
  <2> QED
    BY <1>1, <2>3, <2>4, <2>5, <2>6 DEF CreatePlayer, BufferTypeOK, bufferVars
<1>2. CASE MarkConnected(c)
  BY <1>2 DEF MarkConnected, BufferTypeOK, bufferVars
<1>3. CASE BeginSendBuffered(c)
  BY <1>3 DEF BeginSendBuffered, LockQueue, BufferTypeOK
<1>4. CASE SendBuffered(c)
  <2>1. BufferTypeOK' /\ pc' \in [Conn -> Steps]
    BY <1>4 DEF SendBuffered, UnlockQueue, BufferTypeOK
  <2>2. Append(received[c], messageQueue) \in Seq(SUBSET Message)
    BY DEF BufferTypeOK
  <2>3. received' \in [Conn -> Seq(SUBSET Message)]
    BY <1>4, <2>2 DEF SendBuffered
  <2> QED
    BY <1>4, <2>1, <2>3 DEF SendBuffered
<1>5. CASE FinishJoin(c)
  BY <1>5 DEF FinishJoin, BufferTypeOK, bufferVars
<1> QED
  BY <1>1, <1>2, <1>3, <1>4, <1>5

(* The steps of a worker with a packet keep every variable in its type.    *)
LEMMA PacketTypes ==
  ASSUME TypeOK, NEW c \in Conn, NEW r \in Conn,
         \/ ReceivePacket(c)
         \/ \E v \in View : HandleRPC(c, v) \/ HandleRemove(c, r, v)
         \/ EndPacket(c) \/ Deliver(c, r) \/ EndBroadcast(c)
  PROVE  TypeOK'
<1> USE DEF TypeOK, Goto, Steps, PacketSteps, historyVars, numberVars
<1>1. CASE ReceivePacket(c)
  BY <1>1 DEF ReceivePacket, BufferTypeOK, bufferVars
<1>2. ASSUME NEW v \in View, HandleRPC(c, v)
      PROVE  TypeOK'
  <2> DEFINE m == [player |-> c, view |-> v, id |-> nextId]
  <2>1. m \in Message
    BY DEF BufferTypeOK, Message
  <2>2. BufferTypeOK'
    BY <1>2, <2>1 DEF HandleRPC, EnqueueMessage, BufferTypeOK
  <2>3. outgoing' \in [Conn -> SUBSET Message]
    BY <1>2, <2>1 DEF HandleRPC
  <2>4. handled' \in 0 .. MaxMessages
    BY <1>2, CatchUpAssumption DEF HandleRPC, NextMessage
  <2> QED
    BY <1>2, <2>2, <2>3, <2>4 DEF HandleRPC, NextMessage
<1>3. ASSUME NEW v \in View, HandleRemove(c, r, v)
      PROVE  TypeOK'
  <2>1. BufferTypeOK'
    BY <1>3 DEF HandleRemove, RemoveRPC, RemovePlayerNr, RemoveViewID, Keep,
                BufferTypeOK
  <2>2. removed' \in SUBSET Message
    BY <1>3 DEF HandleRemove, BufferTypeOK
  <2>3. handled' \in 0 .. MaxMessages
    BY <1>3, CatchUpAssumption DEF HandleRemove, NextMessage
  <2> QED
    BY <1>3, <2>1, <2>2, <2>3 DEF HandleRemove, NextMessage, roomVars
<1>4. CASE EndPacket(c)
  BY <1>4 DEF EndPacket, BufferTypeOK, bufferVars
<1>5. CASE Deliver(c, r)
  <2>1. Append(received[r], outgoing[c]) \in Seq(SUBSET Message)
    OBVIOUS
  <2>2. received' \in [Conn -> Seq(SUBSET Message)]
    BY <1>5, <2>1 DEF Deliver
  <2> QED
    BY <1>5, <2>2 DEF Deliver, BufferTypeOK, bufferVars
<1>6. CASE EndBroadcast(c)
  BY <1>6 DEF EndBroadcast, BufferTypeOK, bufferVars
<1> QED
  BY <1>1, <1>2, <1>3, <1>4, <1>5, <1>6

(* The steps of a worker with a disconnect keep every variable in its type.*)
LEMMA CloseTypes ==
  ASSUME TypeOK, NEW c \in Conn,
         \/ RemovePlayer(c) \/ CountPlayers(c) \/ Wipe(c) \/ Renumber(c)
         \/ ForgetPlayer(c)
  PROVE  TypeOK'
<1> USE DEF TypeOK, Goto, Steps, CloseSteps, historyVars, numberVars
<1>1. CASE RemovePlayer(c)
  BY <1>1 DEF RemovePlayer, BufferTypeOK, bufferVars
<1>2. CASE CountPlayers(c)
  BY <1>2 DEF CountPlayers, BufferTypeOK, bufferVars
<1>3. CASE Wipe(c)
  BY <1>3 DEF Wipe, RemoveAll, Keep, BufferTypeOK
<1>4. CASE ForgetPlayer(c)
  BY <1>4 DEF ForgetPlayer, RemovePlayerNr, Keep, BufferTypeOK
<1>5. CASE Renumber(c)
  BY <1>5 DEF Renumber, BufferTypeOK, bufferVars
<1> QED
  BY <1>1, <1>2, <1>3, <1>4, <1>5

(* Every variable of CatchUp keeps its type.                               *)
THEOREM TypeCorrect == Spec => []TypeOK
<1>1. Init => TypeOK
  <2> SUFFICES ASSUME Init
               PROVE  TypeOK
    OBVIOUS
  <2>1. BufferTypeOK /\ actorNumber \in [Conn -> Nat]
    BY DEF Init, BufferInit, BufferTypeOK
  <2>2. <<>> \in Seq(SUBSET Message)
    OBVIOUS
  <2>3. received \in [Conn -> Seq(SUBSET Message)]
    BY <2>2 DEF Init
  <2>4. handled \in 0 .. MaxMessages
    BY CatchUpAssumption DEF Init
  <2>5. nextActorNumber \in Nat \ {0}
    BY DEF Init
  <2> QED
    BY <2>1, <2>3, <2>4, <2>5 DEF Init, TypeOK, Steps
<1>2. TypeOK /\ [Next]_vars => TypeOK'
  <2> SUFFICES ASSUME TypeOK, [Next]_vars
               PROVE  TypeOK'
    OBVIOUS
  <2>1. CASE UNCHANGED vars
    BY <2>1 DEF vars, bufferVars, numberVars, roomVars, historyVars, TypeOK, BufferTypeOK
  <2>2. ASSUME NEW c \in Conn, ThreadStep(c)
        PROVE  TypeOK'
    BY <2>2, JoinTypes, PacketTypes, CloseTypes DEF ThreadStep
  <2>3. ASSUME NEW c \in Conn, Arrival(c)
        PROVE  TypeOK'
    BY <2>3, JoinTypes, PacketTypes, CloseTypes DEF Arrival
  <2> QED
    BY <2>1, <2>2, <2>3 DEF Next
<1> QED
  BY <1>1, <1>2, PTL DEF Spec

---------------------------------------------------------------------------
(* Nothing stays buffered of a player who has left.                        *)

(* The inductive form of NoneLeftBehind: RemoveAll comes before Reset.     *)
NoneLeftInv == \A m \in messageQueue : pc[m.player] \notin {"renumbering", "gone"}

(* A step that leaves the buffer alone or shrinks it, and takes nobody past*)
(* the removal, leaves nobody's messages behind.                           *)
LEMMA NoneLeftStep ==
  ASSUME TypeOK, NoneLeftInv, messageQueue' \in SUBSET messageQueue,
         \A c \in Conn : pc'[c] \in {"renumbering", "gone"} =>
                           pc[c] \in {"renumbering", "gone"}
  PROVE  NoneLeftInv'
BY DEF TypeOK, BufferTypeOK, Message, NoneLeftInv

(* When a disconnect is over, no message of its player is buffered, and    *)
(* none is buffered later.                                                 *)
THEOREM LeavesNothing == Spec => []NoneLeftBehind
<1>1. Init => NoneLeftInv
  BY DEF Init, BufferInit, NoneLeftInv
<1>2. TypeOK /\ NoneLeftInv /\ [Next]_vars => NoneLeftInv'
  <2> SUFFICES ASSUME TypeOK, NoneLeftInv, [Next]_vars
               PROVE  NoneLeftInv'
    OBVIOUS
  <2>1. CASE UNCHANGED vars
    BY <2>1 DEF vars, bufferVars, roomVars, NoneLeftInv
  <2>2. ASSUME NEW c \in Conn,
               \/ CreatePlayer(c) \/ MarkConnected(c) \/ FinishJoin(c)
               \/ ReceivePacket(c) \/ EndPacket(c) \/ RemovePlayer(c)
               \/ CountPlayers(c) \/ Renumber(c)
        PROVE  NoneLeftInv'
    <3>1. /\ messageQueue' = messageQueue
          /\ \A d \in Conn \ {c} : pc'[d] = pc[d]
      BY <2>2 DEF TypeOK, CreatePlayer, MarkConnected, FinishJoin,
           ReceivePacket, EndPacket, RemovePlayer, CountPlayers, Renumber,
           Goto, bufferVars
    <3>2. pc'[c] \in {"renumbering", "gone"} => pc[c] \in {"renumbering", "gone"}
      BY <2>2 DEF TypeOK, CreatePlayer, MarkConnected, FinishJoin,
           ReceivePacket, EndPacket, RemovePlayer, CountPlayers, Renumber,
           Goto
    <3> QED
      BY <3>1, <3>2, NoneLeftStep
  <2>3. ASSUME NEW c \in Conn, BeginSendBuffered(c) \/ SendBuffered(c)
        PROVE  NoneLeftInv'
    BY <2>3, NoneLeftStep
       DEF TypeOK, BeginSendBuffered, LockQueue, SendBuffered, UnlockQueue,
           Goto
  <2>4. ASSUME NEW c \in Conn, NEW r \in Conn, Deliver(c, r)
        PROVE  NoneLeftInv'
    BY <2>4, NoneLeftStep DEF TypeOK, Deliver, bufferVars
  <2>5. ASSUME NEW c \in Conn, EndBroadcast(c)
        PROVE  NoneLeftInv'
    BY <2>5, NoneLeftStep DEF TypeOK, EndBroadcast, Goto, bufferVars
  <2>6. ASSUME NEW c \in Conn, NEW v \in View, HandleRPC(c, v)
        PROVE  NoneLeftInv'
    BY <2>6 DEF HandleRPC, NextMessage, EnqueueMessage, NoneLeftInv
  <2>7. ASSUME NEW c \in Conn, NEW p \in Conn, NEW v \in View,
               HandleRemove(c, p, v)
        PROVE  NoneLeftInv'
    BY <2>7, NoneLeftStep
       DEF HandleRemove, RemoveRPC, RemovePlayerNr, RemoveViewID, Keep,
           roomVars
  <2>8. ASSUME NEW c \in Conn, Wipe(c)
        PROVE  NoneLeftInv'
    BY <2>8 DEF Wipe, RemoveAll, Keep, NoneLeftInv
  <2>9. ASSUME NEW c \in Conn, ForgetPlayer(c)
        PROVE  NoneLeftInv'
    BY <2>9 DEF ForgetPlayer, RemovePlayerNr, Keep, playerActorNr, Goto,
                NoneLeftInv, TypeOK, BufferTypeOK, Message
  <2> QED
    BY <2>1, <2>2, <2>3, <2>4, <2>5, <2>6, <2>7, <2>8, <2>9
       DEF Next, ThreadStep, Arrival
<1>3. NoneLeftInv => NoneLeftBehind
  BY DEF NoneLeftInv, NoneLeftBehind
<1> QED
  BY <1>1, <1>2, <1>3, TypeCorrect, PTL DEF Spec

---------------------------------------------------------------------------
(* Nothing is missed by a player who joins.                                *)

(* But for CreatePlayer and RemovePlayer, a step leaves the players and    *)
(* their numbers alone.                                                    *)
LEMMA SamePlayers ==
  ASSUME TypeOK, NEW c \in Conn, ThreadStep(c) \/ Arrival(c),
         ~CreatePlayer(c), ~RemovePlayer(c)
  PROVE  /\ UNCHANGED <<playerHash, actorNumber, clashed>>
         /\ Members' = Members
         /\ Numbered' \subseteq Numbered
<1> USE DEF TypeOK, Goto, Members, Numbered, JoinSteps, PacketSteps,
            numberVars, historyVars
<1>1. CASE MarkConnected(c)
  BY <1>1 DEF MarkConnected
<1>2. CASE BeginSendBuffered(c)
  BY <1>2 DEF BeginSendBuffered
<1>3. CASE SendBuffered(c)
  BY <1>3 DEF SendBuffered
<1>4. CASE FinishJoin(c)
  BY <1>4 DEF FinishJoin
<1>5. CASE ReceivePacket(c)
  BY <1>5 DEF ReceivePacket
<1>6. CASE EndPacket(c)
  BY <1>6 DEF EndPacket
<1>7. CASE EndBroadcast(c)
  BY <1>7 DEF EndBroadcast
<1>8. CASE CountPlayers(c)
  BY <1>8 DEF CountPlayers
<1>9. CASE Wipe(c)
  BY <1>9 DEF Wipe
<1>10. CASE Renumber(c)
  BY <1>10 DEF Renumber
<1>11. CASE ForgetPlayer(c)
  BY <1>11 DEF ForgetPlayer
<1>12. CASE \/ \E r \in Conn : Deliver(c, r)
            \/ \E v \in View : HandleRPC(c, v)
            \/ \E p \in Conn, v \in View : HandleRemove(c, p, v)
  BY <1>12 DEF Deliver, HandleRPC, HandleRemove, roomVars
<1> QED
  BY <1>1, <1>2, <1>3, <1>4, <1>5, <1>6, <1>7, <1>8, <1>9, <1>10, <1>11, <1>12
     DEF ThreadStep, Arrival

(* A player enters with a number that nobody has, or clashes.              *)
LEMMA CreateMembers ==
  ASSUME TypeOK, NEW c \in Conn, CreatePlayer(c)
  PROVE  /\ c \notin Numbered
         /\ Members' = Members \cup {c} /\ Numbered' = Numbered \cup {c}
         /\ actorNumber'[c] = nextActorNumber
         /\ \A d \in Conn \ {c} : actorNumber'[d] = actorNumber[d]
         /\ ~clashed' =>
              ~clashed /\ \A d \in Numbered : actorNumber[d] # nextActorNumber
<1>1. /\ pc[c] = "outside" /\ pc' = [pc EXCEPT ![c] = "created"]
      /\ actorNumber' = [actorNumber EXCEPT ![c] = nextActorNumber]
      /\ clashed' = (clashed \/ \E d \in Numbered :
                                  actorNumber[d] = nextActorNumber)
  BY DEF CreatePlayer, Goto
<1>2. c \notin Numbered
  BY <1>1 DEF Numbered, Members, JoinSteps, PacketSteps
<1>3. Members' = Members \cup {c}
  BY <1>1 DEF TypeOK, Members, JoinSteps, PacketSteps
<1>4. Numbered' = Numbered \cup {c}
  BY <1>1, <1>3 DEF TypeOK, Numbered
<1> QED
  BY <1>1, <1>2, <1>3, <1>4 DEF TypeOK

(* The table holds the players on the server, and the step is the entry or *)
(* the removal of one.                                                     *)
LEMMA TableStep ==
  ASSUME TypeOK, PlayersInv, NEW c \in Conn, ~clashed'
  PROVE  /\ CreatePlayer(c) => playerHash' = playerHash \cup {c}
         /\ RemovePlayer(c) => /\ Lookup(actorNumber[c]) = {c}
                               /\ playerHash' = playerHash \ {c}
<1>1. ASSUME CreatePlayer(c)
      PROVE  playerHash' = playerHash \cup {c}
  <2>1. ~clashed /\ \A d \in Numbered : actorNumber[d] # nextActorNumber
    BY <1>1, CreateMembers
  <2>2. Lookup(nextActorNumber) = {}
    BY <2>1 DEF Lookup, PlayersInv, Numbered
  <2> QED
    BY <1>1, <2>2 DEF CreatePlayer
<1>2. ASSUME RemovePlayer(c)
      PROVE  /\ Lookup(actorNumber[c]) = {c}
             /\ playerHash' = playerHash \ {c}
  <2>1. ~clashed /\ c \in Members
    BY <1>2 DEF RemovePlayer, Goto, Members, historyVars
  <2>2. Lookup(actorNumber[c]) = {c}
    BY <2>1 DEF Lookup, PlayersInv, Numbered
  <2> QED
    BY <1>2, <2>2 DEF RemovePlayer
<1> QED
  BY <1>1, <1>2

(* A player who has been marked connected stays so.                        *)
LEMMA ConnectedStep ==
  ASSUME TypeOK, PlayersInv, NEW c \in Conn, ThreadStep(c) \/ Arrival(c),
         NEW r \in Members', pc'[r] # "created"
  PROVE  isConnected'[r]
<1> USE DEF TypeOK, PlayersInv, Members, JoinSteps, PacketSteps, Goto
<1>0. r \in Conn /\ pc \in [Conn -> Steps]
  OBVIOUS
<1>1. CASE CreatePlayer(c) \/ MarkConnected(c)
  <2>1. CASE CreatePlayer(c)
    BY <1>0, <2>1 DEF CreatePlayer
  <2>2. CASE MarkConnected(c)
    BY <1>0, <2>2 DEF MarkConnected
  <2> QED
    BY <1>1, <2>1, <2>2
<1>2. CASE BeginSendBuffered(c) \/ SendBuffered(c) \/ FinishJoin(c)
  <2>1. UNCHANGED isConnected /\ c \in Members /\ pc[c] # "created"
        /\ \A d \in Conn \ {c} : pc'[d] = pc[d]
    BY <1>2 DEF BeginSendBuffered, SendBuffered, FinishJoin
  <2> QED
    BY <1>0, <2>1
<1>3. CASE ReceivePacket(c) \/ EndPacket(c) \/ EndBroadcast(c)
  <2>1. UNCHANGED isConnected /\ c \in Members /\ pc[c] # "created"
        /\ \A d \in Conn \ {c} : pc'[d] = pc[d]
    BY <1>3 DEF ReceivePacket, EndPacket, EndBroadcast
  <2> QED
    BY <1>0, <2>1
<1>4. CASE RemovePlayer(c) \/ CountPlayers(c)
  <2>1. UNCHANGED isConnected /\ \A d \in Conn \ {c} : pc'[d] = pc[d]
    BY <1>4 DEF RemovePlayer, CountPlayers
  <2>2. pc'[c] \in {"counting", "wiping", "forgetting"}
    BY <1>4 DEF RemovePlayer, CountPlayers
  <2> QED
    BY <1>0, <2>1, <2>2
<1>5. CASE Wipe(c) \/ Renumber(c) \/ ForgetPlayer(c)
  BY <1>5 DEF Wipe, Renumber, ForgetPlayer
<1>6. CASE \/ \E q \in Conn : Deliver(c, q)
           \/ \E v \in View : HandleRPC(c, v)
           \/ \E p \in Conn, v \in View : HandleRemove(c, p, v)
  BY <1>6 DEF Deliver, HandleRPC, HandleRemove, roomVars
<1> QED
  BY <1>1, <1>2, <1>3, <1>4, <1>5, <1>6 DEF ThreadStep, Arrival

(* A step keeps the table in agreement with the points the handlers have   *)
(* reached, and the numbers apart.                                         *)
LEMMA PlayersStep ==
  ASSUME TypeOK, PlayersInv, NEW c \in Conn, ThreadStep(c) \/ Arrival(c)
  PROVE  PlayersInv'
<1>1. \A r \in Members' : pc'[r] # "created" => isConnected'[r]
  BY ConnectedStep
<1>2. ASSUME ~clashed'
      PROVE  /\ playerHash' = Members'
             /\ \A d, e \in Numbered' : actorNumber'[d] = actorNumber'[e] => d = e
  <2>1. CASE CreatePlayer(c)
    <3>1. playerHash' = playerHash \cup {c} /\ ~clashed
      BY <1>2, <2>1, TableStep, CreateMembers
    <3>2. Numbered \subseteq Conn
      BY DEF Numbered, Members
    <3> QED
      BY <1>2, <2>1, <3>1, <3>2, CreateMembers DEF PlayersInv
  <2>2. CASE RemovePlayer(c)
    <3>1. playerHash' = playerHash \ {c}
      BY <1>2, <2>2, TableStep
    <3>2. /\ pc[c] = "reading" /\ pc' = [pc EXCEPT ![c] = "counting"]
          /\ UNCHANGED <<actorNumber, clashed>>
      BY <2>2 DEF RemovePlayer, Goto, numberVars, historyVars
    <3>3. Members' = Members \ {c}
      BY <3>2 DEF TypeOK, Members, JoinSteps, PacketSteps
    <3>4. Numbered' \subseteq Numbered
      BY <3>2, <3>3 DEF TypeOK, Numbered, Members
    <3> QED
      BY <1>2, <3>1, <3>2, <3>3, <3>4 DEF PlayersInv
  <2>3. CASE ~CreatePlayer(c) /\ ~RemovePlayer(c)
    BY <1>2, <2>3, SamePlayers DEF PlayersInv
  <2> QED
    BY <2>1, <2>2, <2>3
<1> QED
  BY <1>1, <1>2 DEF PlayersInv

(* A step leaves messages to broadcast only to a packet under way.         *)
LEMMA OutgoingStep ==
  ASSUME TypeOK, OutgoingInv, NEW c \in Conn, ThreadStep(c) \/ Arrival(c)
  PROVE  OutgoingInv'
<1> USE DEF TypeOK, OutgoingInv, Sent, JoinSteps, PacketSteps, CloseSteps, Goto
<1>1. CASE CreatePlayer(c) \/ MarkConnected(c)
  BY <1>1 DEF CreatePlayer, MarkConnected, historyVars
<1>2. CASE BeginSendBuffered(c) \/ SendBuffered(c) \/ FinishJoin(c)
  <2>1. CASE BeginSendBuffered(c)
    BY <2>1 DEF BeginSendBuffered, historyVars
  <2>2. CASE SendBuffered(c)
    BY <2>2 DEF SendBuffered, historyVars
  <2>3. CASE FinishJoin(c)
    BY <2>3 DEF FinishJoin, historyVars
  <2> QED
    BY <1>2, <2>1, <2>2, <2>3
<1>3. CASE ReceivePacket(c) \/ EndPacket(c)
  <2>1. CASE ReceivePacket(c)
    BY <2>1 DEF ReceivePacket, historyVars
  <2>2. CASE EndPacket(c)
    BY <2>2 DEF EndPacket, historyVars
  <2> QED
    BY <1>3, <2>1, <2>2
<1>4. CASE EndBroadcast(c)
  BY <1>4 DEF EndBroadcast
<1>5. CASE RemovePlayer(c)
  BY <1>5 DEF RemovePlayer, historyVars
<1>6. CASE CountPlayers(c) \/ Wipe(c) \/ Renumber(c) \/ ForgetPlayer(c)
  <2>1. CASE CountPlayers(c)
    <3>1. PICK to \in {"wiping", "forgetting"} : Goto(c, "counting", to)
      BY <2>1 DEF CountPlayers
    <3> QED
      BY <2>1, <3>1 DEF CountPlayers, historyVars
  <2>2. CASE Wipe(c)
    BY <2>2 DEF Wipe, historyVars
  <2>3. CASE ForgetPlayer(c)
    BY <2>3 DEF ForgetPlayer, historyVars
  <2>4. CASE Renumber(c)
    BY <2>4 DEF Renumber, historyVars
  <2> QED
    BY <1>6, <2>1, <2>2, <2>3, <2>4
<1>7. CASE \E v \in View : HandleRPC(c, v)
  BY <1>7 DEF HandleRPC, NextMessage
<1>8. CASE \/ \E r \in Conn : Deliver(c, r)
           \/ \E p \in Conn, v \in View : HandleRemove(c, p, v)
  BY <1>8 DEF Deliver, HandleRemove, roomVars, historyVars
<1> QED
  BY <1>1, <1>2, <1>3, <1>4, <1>5, <1>6, <1>7, <1>8 DEF ThreadStep, Arrival

(* A text sent to r adds its messages to what has reached r and takes      *)
(* nothing from anybody.                                                   *)
LEMMA ReachedGrows ==
  ASSUME TypeOK, NEW r \in Conn, NEW S \in SUBSET Message,
         received' = [received EXCEPT ![r] = Append(@, S)]
  PROVE  /\ S \subseteq Reached(r)'
         /\ \A q \in Conn : Reached(q) \subseteq Reached(q)'
<1>1. received[r] \in Seq(SUBSET Message)
  BY DEF TypeOK
<1>2. received'[r] = Append(received[r], S)
  BY DEF TypeOK
<1>3. /\ Len(received[r]) + 1 \in DOMAIN received'[r]
      /\ received'[r][Len(received[r]) + 1] = S
  BY <1>1, <1>2
<1>4. \A i \in DOMAIN received[r] :
        i \in DOMAIN received'[r] /\ received'[r][i] = received[r][i]
  BY <1>1, <1>2
<1>5. Reached(r) \subseteq Reached(r)'
  BY <1>4 DEF Reached
<1>6. \A q \in Conn \ {r} : Reached(q)' = Reached(q)
  BY DEF Reached, TypeOK
<1> QED
  BY <1>3, <1>5, <1>6 DEF Reached

(* What holds of the players after a step held of them before, but for a   *)
(* player who enters.                                                      *)
LEMMA Before ==
  ASSUME TypeOK, NEW c \in Conn, ThreadStep(c) \/ Arrival(c),
         ~wiped', ~clashed'
  PROVE  /\ ~wiped /\ ~clashed
         /\ Members' \subseteq Members \cup {c}
         /\ ~CreatePlayer(c) => Members' \subseteq Members
<1>1. ~wiped
  <2>1. CASE \E r \in Conn : Deliver(c, r)
    BY <2>1 DEF Deliver, historyVars
  <2>2. CASE \/ \E v \in View : HandleRPC(c, v)
             \/ \E p \in Conn, v \in View : HandleRemove(c, p, v)
    BY <2>2 DEF HandleRPC, HandleRemove
  <2>3. CASE Wipe(c) \/ EndBroadcast(c) \/ CreatePlayer(c)
    BY <2>3 DEF Wipe, EndBroadcast, CreatePlayer
  <2>4. CASE \/ MarkConnected(c) \/ BeginSendBuffered(c) \/ SendBuffered(c)
             \/ FinishJoin(c) \/ ReceivePacket(c) \/ EndPacket(c)
    BY <2>4 DEF MarkConnected, BeginSendBuffered, SendBuffered, FinishJoin,
                ReceivePacket, EndPacket, historyVars
  <2>5. CASE RemovePlayer(c) \/ CountPlayers(c) \/ Renumber(c) \/ ForgetPlayer(c)
    BY <2>5 DEF RemovePlayer, CountPlayers, Renumber, ForgetPlayer, historyVars
  <2> QED
    BY <2>1, <2>2, <2>3, <2>4, <2>5 DEF ThreadStep, Arrival
<1>2. CASE CreatePlayer(c)
  BY <1>1, <1>2, CreateMembers
<1>3. CASE RemovePlayer(c)
  <2>1. ~clashed /\ pc' = [pc EXCEPT ![c] = "counting"]
    BY <1>3 DEF RemovePlayer, Goto, historyVars
  <2>2. Members' \subseteq Members
    BY <2>1 DEF TypeOK, Members, JoinSteps, PacketSteps
  <2> QED
    BY <1>1, <2>1, <2>2
<1>4. CASE ~CreatePlayer(c) /\ ~RemovePlayer(c)
  BY <1>1, <1>4, SamePlayers
<1> QED
  BY <1>2, <1>3, <1>4

(* Whatever was sent is still buffered, or has been removed.               *)
LEMMA KeptStep ==
  ASSUME TypeOK, CatchUpInv, PlayersInv', OutgoingInv',
         NEW c \in Conn, ThreadStep(c) \/ Arrival(c),
         ~wiped', ~clashed', NEW d \in Members', NEW m \in (Sent(d) \ removed)'
  PROVE  m \in messageQueue'
<1>0. /\ ~wiped /\ ~clashed /\ d \in Conn
      /\ d \in Members \cup {c} /\ (~CreatePlayer(c) => d \in Members)
  BY Before DEF Members
<1>1. CASE CreatePlayer(c)
  BY <1>0, <1>1 DEF CreatePlayer, CatchUpInv, ReachInv, OutgoingInv, Sent, bufferVars,
              historyVars, TypeOK, Goto, JoinSteps
<1>2. CASE /\ ~CreatePlayer(c)
           /\ \/ MarkConnected(c) \/ FinishJoin(c) \/ ReceivePacket(c)
              \/ EndPacket(c) \/ CountPlayers(c) \/ Renumber(c)
  BY <1>0, <1>2 DEF MarkConnected, FinishJoin, ReceivePacket, EndPacket,
              CountPlayers, Renumber, CatchUpInv, ReachInv, Sent, bufferVars, historyVars
<1>3. CASE ~CreatePlayer(c) /\ (BeginSendBuffered(c) \/ SendBuffered(c))
  BY <1>0, <1>3 DEF BeginSendBuffered, LockQueue, SendBuffered, UnlockQueue,
              CatchUpInv, ReachInv, Sent, historyVars
<1>4. CASE ~CreatePlayer(c) /\ \E r \in Conn : Deliver(c, r)
  BY <1>0, <1>4 DEF Deliver, CatchUpInv, ReachInv, Sent, bufferVars, historyVars
<1>5. CASE ~CreatePlayer(c) /\ EndBroadcast(c)
  BY <1>0, <1>5 DEF EndBroadcast, CatchUpInv, ReachInv, OutgoingInv, Sent,
              bufferVars, TypeOK
<1>6. CASE ~CreatePlayer(c) /\ RemovePlayer(c)
  BY <1>0, <1>6 DEF RemovePlayer, CatchUpInv, ReachInv, Sent, bufferVars, historyVars
<1>7. CASE ~CreatePlayer(c) /\ \E v \in View : HandleRPC(c, v)
  BY <1>0, <1>7 DEF HandleRPC, EnqueueMessage, CatchUpInv, ReachInv, Sent, TypeOK
<1>8. CASE ~CreatePlayer(c) /\ \E p \in Conn, v \in View : HandleRemove(c, p, v)
  <2>1. /\ UNCHANGED <<outgoing, published>>
        /\ removed' = removed \cup (messageQueue \ messageQueue')
    BY <1>8 DEF HandleRemove, roomVars
  <2>2. m \in messageQueue /\ m \notin removed'
    BY <1>0, <1>8, <2>1 DEF CatchUpInv, ReachInv, Sent
  <2> QED
    BY <2>1, <2>2
<1>9. CASE ~CreatePlayer(c) /\ Wipe(c)
  BY <1>0, <1>9 DEF Wipe, CatchUpInv, PlayersInv
<1>10. CASE ~CreatePlayer(c) /\ ForgetPlayer(c)
  <2>1. /\ pc[c] = "forgetting" /\ c \notin Members
        /\ UNCHANGED <<outgoing, published, removed>>
    BY <1>10 DEF ForgetPlayer, Goto, Members, JoinSteps, PacketSteps,
                 historyVars
  <2>2. m \in messageQueue
    BY <1>0, <2>1 DEF CatchUpInv, ReachInv, Sent, CreatePlayer, Goto
  <2>3. m.player = d
    BY <1>0 DEF OutgoingInv, Sent
  <2>4. actorNumber[d] # actorNumber[c]
    BY <1>0, <2>1 DEF CatchUpInv, PlayersInv, Numbered, CreatePlayer, Goto
  <2> QED
    BY <1>10, <2>2, <2>3, <2>4 DEF ForgetPlayer, RemovePlayerNr, Keep,
                                   playerActorNr
<1> QED
  BY <1>1, <1>2, <1>3, <1>4, <1>5, <1>6, <1>7, <1>8, <1>9, <1>10
     DEF ThreadStep, Arrival

(* What a step owes r, who has had the buffer, of d's message m.           *)
ReachedOrComing(d, m, r) ==
  \/ m \in Reached(r)
  \/ m \notin published /\ (pc[d] = "broadcasting" => r \in todo[d])

(* Whoever has had the buffer has what was sent, or a broadcast under way  *)
(* has still to come to him.                                               *)
LEMMA ComingStep ==
  ASSUME TypeOK, CatchUpInv, PlayersInv', OutgoingInv',
         NEW c \in Conn, ThreadStep(c) \/ Arrival(c),
         ~wiped', ~clashed', NEW d \in Members', NEW m \in (Sent(d) \ removed)',
         NEW r \in CaughtUp' \ {d}
  PROVE  ReachedOrComing(d, m, r)'
<1> USE DEF ReachedOrComing
<1>0. /\ d \in Conn /\ r \in Conn /\ m.player = d /\ r # d
      /\ ~wiped /\ ~clashed
      /\ d \in Members \cup {c} /\ r \in Members \cup {c}
      /\ ~CreatePlayer(c) => d \in Members /\ r \in Members
  BY Before DEF Members, OutgoingInv, Sent, CaughtUp
<1>1. CASE CreatePlayer(c)
  <2>1. d # c /\ r # c
    BY <1>0, <1>1 DEF CreatePlayer, Goto, CatchUpInv, OutgoingInv, Sent,
                      CaughtUp, JoinSteps, TypeOK, historyVars
  <2>2. todo[d] \subseteq todo'[d]
    BY <1>0, <1>1 DEF CreatePlayer, TypeOK
  <2> QED
    BY <1>0, <1>1, <2>1, <2>2 DEF CreatePlayer, Goto, CatchUpInv, ReachInv,
         Sent, CaughtUp, Reached, TypeOK, historyVars
<1>2. CASE ~CreatePlayer(c) /\ MarkConnected(c)
  BY <1>0, <1>2 DEF MarkConnected, Goto, CatchUpInv, ReachInv, Sent, CaughtUp,
                    Reached, TypeOK, historyVars
<1>3. CASE ~CreatePlayer(c) /\ BeginSendBuffered(c)
  BY <1>0, <1>3 DEF BeginSendBuffered, Goto, CatchUpInv, ReachInv, Sent,
                    CaughtUp, Reached, TypeOK, historyVars
<1>4. CASE ~CreatePlayer(c) /\ SendBuffered(c)
  <2>1. m \in messageQueue
    BY <1>0, <1>4 DEF SendBuffered, CatchUpInv, ReachInv, Sent, historyVars
  <2>2. received' = [received EXCEPT ![c] = Append(@, messageQueue)]
    BY <1>4, <2>1 DEF SendBuffered
  <2>3. messageQueue \in SUBSET Message
    BY DEF TypeOK, BufferTypeOK
  <2>4. /\ messageQueue \subseteq Reached(c)'
        /\ Reached(r) \subseteq Reached(r)'
    BY <1>0, <2>2, <2>3, ReachedGrows
  <2>5. CASE r = c
    BY <2>1, <2>4, <2>5
  <2>6. CASE r # c
    BY <1>0, <1>4, <2>4, <2>6 DEF SendBuffered, Goto, CatchUpInv, ReachInv,
         Sent, CaughtUp, TypeOK, historyVars
  <2> QED
    BY <2>5, <2>6
<1>5. CASE ~CreatePlayer(c) /\ (FinishJoin(c) \/ ReceivePacket(c))
  <2>1. CASE FinishJoin(c)
    BY <1>0, <1>5, <2>1 DEF FinishJoin, Goto, CatchUpInv, ReachInv, Sent, CaughtUp,
                      Reached, TypeOK, historyVars
  <2>2. CASE ReceivePacket(c)
    BY <1>0, <1>5, <2>2 DEF ReceivePacket, Goto, CatchUpInv, ReachInv, Sent,
                      CaughtUp, Reached, TypeOK, historyVars
  <2> QED
    BY <1>5, <2>1, <2>2
<1>6. CASE ~CreatePlayer(c) /\ EndPacket(c)
  <2>1. r \in CaughtUp /\ d \in Members /\ m \in Sent(d) \ removed
    BY <1>0, <1>6 DEF EndPacket, Goto, Sent, CaughtUp, TypeOK, historyVars
  <2>2. ReachedOrComing(d, m, r)
    BY <1>0, <2>1 DEF CatchUpInv, ReachInv, ReachedOrComing
  <2>3. CASE d = c /\ m \notin published
    <3>1. m \in outgoing[c]
      BY <2>1, <2>3 DEF Sent
    <3>2. r \in playerHash /\ actorNumber[r] # actorNumber[c]
      BY <1>0, <2>1, <2>3 DEF CatchUpInv, PlayersInv, Numbered
    <3>3. r \in todo'[c]
      BY <1>6, <3>1, <3>2 DEF EndPacket, TypeOK
    <3> QED
      BY <1>6, <2>3, <3>3 DEF EndPacket, historyVars
  <2> QED
    BY <1>0, <1>6, <2>2, <2>3 DEF EndPacket, Goto, Reached, TypeOK,
                                  historyVars
<1>7. ASSUME ~CreatePlayer(c), NEW q \in Conn, Deliver(c, q)
      PROVE  ReachedOrComing(d, m, r)'
  <2>1. /\ r \in CaughtUp /\ d \in Members /\ m \in Sent(d) \ removed
    BY <1>0, <1>7 DEF Deliver, Sent, CaughtUp, historyVars
  <2>2. ReachedOrComing(d, m, r)
    BY <1>0, <2>1 DEF CatchUpInv, ReachInv, ReachedOrComing
  <2>3. Reached(r) \subseteq Reached(r)'
    <3>1. CASE isConnected[q]
      BY <1>0, <1>7, <3>1, ReachedGrows DEF Deliver, TypeOK
    <3>2. CASE ~isConnected[q]
      BY <1>7, <3>2 DEF Deliver, Reached
    <3> QED
      BY <3>1, <3>2
  <2>4. CASE d = c /\ r = q /\ m \notin published
    <3>1. m \in outgoing[c]
      BY <2>1, <2>4 DEF Sent
    <3>2. isConnected[q]
      BY <2>1, <2>4 DEF CatchUpInv, PlayersInv, CaughtUp
    <3> QED
      BY <1>7, <2>4, <3>1, <3>2, ReachedGrows DEF Deliver, TypeOK
  <2> QED
    BY <1>0, <1>7, <2>2, <2>3, <2>4 DEF Deliver, TypeOK, historyVars
<1>8. CASE ~CreatePlayer(c) /\ EndBroadcast(c)
  <2>1. /\ r \in CaughtUp /\ d \in Members /\ m \in Sent(d) \ removed
    BY <1>0, <1>8 DEF EndBroadcast, Goto, Sent, CaughtUp, CatchUpInv,
                      OutgoingInv, TypeOK
  <2>2. ReachedOrComing(d, m, r)
    BY <1>0, <2>1 DEF CatchUpInv, ReachInv, ReachedOrComing
  <2>3. CASE d = c
    BY <1>8, <2>2, <2>3 DEF EndBroadcast, Goto, Reached
  <2>4. CASE d # c
    <3>1. m \notin outgoing[c]
      BY <1>0, <2>4 DEF CatchUpInv, OutgoingInv
    <3> QED
      BY <1>0, <1>8, <2>2, <2>4, <3>1 DEF EndBroadcast, Goto, Reached, TypeOK
  <2> QED
    BY <2>3, <2>4
<1>9. CASE ~CreatePlayer(c) /\ RemovePlayer(c)
  <2>1. d # c /\ r # c
    BY <1>9 DEF RemovePlayer, Goto, TypeOK, Members, JoinSteps, PacketSteps,
                CaughtUp
  <2>2. todo'[d] = todo[d] \ {c}
    BY <1>0, <1>9, TableStep DEF RemovePlayer, CatchUpInv
  <2> QED
    BY <1>0, <1>9, <2>1, <2>2 DEF RemovePlayer, Goto, CatchUpInv, ReachInv, Sent,
         CaughtUp, Reached, TypeOK, historyVars
<1>10. ASSUME ~CreatePlayer(c), NEW v \in View, HandleRPC(c, v)
       PROVE  ReachedOrComing(d, m, r)'
  <2>1. pc[c] = "handling" /\ UNCHANGED <<pc, todo, received, published,
                                          removed>>
    BY <1>10 DEF HandleRPC, NextMessage
  <2>2. CASE m \in Sent(d)
    BY <1>0, <1>10, <2>1, <2>2 DEF CatchUpInv, ReachInv, CaughtUp, Reached
  <2>3. CASE m \notin Sent(d)
    <3>1. d = c /\ m \notin published
      BY <1>0, <1>10, <2>1, <2>3 DEF HandleRPC, Sent, TypeOK
    <3> QED
      BY <2>1, <3>1
  <2> QED
    BY <2>2, <2>3
<1>11. CASE ~CreatePlayer(c) /\ \E p \in Conn, v \in View : HandleRemove(c, p, v)
  BY <1>0, <1>11 DEF HandleRemove, CatchUpInv, ReachInv, Sent, CaughtUp,
                     Reached, roomVars
<1>12. CASE ~CreatePlayer(c) /\ (CountPlayers(c) \/ Wipe(c) \/ Renumber(c) \/ ForgetPlayer(c))
  <2>1. /\ pc[c] \in CloseSteps
        /\ UNCHANGED <<outgoing, todo, received, published, removed>>
        /\ \A q \in Conn \ {c} : pc'[q] = pc[q]
    BY <1>12 DEF CountPlayers, Wipe, Renumber, ForgetPlayer, Goto, CloseSteps, TypeOK,
                 historyVars
  <2>2. d # c /\ r # c /\ d \in Members /\ r \in Members
    BY <1>0, <2>1 DEF Members, JoinSteps, PacketSteps, CloseSteps, CreatePlayer,
                      Goto
  <2> QED
    BY <1>0, <2>1, <2>2 DEF CatchUpInv, ReachInv, Sent, CaughtUp, Reached
<1> QED
  BY <1>1, <1>2, <1>3, <1>4, <1>5, <1>6, <1>7, <1>8, <1>9, <1>10, <1>11, <1>12
     DEF ThreadStep, Arrival

(* The inductive invariant of the catch-up.                                *)
THEOREM CatchUpInvariant == Spec => []CatchUpInv
<1>1. Init => CatchUpInv
  BY DEF Init, CatchUpInv, PlayersInv, OutgoingInv, ReachInv, Sent, JoinSteps,
         PacketSteps, Members, Numbered
<1>2. TypeOK /\ CatchUpInv /\ [Next]_vars => CatchUpInv'
  <2> SUFFICES ASSUME TypeOK, CatchUpInv, [Next]_vars
               PROVE  CatchUpInv'
    OBVIOUS
  <2>1. CASE UNCHANGED vars
    BY <2>1 DEF vars, bufferVars, numberVars, roomVars, historyVars, CatchUpInv,
                PlayersInv, OutgoingInv, ReachInv, Sent, CaughtUp, Reached,
                Members, Numbered, JoinSteps, PacketSteps
  <2>2. ASSUME NEW c \in Conn, ThreadStep(c) \/ Arrival(c)
        PROVE  CatchUpInv'
    <3>1. PlayersInv' /\ OutgoingInv'
      BY <2>2, PlayersStep, OutgoingStep DEF CatchUpInv
    <3>2. ReachInv'
      BY <2>2, <3>1, KeptStep, ComingStep DEF ReachInv, ReachedOrComing
    <3> QED
      BY <3>1, <3>2 DEF CatchUpInv
  <2> QED
    BY <2>1, <2>2 DEF Next
<1> QED
  BY <1>1, <1>2, TypeCorrect, PTL DEF Spec

(* A message that has been broadcast, and that no client had removed, has  *)
(* reached every other player on the server who has had the buffer,        *)
(* whatever the order of buffering, broadcasting, connecting and sending   *)
(* the buffer, unless RemoveAll was overtaken by a join or a number was    *)
(* given while its last owner was there or had RemovePlayerNr to do.       *)
THEOREM NothingIsMissed == Spec => []NothingMissed
<1>1. TypeOK /\ CatchUpInv => NothingMissed
  BY DEF TypeOK, CatchUpInv, ReachInv, Sent, NothingMissed
<1> QED
  BY <1>1, TypeCorrect, CatchUpInvariant, PTL
=============================================================================
