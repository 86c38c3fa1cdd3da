--------------------------- MODULE RoomViewProofs ---------------------------
(***************************************************************************)
(* What the players of a room are told, who its master is and when the     *)
(* process survives: proofs about Room, on top of those in RoomProofs.     *)
(***************************************************************************)
EXTENDS RoomProofs

(* The steps that end a handler's work or carry it on, one name each.      *)
Step(c) ==
  \/ Accept(c) \/ FinishCreate(c) \/ Connect(c) \/ PostFirstRecv(c)
  \/ ReceiveRelay(c) \/ PostRecv(c)
  \/ ReceiveNothing(c) \/ PostRecvFails(c) \/ Remove(c) \/ CountPlayers(c)
  \/ ResetServerMaster(c) \/ ResetServerNumber(c) \/ FinishElection(c)
  \/ \E r \in Conn : \/ EncodePlayer(c, r) \/ NotifyJoined(c, r) \/ Relay(c, r)
                     \/ TellMaster(c, r) \/ AnnounceLeft(c, r) \/ Elect(c, r)
                     \/ ReceiveChangeMaster(c, r)

Fault(c) ==
  \/ ElectNobody(c) \/ IteratorFault(c) \/ FreedFault(c)
  \/ \E n \in known[c] : ReceiveForMissing(c, n)

(* Every step of Next is a step of one handler, or a fault that ends the   *)
(* process.                                                                *)
LEMMA StepKinds ==
  ASSUME Next
  PROVE  \/ \E c \in Conn : Step(c) /\ UNCHANGED fault
         \/ \E c \in Conn : Fault(c) /\ up
  BY DEF Next, ThreadStep, HandlerStep, Arrival, Crash, Step, Fault

(* Where a player is told what is broadcast.                               *)
Unconnected == {"outside", "creating", "encoding"}

NumbersOf(players) == {actorNumber[p] : p \in players}

(* What holds whatever overlaps.                                           *)
BaseInv ==
  /\ \A c, d \in Joining : c = d
  /\ \A c \in Conn :
       /\ todo[c] \subseteq playerHash
       /\ isConnected[c] <=> pc[c] \notin Unconnected
       /\ pc[c] \notin LoopSteps => todo[c] = {}
       /\ pc[c] \in {"encoding", "notifying"} => c \notin todo[c]

---------------------------------------------------------------------------
(* No disconnect has run beside another handler.                           *)

AloneInv ==
  "busyClose" \notin happened =>
    /\ "staleReset" \notin happened
    /\ \A c \in Closing : Joining = {} /\ Working = {c}
    /\ \A c \in Conn :
         /\ pc[c] \in {"resetting", "renumbering"} => playerHash = {}
         /\ pc[c] \in {"electing", "elected"} => playerHash # {}
         /\ pc[c] \in LoopSteps => cursor[c] \in playerHash \cup {NoPlayer}

(* Nobody goes on knowing of a player who has left, but for those the      *)
(* disconnect has still to tell.                                           *)
KnownInv ==
  "busyClose" \notin happened =>
    \A r \in playerHash : pc[r] # "creating" =>
      roster[r] \subseteq NumbersOf(playerHash \cup
                            {c \in Conn : pc[c] = "announcing" /\ r \in todo[c]})

---------------------------------------------------------------------------
(* Disconnects have overlapped neither one another nor the start of a join *)
(* or of a master change.                                                  *)

SoleMaster ==
  IF playerHash = {}
  THEN masterPlayer = NoPlayer
  ELSE {p \in playerHash : isMasterClient[p]} = {masterPlayer}

NoMaster == {p \in playerHash : isMasterClient[p]} = {}

(* What a disconnect has made of the master so far.                        *)
MasterInv ==
  "closeOverlap" \notin happened =>
    /\ "staleReset" \notin happened
    /\ \A c, d \in Closing : c = d
    /\ Closing = {} => SoleMaster
    /\ \A c \in Closing :
         /\ pc[c] = "closing" => SoleMaster /\ wasMaster[c] = isMasterClient[c]
         /\ pc[c] \in {"announcing", "electing"} =>
              IF wasMaster[c] THEN NoMaster ELSE SoleMaster /\ playerHash # {}
         /\ pc[c] = "electing" => wasMaster[c] /\ playerHash # {}
         /\ pc[c] \in {"resetting", "renumbering"} => playerHash = {}
         /\ pc[c] = "renumbering" => masterPlayer = NoPlayer
         /\ pc[c] = "elected" => SoleMaster /\ playerHash # {}

---------------------------------------------------------------------------
(* The room has never been empty since the first player came.              *)

(* Numbers are then never used again, and everybody connected has been     *)
(* told of everybody whose join is done.                                   *)
NeverEmptyInv ==
  "emptied" \notin happened =>
    /\ "staleReset" \notin happened
    /\ playerHash = {} => \A c \in Conn : pc[c] = "outside"
    /\ \A c \in Conn : pc[c] \notin {"resetting", "renumbering"}
    /\ \A c \in Conn : pc[c] \notin {"outside", "creating"} =>
         actorNumber[c] < nextActorNumber
    /\ \A c, d \in Conn : pc[c] # "outside" /\ pc[d] # "outside" =>
         (actorNumber[c] = actorNumber[d] => c = d)

KnowAllInv ==
  "emptied" \notin happened =>
    \A r, s \in playerHash :
      /\ pc[r] = "encoding" => s \in todo[r] \/ actorNumber[s] \in roster[r]
      /\ isConnected[r] /\ pc[s] \notin {"creating", "encoding"} =>
           \/ actorNumber[s] \in roster[r]
           \/ pc[s] = "notifying" /\ r \in todo[s]

---------------------------------------------------------------------------
(* Joins, departures and master changes have come one at a time.           *)

Active == Joining \cup ChangingMaster \cup Closing

OneAtATime ==
  "overlap" \notin happened =>
    /\ "closeOverlap" \notin happened
    /\ \A c, d \in Active : c = d
    /\ \A c \in Conn : pc[c] = "announcing" =>
         actorNumber[c] \notin NumbersOf(playerHash)

(* Of whom r has not heard yet, and of whose departure.                    *)
Unheard(r) ==
  IF pc[r] = "encoding"
  THEN todo[r]
  ELSE {c \in Conn \ {r} : \/ pc[c] \in {"creating", "encoding"}
                           \/ pc[c] = "notifying" /\ r \in todo[c]}

Untold(r) == {c \in Conn : pc[c] = "announcing" /\ r \in todo[c]}

RosterInv ==
  "overlap" \notin happened =>
    \A r \in playerHash : pc[r] # "creating" =>
      roster[r] = NumbersOf((playerHash \ Unheard(r)) \cup Untold(r))

MasterToldInv ==
  "overlap" \notin happened =>
    /\ \A c \in Conn : pc[c] \in {"telling", "elected"} =>
         newMaster[c] = actorNumber[masterPlayer]
    /\ \A r \in playerHash : pc[r] # "creating" =>
         \/ toldMaster[r] = actorNumber[masterPlayer]
         \/ pc[r] = "encoding" /\ masterPlayer \in todo[r]
         \/ \E c \in Conn : \/ pc[c] \in {"telling", "elected"} /\ r \in todo[c]
                            \/ pc[c] = "electing"

---------------------------------------------------------------------------
(* What a step can change.                                                 *)

(* What a fault leaves alone.                                              *)
LEMMA FaultFrame ==
  ASSUME NEW c \in Conn, Fault(c)
  PROVE  /\ UNCHANGED <<managerVars, threadVars, clientVars>>
         /\ happened \subseteq happened'
  BY DEF Fault, ElectNobody, IteratorFault, FreedFault, ReceiveForMissing

(* Only c's handler moves, and history is kept.                            *)
OnlyMoves(c) ==
  /\ happened \subseteq happened'
  /\ \A d \in Conn \ {c} :
       /\ pc'[d] = pc[d] /\ wasMaster'[d] = wasMaster[d]
       /\ newMaster'[d] = newMaster[d] /\ isConnected'[d] = isConnected[d]
       /\ actorNumber'[d] = actorNumber[d] /\ cursor'[d] = cursor[d]

(* Each of the actions, in turn.                                           *)
LEMMA Moves ==
  ASSUME TypeOK, NEW c \in Conn, Step(c)
  PROVE  OnlyMoves(c)
<1> USE DEF OnlyMoves, TypeOK, ManagerTypeOK, managerVars, clientVars, Goto,
            Visit, StartLoop
<1>1. CASE Accept(c) \/ FinishCreate(c) \/ Connect(c) \/ PostFirstRecv(c)
  BY <1>1 DEF Accept, CreatePlayerInsert, FinishCreate, CreatePlayerNumber,
              Connect, PostFirstRecv
<1>2. CASE ReceiveRelay(c) \/ PostRecv(c)
  BY <1>2 DEF ReceiveRelay, PostRecv
<1>3. CASE ReceiveNothing(c) \/ PostRecvFails(c) \/ Remove(c)
           \/ CountPlayers(c)
  BY <1>3 DEF ReceiveNothing, PostRecvFails, BeginClose, Remove, RemovePlayer,
              CountPlayers
<1>4. CASE ResetServerMaster(c) \/ ResetServerNumber(c) \/ FinishElection(c)
  BY <1>4 DEF ResetServerMaster, ResetMaster, ResetServerNumber, ResetNumber,
              FinishElection
<1>5. ASSUME NEW r \in Conn,
             \/ EncodePlayer(c, r) \/ NotifyJoined(c, r) \/ Relay(c, r)
             \/ TellMaster(c, r) \/ AnnounceLeft(c, r)
      PROVE  OnlyMoves(c)
  BY <1>5 DEF EncodePlayer, NotifyJoined, Relay, TellMaster, AnnounceLeft
<1>6. ASSUME NEW r \in Conn, Elect(c, r) \/ ReceiveChangeMaster(c, r)
      PROVE  OnlyMoves(c)
  BY <1>6 DEF Elect, ElectFirstPlayer, ReceiveChangeMaster, SetMasterClient
<1> QED
  BY <1>1, <1>2, <1>3, <1>4, <1>5, <1>6 DEF Step

(* A loop under way takes in the new player or does not.                   *)
LEMMA AcceptLoops ==
  ASSUME TypeOK, NEW c \in Conn, Accept(c)
  PROVE  \A w \in Conn : /\ todo[w] \subseteq todo'[w]
                         /\ todo'[w] \subseteq todo[w] \cup (playerHash' \ playerHash)
                         /\ todo[w] = {} => todo'[w] = {}
<1>1. PICK seen \in SUBSET {w \in Conn : todo[w] # {}} :
        todo' = [w \in Conn |-> IF w \in seen
                                THEN todo[w] \cup (playerHash' \ playerHash)
                                ELSE todo[w]]
  BY DEF Accept
<1> QED
  BY <1>1

(* Where the loops are after a step.                                       *)
LEMMA Loops ==
  ASSUME TypeOK, NEW c \in Conn, Step(c), ~Accept(c), ~Remove(c)
  PROVE  /\ playerHash' = playerHash
         /\ \A d \in Conn \ {c} : todo'[d] = todo[d]
         /\ todo'[c] \subseteq todo[c] \/ todo'[c] \subseteq playerHash
<1> USE DEF TypeOK, ManagerTypeOK, managerVars, Visit, StartLoop, OthersOf
<1>1. CASE FinishCreate(c) \/ Connect(c) \/ PostFirstRecv(c)
  BY <1>1 DEF FinishCreate, CreatePlayerNumber, Connect, PostFirstRecv
<1>2. CASE ReceiveRelay(c) \/ PostRecv(c)
  BY <1>2 DEF ReceiveRelay, PostRecv
<1>3. CASE ReceiveNothing(c) \/ PostRecvFails(c) \/ CountPlayers(c)
  BY <1>3 DEF ReceiveNothing, PostRecvFails, BeginClose, CountPlayers
<1>4. CASE ResetServerMaster(c) \/ ResetServerNumber(c) \/ FinishElection(c)
  BY <1>4 DEF ResetServerMaster, ResetMaster, ResetServerNumber, ResetNumber,
              FinishElection
<1>5. ASSUME NEW r \in Conn,
             \/ EncodePlayer(c, r) \/ NotifyJoined(c, r) \/ Relay(c, r)
             \/ TellMaster(c, r) \/ AnnounceLeft(c, r)
      PROVE  /\ playerHash' = playerHash
             /\ \A d \in Conn \ {c} : todo'[d] = todo[d]
             /\ todo'[c] \subseteq todo[c]
  BY <1>5 DEF EncodePlayer, NotifyJoined, Relay, TellMaster, AnnounceLeft
<1>6. ASSUME NEW r \in Conn, Elect(c, r) \/ ReceiveChangeMaster(c, r)
      PROVE  /\ playerHash' = playerHash
             /\ \A d \in Conn \ {c} : todo'[d] = todo[d]
             /\ todo'[c] \subseteq playerHash
  BY <1>6 DEF Elect, ElectFirstPlayer, ReceiveChangeMaster, SetMasterClient
<1> QED
  BY <1>1, <1>2, <1>3, <1>4, <1>5, <1>6 DEF Step

---------------------------------------------------------------------------
(* What holds whatever overlaps.                                           *)

(* One accept thread joins one player at a time; Connect sets isConnected  *)
(* as it leaves Unconnected; Remove takes its entry out of every loop.     *)
LEMMA BaseStep ==
  ASSUME TypeOK, BaseInv, NEW c \in Conn, Step(c)
  PROVE  BaseInv'
<1> USE DEF BaseInv, Goto, Visit, StartLoop, clientVars, LoopSteps
<1>0. /\ pc \in [Conn -> Steps] /\ todo \in [Conn -> SUBSET Conn]
      /\ isConnected \in [Conn -> BOOLEAN] /\ playerHash \in SUBSET Conn
      /\ c \notin OthersOf(c)
  BY DEF TypeOK, ManagerTypeOK, OthersOf
<1> DEFINE Fine == /\ isConnected'[c] <=> pc'[c] \notin Unconnected
                   /\ pc'[c] \notin LoopSteps => todo'[c] = {}
                   /\ pc'[c] \in {"encoding", "notifying"} => c \notin todo'[c]
<1>1. ASSUME Fine, pc'[c] \in JoinSteps => pc[c] \in JoinSteps,
             ~Accept(c), ~Remove(c)
      PROVE  BaseInv'
  <2>1. \A d \in Conn : todo'[d] \subseteq playerHash'
    BY <1>1, Loops
  <2>2. \A d \in Conn \ {c} : todo'[d] = todo[d]
    BY <1>1, Loops
  <2> QED
    BY <1>1, <2>1, <2>2, Moves DEF Joining, OnlyMoves
<1>2. CASE Accept(c)
  <2>1. /\ pc[c] = "outside" /\ pc'[c] = "creating" /\ Joining = {}
        /\ isConnected' = isConnected /\ playerHash \subseteq playerHash'
    BY <1>0, <1>2 DEF Accept, CreatePlayerInsert
  <2>2. todo'[c] = {} /\ \A d \in Conn : todo'[d] \subseteq playerHash'
    BY <1>2, <2>1, AcceptLoops
  <2>3. \A d \in Conn \ {c} :
          /\ pc'[d] = pc[d] /\ isConnected'[d] = isConnected[d]
          /\ pc[d] \notin {"creating", "encoding", "notifying"}
    BY <1>2, <2>1, Moves DEF OnlyMoves, Joining, JoinSteps
  <2>4. \A d \in Conn \ {c} : pc'[d] \notin LoopSteps => todo'[d] = {}
    BY <1>2, <2>3, AcceptLoops
  <2>5. Joining' = {c}
    BY <2>1, <2>3 DEF Joining, JoinSteps
  <2> QED
    BY <2>1, <2>2, <2>3, <2>4, <2>5 DEF Unconnected
<1>3. CASE FinishCreate(c) \/ Connect(c) \/ PostFirstRecv(c)
  <2>1. Fine /\ pc[c] \in JoinSteps /\ ~Accept(c) /\ ~Remove(c)
    BY <1>0, <1>3 DEF Unconnected, JoinSteps, FinishCreate, CreatePlayerNumber,
       Connect, PostFirstRecv, managerVars, Accept, Remove, OthersOf
  <2> QED
    BY <1>1, <2>1
<1>4. CASE ReceiveRelay(c) \/ PostRecv(c) \/ ReceiveNothing(c)
           \/ PostRecvFails(c)
           \/ CountPlayers(c)
  <2>1. /\ Fine /\ pc'[c] \notin JoinSteps /\ ~Accept(c) /\ ~Remove(c)
    BY <1>0, <1>4 DEF Unconnected, JoinSteps, RequestSteps, ReceiveRelay,
       PostRecv,
       ReceiveNothing, PostRecvFails, BeginClose, CountPlayers, Accept, Remove
  <2> QED
    BY <1>1, <2>1
<1>5. CASE ResetServerMaster(c) \/ ResetServerNumber(c) \/ FinishElection(c)
  <2>1. /\ Fine /\ pc'[c] \notin JoinSteps /\ ~Accept(c) /\ ~Remove(c)
    BY <1>0, <1>5 DEF Unconnected, JoinSteps, ResetServerMaster,
       ResetServerNumber, FinishElection, Accept, Remove
  <2> QED
    BY <1>1, <2>1
<1>6. ASSUME NEW r \in Conn,
             \/ EncodePlayer(c, r) \/ NotifyJoined(c, r) \/ Relay(c, r)
             \/ TellMaster(c, r) \/ AnnounceLeft(c, r)
      PROVE  BaseInv'
  <2>1. /\ Fine /\ pc' = pc /\ ~Accept(c) /\ ~Remove(c)
    BY <1>0, <1>6 DEF EncodePlayer, NotifyJoined, Relay, TellMaster,
       AnnounceLeft,
       Accept, Remove
  <2> QED
    BY <1>1, <2>1
<1>7. ASSUME NEW r \in Conn, Elect(c, r) \/ ReceiveChangeMaster(c, r)
      PROVE  BaseInv'
  <2>1. /\ Fine /\ pc'[c] \notin JoinSteps /\ ~Accept(c) /\ ~Remove(c)
    BY <1>0, <1>7 DEF Unconnected, JoinSteps, Elect, ReceiveChangeMaster,
       Accept,
       Remove
  <2> QED
    BY <1>1, <2>1
<1>8. CASE Remove(c)
  <2>1. /\ pc[c] = "closing" /\ pc'[c] = "announcing"
        /\ isConnected' = isConnected
        /\ todo'[c] = playerHash'
        /\ \A d \in Conn \ {c} : todo'[d] = todo[d] \cap playerHash'
    BY <1>0, <1>8 DEF Remove
  <2> QED
    BY <1>0, <1>8, <2>1, Moves DEF OnlyMoves, Joining, JoinSteps, Unconnected
<1> QED
  BY <1>2, <1>3, <1>4, <1>5, <1>6, <1>7, <1>8 DEF Step

---------------------------------------------------------------------------
(* No disconnect has run beside another handler.                           *)

(* Then the handler that moves is the disconnect, if there is one.         *)
LEMMA AloneMoves ==
  ASSUME TypeOK, AloneInv, NEW c \in Conn, Step(c), "busyClose" \notin happened'
  PROVE  Closing \subseteq {c} /\ "busyClose" \notin happened
<1>1. "busyClose" \notin happened
  BY Moves DEF OnlyMoves
<1> SUFFICES ASSUME NEW d \in Closing, d # c
             PROVE  FALSE
  BY <1>1
<1>2. pc[c] \notin JoinSteps \cup RequestSteps \cup CloseSteps
  BY <1>1 DEF AloneInv, Joining, Working, Closing
<1>3. CASE Accept(c)
  BY <1>3 DEF Accept, Note
<1>4. CASE ReceiveRelay(c)
  BY <1>4 DEF ReceiveRelay, Note
<1>5. CASE ReceiveNothing(c)
  <2>1. d \in Working \ {c}
    BY DEF Closing, Working
  <2> QED
    BY <1>5, <2>1 DEF ReceiveNothing, BeginClose, Note
<1>6. ASSUME NEW r \in Conn, ReceiveChangeMaster(c, r)
      PROVE  FALSE
  BY <1>6 DEF ReceiveChangeMaster, Note
<1> QED
  BY <1>2, <1>3, <1>4, <1>5, <1>6 DEF Step, JoinSteps, RequestSteps,
     CloseSteps, Goto,
     Visit, FinishCreate, Connect, PostFirstRecv, PostRecv, PostRecvFails, Remove,
     CountPlayers, ResetServerMaster, ResetServerNumber, FinishElection,
     EncodePlayer, NotifyJoined, Relay, TellMaster, AnnounceLeft, Elect

(* Accept, the requests and a second disconnect are excluded while a       *)
(* disconnect runs, so what CountPlayers has read still holds at the       *)
(* election and at the reset.                                              *)
LEMMA AloneStep ==
  ASSUME TypeOK, BaseInv, NumbersInv, AloneInv, NEW c \in Conn, Step(c)
  PROVE  AloneInv'
<1> SUFFICES ASSUME "busyClose" \notin happened'
             PROVE  AloneInv'
  BY DEF AloneInv
<1> USE DEF Goto, Visit, StartLoop, managerVars
<1>0. /\ pc \in [Conn -> Steps] /\ todo \in [Conn -> SUBSET Conn]
      /\ cursor \in [Conn -> Conn \cup {NoPlayer}]
      /\ playerHash \in SUBSET Conn
      /\ \A d \in Conn : todo[d] \subseteq playerHash
  BY DEF TypeOK, ManagerTypeOK, BaseInv
<1>1. Closing \subseteq {c} /\ "busyClose" \notin happened
  BY AloneMoves
<1>2. /\ "staleReset" \notin happened /\ playerHash = Present
      /\ c \in Closing => Joining = {} /\ Working = {c}
      /\ \A d \in Conn :
         /\ pc[d] \in {"resetting", "renumbering"} => playerHash = {}
         /\ pc[d] \in {"electing", "elected"} => playerHash # {}
         /\ pc[d] \in LoopSteps => cursor[d] \in playerHash \cup {NoPlayer}
  BY <1>1 DEF AloneInv, NumbersInv
<1>3. \A d \in Conn \ {c} : pc'[d] = pc[d] /\ cursor'[d] = cursor[d]
  BY Moves DEF OnlyMoves
(* A step that begins and carries on no disconnect. *)
<1>4. ASSUME pc[c] \notin CloseSteps, pc'[c] \notin CloseSteps,
             playerHash \subseteq playerHash', "staleReset" \notin happened',
             pc'[c] \in LoopSteps => cursor'[c] \in playerHash' \cup {NoPlayer}
      PROVE  AloneInv'
  <2>1. Closing' = {}
    BY <1>1, <1>3, <1>4 DEF Closing
  <2>2. \A d \in Conn : pc'[d] \notin CloseSteps
    BY <2>1 DEF Closing
  <2> QED
    BY <1>2, <1>3, <1>4, <2>1, <2>2 DEF AloneInv, CloseSteps
(* A step that carries a disconnect on. *)
<1>5. ASSUME c \in Closing, pc'[c] \in CloseSteps \cup {"gone"},
             "staleReset" \notin happened',
             pc'[c] \in {"resetting", "renumbering"} => playerHash' = {},
             pc'[c] \in {"electing", "elected"} => playerHash' # {},
             pc'[c] \in LoopSteps => cursor'[c] \in playerHash' \cup {NoPlayer}
      PROVE  AloneInv'
  <2>1. \A d \in Conn \ {c} : pc[d] \notin JoinSteps \cup RequestSteps \cup CloseSteps
    BY <1>2, <1>5 DEF Joining, Working
  <2>2. Joining' = {} /\ Working' \subseteq {c} /\ Closing' \subseteq {c}
    BY <1>3, <1>5, <2>1 DEF Joining, Working, Closing, JoinSteps, RequestSteps,
       CloseSteps
  <2>3. Closing' \subseteq Working'
    BY DEF Closing, Working
  <2>4. \A d \in Conn \ {c} :
          pc'[d] \notin LoopSteps \cup {"resetting", "renumbering", "electing", "elected"}
    BY <1>3, <2>1 DEF LoopSteps, JoinSteps, RequestSteps, CloseSteps
  <2> QED
    BY <1>2, <1>5, <2>2, <2>3, <2>4 DEF AloneInv
<1>6. CASE Accept(c)
  <2>1. /\ pc[c] = "outside" /\ pc'[c] = "creating"
        /\ playerHash \subseteq playerHash' /\ "staleReset" \notin happened'
    BY <1>0, <1>2, <1>6 DEF Accept, CreatePlayerInsert, Note
  <2> QED
    BY <1>4, <2>1 DEF CloseSteps, LoopSteps
<1>7. CASE FinishCreate(c) \/ Connect(c) \/ PostFirstRecv(c) \/ ReceiveRelay(c)
           \/ PostRecv(c)
  <2>1. /\ pc[c] \in JoinSteps \cup RequestSteps \cup {"reading"}
        /\ pc'[c] \in JoinSteps \cup RequestSteps \cup {"reading", "orphaned"}
        /\ playerHash' = playerHash /\ cursor'[c] = NoPlayer
        /\ "staleReset" \notin happened'
    BY <1>0, <1>2, <1>7 DEF JoinSteps, RequestSteps, FinishCreate,
       CreatePlayerNumber, Connect, PostFirstRecv, ReceiveRelay, PostRecv, Note
  <2> QED
    BY <1>4, <2>1 DEF CloseSteps, JoinSteps, RequestSteps
<1>8. ASSUME NEW r \in Conn, ReceiveChangeMaster(c, r)
      PROVE  AloneInv'
  <2>1. /\ pc[c] = "reading" /\ pc'[c] = "telling"
        /\ playerHash' = playerHash /\ cursor'[c] = NoPlayer
        /\ "staleReset" \notin happened'
    BY <1>0, <1>2, <1>8 DEF ReceiveChangeMaster, SetMasterClient, Note
  <2> QED
    BY <1>4, <2>1 DEF CloseSteps
<1>9. ASSUME NEW r \in Conn,
             \/ EncodePlayer(c, r) \/ NotifyJoined(c, r) \/ Relay(c, r)
             \/ TellMaster(c, r) \/ AnnounceLeft(c, r)
      PROVE  AloneInv'
  <2>1. /\ UNCHANGED <<pc, playerHash, happened>> /\ cursor'[c] = r
        /\ r \in playerHash
        /\ pc[c] \in {"encoding", "notifying", "relaying", "telling", "announcing",
                      "elected"}
    BY <1>0, <1>9 DEF EncodePlayer, NotifyJoined, Relay, TellMaster,
       AnnounceLeft
  <2>2. CASE pc[c] \notin CloseSteps
    BY <1>2, <1>4, <2>1, <2>2
  <2>3. CASE pc[c] \in CloseSteps
    BY <1>2, <1>5, <2>1, <2>3 DEF Closing
  <2> QED
    BY <2>2, <2>3
<1>10. CASE ReceiveNothing(c) \/ PostRecvFails(c)
  <2>1. /\ pc[c] \in {"reading", "relaying", "telling"} /\ pc'[c] = "closing"
        /\ playerHash' = playerHash /\ cursor'[c] = NoPlayer
        /\ "staleReset" \notin happened' /\ Joining \cup (Working \ {c}) = {}
    BY <1>0, <1>2, <1>10 DEF ReceiveNothing, PostRecvFails, BeginClose,
       RequestSteps, Note
  <2>2. \A d \in Conn \ {c} : pc'[d] \notin JoinSteps \cup RequestSteps \cup CloseSteps
    BY <1>3, <2>1 DEF Joining, Working
  <2>3. Joining' = {} /\ Working' = {c} /\ Closing' = {c}
    BY <2>1, <2>2 DEF Joining, Working, Closing, JoinSteps, CloseSteps
  <2> QED
    BY <1>2, <2>1, <2>2, <2>3 DEF AloneInv, LoopSteps, JoinSteps, RequestSteps,
       CloseSteps
<1>11. CASE Remove(c)
  <2>1. /\ pc[c] = "closing" /\ pc'[c] = "announcing" /\ cursor'[c] = NoPlayer
        /\ "staleReset" \notin happened'
    BY <1>0, <1>2, <1>11 DEF Remove, Note
  <2> QED
    BY <1>5, <2>1 DEF Closing, CloseSteps
<1>12. CASE CountPlayers(c)
  <2>1. /\ pc[c] = "announcing" /\ happened' = happened
        /\ playerHash' = playerHash
        /\ \/ pc'[c] = "resetting" /\ playerHash' = {}
           \/ pc'[c] = "electing" /\ playerHash' # {}
           \/ pc'[c] = "gone"
    BY <1>0, <1>12 DEF CountPlayers
  <2> QED
    BY <1>2, <1>5, <2>1 DEF Closing, CloseSteps, LoopSteps
<1>13. CASE ResetServerMaster(c)
  <2>1. /\ pc[c] = "resetting" /\ pc'[c] = "renumbering"
        /\ happened' = happened
        /\ playerHash' = playerHash
    BY <1>0, <1>13 DEF ResetServerMaster, ResetMaster
  <2> QED
    BY <1>2, <1>5, <2>1 DEF Closing, CloseSteps, LoopSteps
<1>14. CASE ResetServerNumber(c)
  <2>1. /\ pc[c] = "renumbering" /\ pc'[c] = "gone"
        /\ happened' = happened \cup Note("staleReset", playerHash # {})
    BY <1>0, <1>14 DEF ResetServerNumber
  <2> QED
    BY <1>2, <1>5, <2>1 DEF Closing, CloseSteps, LoopSteps, Note
<1>15. ASSUME NEW r \in Conn, Elect(c, r)
       PROVE  AloneInv'
  <2>1. /\ pc[c] = "electing" /\ pc'[c] = "elected" /\ happened' = happened
        /\ playerHash' = playerHash /\ cursor'[c] = NoPlayer
    BY <1>0, <1>15 DEF Elect, ElectFirstPlayer
  <2> QED
    BY <1>2, <1>5, <2>1 DEF Closing, CloseSteps
<1>16. CASE FinishElection(c)
  <2>1. /\ pc[c] = "elected" /\ pc'[c] = "gone" /\ happened' = happened
    BY <1>0, <1>16 DEF FinishElection
  <2> QED
    BY <1>2, <1>5, <2>1 DEF Closing, CloseSteps, LoopSteps
<1> QED
  BY <1>6, <1>7, <1>8, <1>9, <1>10, <1>11, <1>12, <1>13, <1>14, <1>15,
     <1>16 DEF Step

(* Those of whom r may know.                                               *)
KnownTo(r) == playerHash \cup {c \in Conn : pc[c] = "announcing" /\ r \in todo[c]}

(* Only Remove takes a player from the table, and the loop it begins comes *)
(* to everybody who is left.                                               *)
LEMMA KnownStep ==
  ASSUME TypeOK, BaseInv, NumbersInv, AloneInv, KnownInv, NEW c \in Conn, Step(c)
  PROVE  KnownInv'
<1> SUFFICES ASSUME "busyClose" \notin happened', NEW r \in playerHash',
                    pc'[r] # "creating", NEW n \in roster'[r]
             PROVE  n \in NumbersOf(KnownTo(r))'
  BY DEF KnownInv, KnownTo
<1> USE DEF Goto, Visit, StartLoop, managerVars, clientVars, SendJoined,
           SendLeft
<1>0. /\ pc \in [Conn -> Steps] /\ todo \in [Conn -> SUBSET Conn]
      /\ playerHash \in SUBSET Conn /\ roster \in [Conn -> SUBSET Nat]
      /\ actorNumber \in [Conn -> Nat]
      /\ \A d \in Conn : todo[d] \subseteq playerHash
  BY DEF TypeOK, ManagerTypeOK, BaseInv
<1>1. Closing \subseteq {c} /\ "busyClose" \notin happened /\ playerHash = Present
  BY AloneMoves DEF AloneInv, NumbersInv
<1>2. \A d \in Conn \ {c} : /\ pc'[d] = pc[d] /\ pc[d] # "announcing"
                            /\ actorNumber'[d] = actorNumber[d]
  BY <1>1, Moves DEF OnlyMoves, Closing, CloseSteps
<1>3. \A q \in playerHash : pc[q] # "creating" => roster[q] \subseteq NumbersOf(KnownTo(q))
  BY <1>1 DEF KnownInv, KnownTo
(* A step that keeps the table, the numbers and who may be known.          *)
<1>4. ASSUME UNCHANGED actorNumber, KnownTo(r) \subseteq KnownTo(r)',
             r \in playerHash, pc[r] # "creating", roster'[r] = roster[r]
      PROVE  n \in NumbersOf(KnownTo(r))'
  BY <1>3, <1>4 DEF NumbersOf
<1>5. CASE Accept(c)
  <2>1. /\ pc'[c] = "creating" /\ pc[c] = "outside" /\ roster' = roster
        /\ playerHash \subseteq playerHash'
        /\ playerHash' \subseteq playerHash \cup {c}
        /\ c \notin playerHash
    BY <1>0, <1>1, <1>5 DEF Accept, CreatePlayerInsert, Present, JoinSteps,
       RequestSteps
  <2>2. r # c /\ r \in playerHash /\ pc[r] # "creating"
    BY <1>0, <1>2, <2>1
  <2>3. c \notin KnownTo(r) /\ KnownTo(r) \subseteq playerHash
    BY <1>2, <2>1 DEF KnownTo
  <2>4. PICK s \in KnownTo(r) : n = actorNumber[s]
    BY <1>3, <2>1, <2>2 DEF NumbersOf
  <2>5. s \in playerHash' /\ actorNumber'[s] = n
    BY <1>0, <1>2, <2>1, <2>3, <2>4
  <2> QED
    BY <2>5 DEF NumbersOf, KnownTo
<1>6. CASE FinishCreate(c)
  <2>1. /\ UNCHANGED <<playerHash, actorNumber>> /\ pc[c] = "creating"
        /\ roster' = [roster EXCEPT ![c] = {actorNumber[c]}]
    BY <1>6 DEF FinishCreate, CreatePlayerNumber
  <2>2. CASE r = c
    BY <1>0, <2>1, <2>2 DEF NumbersOf, KnownTo
  <2>3. CASE r # c
    <3>1. KnownTo(r) \subseteq KnownTo(r)'
      BY <1>2, <2>1 DEF KnownTo
    <3> QED
      BY <1>0, <1>2, <1>4, <2>1, <2>3, <3>1
  <2> QED
    BY <2>2, <2>3
<1>7. ASSUME NEW q \in Conn, EncodePlayer(c, q)
      PROVE  n \in NumbersOf(KnownTo(r))'
  <2>1. /\ UNCHANGED <<playerHash, actorNumber, pc>> /\ pc[c] = "encoding"
        /\ roster' = [roster EXCEPT ![c] = @ \cup {actorNumber[q]}]
        /\ q \in playerHash
    BY <1>0, <1>7 DEF EncodePlayer
  <2>2. KnownTo(r) \subseteq KnownTo(r)'
    BY <1>2, <2>1 DEF KnownTo
  <2>3. CASE n = actorNumber[q]
    BY <2>1, <2>3 DEF NumbersOf, KnownTo
  <2>4. CASE n # actorNumber[q]
    <3>1. n \in roster[r] /\ r \in playerHash /\ pc[r] # "creating"
      BY <1>0, <2>1, <2>4
    <3> QED
      BY <1>3, <2>1, <2>2, <3>1 DEF NumbersOf
  <2> QED
    BY <2>3, <2>4
<1>8. ASSUME NEW q \in Conn, NotifyJoined(c, q)
      PROVE  n \in NumbersOf(KnownTo(r))'
  <2>1. /\ UNCHANGED <<playerHash, actorNumber, pc>> /\ pc[c] = "notifying"
        /\ roster' = [roster EXCEPT ![q] = @ \cup {actorNumber[c]}] \/ roster' = roster
        /\ c \in playerHash
    BY <1>0, <1>1, <1>8 DEF NotifyJoined, Present, JoinSteps
  <2>2. KnownTo(r) \subseteq KnownTo(r)'
    BY <1>2, <2>1 DEF KnownTo
  <2>3. CASE n = actorNumber[c]
    BY <2>1, <2>3 DEF NumbersOf, KnownTo
  <2>4. CASE n # actorNumber[c]
    <3>1. n \in roster[r] /\ r \in playerHash /\ pc[r] # "creating"
      BY <1>0, <2>1, <2>4
    <3> QED
      BY <1>3, <2>1, <2>2, <3>1 DEF NumbersOf
  <2> QED
    BY <2>3, <2>4
<1>9. CASE Remove(c)
  <2>1. /\ pc[c] = "closing" /\ pc'[c] = "announcing" /\ todo'[c] = playerHash'
        /\ UNCHANGED <<actorNumber, roster>>
        /\ playerHash' = playerHash \ Lookup(actorNumber[c])
    BY <1>0, <1>9 DEF Remove, RemovePlayer
  <2>2. r \in playerHash /\ pc[r] # "creating"
    BY <1>0, <1>2, <2>1
  <2>3. KnownTo(r) \subseteq playerHash
    BY <1>2, <2>1 DEF KnownTo
  <2>4. PICK s \in playerHash : n = actorNumber[s]
    BY <1>3, <2>1, <2>2, <2>3 DEF NumbersOf
  <2>5. CASE s \in playerHash'
    BY <2>1, <2>4, <2>5 DEF NumbersOf, KnownTo
  <2>6. CASE s \notin playerHash'
    <3>1. n = actorNumber'[c] /\ c \in KnownTo(r)'
      BY <2>1, <2>4, <2>6 DEF Lookup, KnownTo
    <3> QED
      BY <3>1 DEF NumbersOf
  <2> QED
    BY <2>5, <2>6
<1>10. ASSUME NEW q \in Conn, AnnounceLeft(c, q)
       PROVE  n \in NumbersOf(KnownTo(r))'
  <2>1. /\ UNCHANGED <<playerHash, actorNumber, pc>> /\ pc[c] = "announcing"
        /\ q \in todo[c] /\ todo' = [todo EXCEPT ![c] = @ \ {q}]
        /\ roster' = IF isConnected[q]
                     THEN [roster EXCEPT ![q] = roster[q] \ {actorNumber[c]}]
                     ELSE roster
    BY <1>10 DEF AnnounceLeft
  <2>2. c \in Closing /\ Joining = {}
    BY <1>1, <2>1 DEF AloneInv, Closing, CloseSteps
  <2>3. isConnected[q]
    <3>1. q \in Present
      BY <1>0, <1>1, <2>1
    <3> QED
      BY <2>2, <3>1 DEF BaseInv, Present, Joining, Unconnected, JoinSteps,
         RequestSteps
  <2>4. n \in roster[r] /\ (r = q => n # actorNumber[c])
    BY <1>0, <2>1, <2>3
  <2>5. PICK s \in KnownTo(r) : n = actorNumber[s]
    BY <1>3, <2>1, <2>4 DEF NumbersOf
  <2>6. s \in KnownTo(r)'
    BY <1>0, <1>2, <2>1, <2>4, <2>5 DEF KnownTo
  <2> QED
    BY <2>1, <2>5, <2>6 DEF NumbersOf
<1>11. CASE CountPlayers(c)
  <2>1. /\ UNCHANGED <<playerHash, actorNumber, roster>> /\ todo[c] = {}
        /\ pc[c] = "announcing"
    BY <1>11 DEF CountPlayers, LoopDone
  <2>2. KnownTo(r) \subseteq KnownTo(r)'
    BY <1>2, <2>1 DEF KnownTo
  <2>3. pc[r] # "creating"
    BY <1>0, <1>2, <2>1
  <2> QED
    BY <1>4, <2>1, <2>2, <2>3
<1>12. ASSUME UNCHANGED <<playerHash, actorNumber, roster>>,
              pc[c] \notin {"creating", "announcing"}
       PROVE  n \in NumbersOf(KnownTo(r))'
  <2>1. KnownTo(r) \subseteq KnownTo(r)'
    BY <1>2, <1>12 DEF KnownTo
  <2> QED
    BY <1>0, <1>2, <1>4, <1>12, <2>1
<1>13. CASE Connect(c) \/ PostFirstRecv(c) \/ ReceiveRelay(c) \/ PostRecv(c)
            \/ ReceiveNothing(c) \/ PostRecvFails(c)
  BY <1>12, <1>13 DEF Connect, PostFirstRecv, ReceiveRelay, PostRecv,
     ReceiveNothing,
     PostRecvFails, BeginClose, RequestSteps
<1>14. CASE ResetServerMaster(c) \/ ResetServerNumber(c) \/ FinishElection(c)
  BY <1>12, <1>14 DEF ResetServerMaster, ResetMaster, ResetServerNumber,
     ResetNumber, FinishElection
<1>15. ASSUME NEW q \in Conn,
              Relay(c, q) \/ TellMaster(c, q) \/ Elect(c, q) \/ ReceiveChangeMaster(c, q)
       PROVE  n \in NumbersOf(KnownTo(r))'
  BY <1>12, <1>15 DEF Relay, TellMaster, Elect, ElectFirstPlayer,
     ReceiveChangeMaster, SetMasterClient
<1> QED
  BY <1>5, <1>6, <1>7, <1>8, <1>9, <1>10, <1>11, <1>13, <1>14, <1>15 DEF Step

(* A fault needs a disconnect beside another handler, unless it is a late  *)
(* request's or the freed handleInfo's.                                    *)
LEMMA FaultAlone ==
  ASSUME TypeOK, NumbersInv, AloneInv, KnownInv, MasterInv, NEW c \in Conn,
         Fault(c)
  PROVE  Survives'
<1>0. happened \subseteq happened'
  BY FaultFrame
<1>1. CASE ElectNobody(c)
  <2>1. /\ fault' = "empty" /\ pc[c] = "electing" /\ playerHash = {}
        /\ happened' = happened
    BY <1>1 DEF ElectNobody
  <2>2. "closeOverlap" \in happened
    BY <2>1 DEF MasterInv, Closing, CloseSteps
  <2> QED
    BY <2>1, <2>2 DEF Survives
<1>2. CASE IteratorFault(c)
  <2>1. fault' = "erased" /\ "busyClose" \in happened /\ happened' = happened
    BY <1>2 DEF IteratorFault, AloneInv
  <2> QED
    BY <2>1 DEF Survives
<1>3. CASE FreedFault(c)
  BY <1>3 DEF FreedFault, Survives
<1>4. ASSUME NEW n \in known[c], ReceiveForMissing(c, n)
      PROVE  Survives'
  <2>1. CASE n \notin roster[c]
    BY <1>4, <2>1 DEF ReceiveForMissing, Survives
  <2>2. CASE n \in roster[c]
    <3> SUFFICES ASSUME "busyClose" \notin happened'
                 PROVE  FALSE
      BY <1>4, <2>2 DEF ReceiveForMissing, Survives
    <3>1. /\ pc[c] = "reading" /\ Lookup(n) = {} /\ Closing = {}
          /\ "busyClose" \notin happened
      BY <1>0, <1>4 DEF ReceiveForMissing, Note
    <3>2. c \in playerHash
      BY <3>1 DEF AloneInv, NumbersInv, Present
    <3>3. n \in NumbersOf(playerHash)
      <4>1. \A d \in Conn : pc[d] # "announcing"
        BY <3>1 DEF Closing, CloseSteps
      <4>2. n \in NumbersOf(playerHash \cup
                    {d \in Conn : pc[d] = "announcing" /\ c \in todo[d]})
        BY <2>2, <3>1, <3>2 DEF KnownInv
      <4> QED
        BY <4>1, <4>2
    <3> QED
      BY <3>1, <3>3 DEF Lookup, NumbersOf
  <2> QED
    BY <2>1, <2>2
<1> QED
  BY <1>1, <1>2, <1>3, <1>4 DEF Fault

---------------------------------------------------------------------------
(* Disconnects have overlapped neither one another nor the start of a join *)
(* or of a master change.                                                  *)

(* Only one disconnect is under way, and no join or master change begins   *)
(* beside it, so the flag it noted when it began is right when it uses it. *)
LEMMA MasterStep ==
  ASSUME TypeOK, NumbersInv, MasterInv, NEW c \in Conn, Step(c)
  PROVE  MasterInv'
<1> SUFFICES ASSUME "closeOverlap" \notin happened'
             PROVE  MasterInv'
  BY DEF MasterInv
<1> USE DEF Goto, Visit, StartLoop, managerVars
<1>0. /\ pc \in [Conn -> Steps] /\ playerHash \in SUBSET Conn
      /\ isMasterClient \in [Conn -> BOOLEAN]
      /\ wasMaster \in [Conn -> BOOLEAN]
      /\ masterPlayer \in Conn \cup {NoPlayer} /\ NoPlayer \notin Conn
  BY ConnAssumption DEF TypeOK, ManagerTypeOK
<1>1. \A d \in Conn \ {c} : pc'[d] = pc[d] /\ wasMaster'[d] = wasMaster[d]
  BY Moves DEF OnlyMoves
<1>2. /\ "closeOverlap" \notin happened /\ "staleReset" \notin happened
      /\ playerHash = Present /\ \A d, e \in Closing : d = e
      /\ Closing = {} => SoleMaster
      /\ \A d, e \in Present : actorNumber[d] = actorNumber[e] => d = e
  BY Moves DEF OnlyMoves, MasterInv, NumbersInv
<1>3. pc[c] \in CloseSteps => Closing = {c}
  BY <1>2 DEF Closing
<1>4. pc'[c] \notin CloseSteps /\ Closing \subseteq {c} => Closing' = {}
  BY <1>1 DEF Closing
<1>5. pc'[c] \in CloseSteps /\ Closing \subseteq {c} => Closing' = {c}
  BY <1>1 DEF Closing
(* A step of another handler that leaves the table and the master alone.   *)
<1>6. ASSUME UNCHANGED <<playerHash, masterPlayer, isMasterClient>>,
             pc[c] \notin CloseSteps, pc'[c] \notin CloseSteps,
             "staleReset" \notin happened'
      PROVE  MasterInv'
  <2>1. Closing' = Closing /\ c \notin Closing
    BY <1>1, <1>6 DEF Closing
  <2>2. SoleMaster' = SoleMaster /\ NoMaster' = NoMaster
    BY <1>6 DEF SoleMaster, NoMaster
  <2> QED
    BY <1>1, <1>2, <1>6, <2>1, <2>2 DEF MasterInv, Closing
(* The step after which no disconnect is under way.                        *)
<1>7. ASSUME Closing' = {}, SoleMaster', "staleReset" \notin happened'
      PROVE  MasterInv'
  BY <1>7 DEF MasterInv
<1>8. CASE Accept(c)
  <2>1. /\ Closing = {} /\ pc[c] = "outside" /\ pc'[c] = "creating"
        /\ "staleReset" \notin happened' /\ c \notin playerHash
    BY <1>0, <1>2, <1>8 DEF Accept, Note, Present, JoinSteps, RequestSteps
  <2>2. /\ isMasterClient' = [isMasterClient EXCEPT ![c] = (playerHash = {})]
        /\ masterPlayer' = IF playerHash = {} THEN c ELSE masterPlayer
        /\ playerHash' = playerHash \cup {p \in {c} : Lookup(nextActorNumber) = {}}
    BY <1>8 DEF Accept, CreatePlayerInsert
  <2>3. SoleMaster'
    <3>1. CASE playerHash = {}
      <4>1. playerHash' = {c}
        BY <2>2, <3>1 DEF Lookup
      <4> QED
        BY <1>0, <2>2, <3>1, <4>1 DEF SoleMaster
    <3>2. CASE playerHash # {}
      <4>1. {p \in playerHash : isMasterClient[p]} = {masterPlayer}
        BY <1>2, <2>1, <3>2 DEF SoleMaster
      <4>2. /\ \A p \in playerHash : isMasterClient'[p] = isMasterClient[p]
            /\ isMasterClient'[c] = FALSE /\ masterPlayer' = masterPlayer
            /\ playerHash \subseteq playerHash'
            /\ playerHash' \subseteq playerHash \cup {c}
        BY <1>0, <2>1, <2>2, <3>2
      <4> QED
        BY <3>2, <4>1, <4>2 DEF SoleMaster
    <3> QED
      BY <3>1, <3>2
  <2> QED
    BY <1>4, <1>7, <2>1, <2>3 DEF CloseSteps
<1>9. CASE FinishCreate(c) \/ Connect(c) \/ PostFirstRecv(c) \/ ReceiveRelay(c)
           \/ PostRecv(c)
  <2>1. /\ UNCHANGED <<playerHash, masterPlayer, isMasterClient>>
        /\ pc[c] \in {"creating", "encoding", "notifying", "reading", "relaying",
                      "telling"}
        /\ pc'[c] \in {"encoding", "notifying", "reading", "orphaned", "relaying"}
        /\ "staleReset" \notin happened'
    BY <1>0, <1>2, <1>9 DEF FinishCreate, CreatePlayerNumber, Connect,
       PostFirstRecv,
       ReceiveRelay, PostRecv, Note
  <2> QED
    BY <1>6, <2>1 DEF CloseSteps
<1>10. ASSUME NEW p \in Conn, ReceiveChangeMaster(c, p)
       PROVE  MasterInv'
  <2>1. /\ Closing = {} /\ pc'[c] = "telling" /\ p \in playerHash
        /\ "staleReset" \notin happened' /\ playerHash' = playerHash
        /\ isMasterClient' =
             [q \in Conn |-> q = p \/ (isMasterClient[q] /\ q # masterPlayer)]
        /\ masterPlayer' = p
    BY <1>0, <1>2, <1>10 DEF ReceiveChangeMaster, SetMasterClient, Note
  <2>2. {q \in playerHash : isMasterClient[q]} = {masterPlayer}
    BY <1>2, <2>1 DEF SoleMaster
  <2>3. \A q \in playerHash : isMasterClient'[q] <=> q = p
    BY <1>0, <2>1, <2>2
  <2>4. SoleMaster'
    BY <2>1, <2>3 DEF SoleMaster
  <2> QED
    BY <1>4, <1>7, <2>1, <2>4 DEF CloseSteps
<1>11. ASSUME NEW r \in Conn,
              \/ EncodePlayer(c, r) \/ NotifyJoined(c, r) \/ Relay(c, r)
              \/ TellMaster(c, r) \/ AnnounceLeft(c, r)
       PROVE  MasterInv'
  <2>1. UNCHANGED <<playerHash, masterPlayer, isMasterClient, pc, wasMaster, happened>>
    BY <1>11 DEF EncodePlayer, NotifyJoined, Relay, TellMaster, AnnounceLeft
  <2> QED
    BY <2>1 DEF MasterInv, SoleMaster, NoMaster, Closing
<1>12. CASE ReceiveNothing(c) \/ PostRecvFails(c)
  <2>1. /\ Closing = {} /\ pc'[c] = "closing" /\ "staleReset" \notin happened'
        /\ UNCHANGED <<playerHash, masterPlayer, isMasterClient>>
        /\ wasMaster'[c] = isMasterClient[c]
    BY <1>0, <1>2, <1>12 DEF ReceiveNothing, PostRecvFails, BeginClose, Note
  <2>2. Closing' = {c}
    BY <1>5, <2>1 DEF CloseSteps
  <2>3. SoleMaster'
    BY <1>2, <2>1 DEF SoleMaster
  <2> QED
    BY <2>1, <2>2, <2>3 DEF MasterInv
<1>13. CASE Remove(c)
  <2>1. /\ pc[c] = "closing" /\ pc'[c] = "announcing"
        /\ "staleReset" \notin happened'
        /\ UNCHANGED <<masterPlayer, isMasterClient, wasMaster>>
        /\ playerHash' = playerHash \ Lookup(actorNumber[c])
    BY <1>0, <1>2, <1>13 DEF Remove, RemovePlayer, Note
  <2>2. c \in playerHash /\ Lookup(actorNumber[c]) = {c}
    BY <1>2, <2>1 DEF Present, Lookup
  <2>3. Closing = {c} /\ Closing' = {c}
    BY <1>3, <1>5, <2>1 DEF CloseSteps
  <2>4. /\ {p \in playerHash : isMasterClient[p]} = {masterPlayer}
        /\ wasMaster[c] = isMasterClient[c]
    BY <1>2, <2>1, <2>2, <2>3 DEF MasterInv, SoleMaster
  <2>5. IF wasMaster'[c] THEN NoMaster' ELSE SoleMaster' /\ playerHash' # {}
    BY <1>0, <2>1, <2>2, <2>4 DEF NoMaster, SoleMaster
  <2> QED
    BY <2>1, <2>3, <2>5 DEF MasterInv
<1>14. CASE CountPlayers(c)
  <2>1. /\ pc[c] = "announcing" /\ happened' = happened
        /\ UNCHANGED <<playerHash, masterPlayer, isMasterClient, wasMaster>>
        /\ \/ playerHash = {} /\ pc'[c] = "resetting"
           \/ playerHash # {} /\ wasMaster[c] /\ pc'[c] = "electing"
           \/ playerHash # {} /\ ~wasMaster[c] /\ pc'[c] = "gone"
    BY <1>0, <1>14 DEF CountPlayers
  <2>2. Closing = {c}
    BY <1>3, <2>1 DEF CloseSteps
  <2>3. IF wasMaster[c] THEN NoMaster ELSE SoleMaster /\ playerHash # {}
    BY <1>2, <2>1, <2>2 DEF MasterInv
  <2>4. SoleMaster' = SoleMaster /\ NoMaster' = NoMaster
    BY <2>1 DEF SoleMaster, NoMaster
  <2>5. CASE pc'[c] = "gone"
    BY <1>2, <1>4, <1>7, <2>1, <2>2, <2>3, <2>4, <2>5 DEF CloseSteps
  <2>6. CASE pc'[c] # "gone"
    <3>1. Closing' = {c}
      BY <1>5, <2>1, <2>2, <2>6 DEF CloseSteps
    <3> QED
      BY <1>2, <2>1, <2>3, <2>4, <2>6, <3>1 DEF MasterInv
  <2> QED
    BY <2>5, <2>6
<1>15. CASE ResetServerMaster(c)
  <2>1. /\ pc[c] = "resetting" /\ pc'[c] = "renumbering"
        /\ happened' = happened
        /\ masterPlayer' = NoPlayer /\ playerHash' = playerHash
    BY <1>0, <1>15 DEF ResetServerMaster, ResetMaster
  <2>2. Closing = {c} /\ Closing' = {c}
    BY <1>3, <1>5, <2>1 DEF CloseSteps
  <2> QED
    BY <1>2, <2>1, <2>2 DEF MasterInv
<1>16. CASE ResetServerNumber(c)
  <2>1. /\ pc[c] = "renumbering" /\ pc'[c] = "gone"
        /\ UNCHANGED <<masterPlayer, playerHash>>
        /\ happened' = happened \cup Note("staleReset", playerHash # {})
    BY <1>0, <1>16 DEF ResetServerNumber, ResetNumber
  <2>2. Closing = {c} /\ Closing' = {}
    BY <1>3, <1>4, <2>1 DEF CloseSteps
  <2>3. playerHash = {} /\ masterPlayer = NoPlayer
    BY <1>2, <2>1, <2>2 DEF MasterInv
  <2> QED
    BY <1>2, <1>7, <2>1, <2>2, <2>3 DEF SoleMaster, Note
<1>17. ASSUME NEW p \in Conn, Elect(c, p)
       PROVE  MasterInv'
  <2>1. /\ pc[c] = "electing" /\ pc'[c] = "elected" /\ happened' = happened
        /\ p \in playerHash /\ playerHash' = playerHash /\ masterPlayer' = p
        /\ isMasterClient' = [isMasterClient EXCEPT ![p] = TRUE]
    BY <1>0, <1>17 DEF Elect, ElectFirstPlayer
  <2>2. Closing = {c} /\ Closing' = {c}
    BY <1>3, <1>5, <2>1 DEF CloseSteps
  <2>3. NoMaster
    BY <1>2, <2>1, <2>2 DEF MasterInv
  <2>4. SoleMaster' /\ playerHash' # {}
    BY <1>0, <2>1, <2>3 DEF NoMaster, SoleMaster
  <2> QED
    BY <1>2, <2>1, <2>2, <2>4 DEF MasterInv
<1>18. CASE FinishElection(c)
  <2>1. /\ pc[c] = "elected" /\ pc'[c] = "gone" /\ happened' = happened
        /\ UNCHANGED <<masterPlayer, playerHash, isMasterClient>>
    BY <1>0, <1>18 DEF FinishElection
  <2>2. Closing = {c} /\ Closing' = {}
    BY <1>3, <1>4, <2>1 DEF CloseSteps
  <2>3. SoleMaster'
    BY <1>2, <2>1, <2>2 DEF MasterInv, SoleMaster
  <2> QED
    BY <1>2, <1>7, <2>1, <2>2, <2>3
<1> QED
  BY <1>8, <1>9, <1>10, <1>11, <1>12, <1>13, <1>14, <1>15, <1>16, <1>17,
     <1>18 DEF Step

---------------------------------------------------------------------------
(* The room has never been empty since the first player came.              *)

(* The counter only grows as long as no disconnect finds the room empty.   *)
LEMMA NeverEmptyStep ==
  ASSUME TypeOK, NumbersInv, NeverEmptyInv, NEW c \in Conn, Step(c)
  PROVE  NeverEmptyInv'
<1> SUFFICES ASSUME "emptied" \notin happened'
             PROVE  NeverEmptyInv'
  BY DEF NeverEmptyInv
<1> USE DEF Goto, Visit, StartLoop, managerVars
<1>0. /\ pc \in [Conn -> Steps] /\ playerHash \in SUBSET Conn
      /\ actorNumber \in [Conn -> Nat] /\ nextActorNumber \in Nat
  BY DEF TypeOK, ManagerTypeOK
<1>1. \A d \in Conn \ {c} : pc'[d] = pc[d] /\ actorNumber'[d] = actorNumber[d]
  BY Moves DEF OnlyMoves
<1>2. /\ "emptied" \notin happened /\ "staleReset" \notin happened
      /\ playerHash = {} => \A d \in Conn : pc[d] = "outside"
      /\ \A d \in Conn : pc[d] \notin {"resetting", "renumbering"}
      /\ \A d \in Conn : pc[d] \notin {"outside", "creating"} =>
           actorNumber[d] < nextActorNumber
      /\ \A d, e \in Conn : pc[d] # "outside" /\ pc[e] # "outside" =>
           (actorNumber[d] = actorNumber[e] => d = e)
  BY Moves DEF OnlyMoves, NeverEmptyInv
<1>3. playerHash = Present
  BY <1>2 DEF NumbersInv
<1>4. ASSUME UNCHANGED <<playerHash, actorNumber, nextActorNumber>>,
             pc[c] \notin {"outside", "creating"},
             pc'[c] \notin {"outside", "creating", "resetting", "renumbering"},
             "staleReset" \notin happened'
      PROVE  NeverEmptyInv'
  <2>1. playerHash # {}
    BY <1>2, <1>4
  <2>2. \A d \in Conn : (pc'[d] = "outside" <=> pc[d] = "outside")
                        /\ (pc'[d] = "creating" <=> pc[d] = "creating")
    BY <1>1, <1>4
  <2> QED
    BY <1>1, <1>2, <1>4, <2>1, <2>2 DEF NeverEmptyInv
<1>5. CASE Accept(c)
  <2>1. /\ Joining = {} /\ pc[c] = "outside" /\ pc'[c] = "creating"
        /\ "staleReset" \notin happened' /\ nextActorNumber' = nextActorNumber
        /\ actorNumber'[c] = nextActorNumber
        /\ playerHash' = playerHash \cup {p \in {c} : Lookup(nextActorNumber) = {}}
    BY <1>0, <1>2, <1>5 DEF Accept, CreatePlayerInsert, Note
  <2>2. \A d \in Conn : pc[d] # "outside" => actorNumber[d] < nextActorNumber
    BY <1>2, <2>1 DEF Joining, JoinSteps
  <2>3. Lookup(nextActorNumber) = {}
    BY <1>0, <1>3, <2>2 DEF Lookup, Present, JoinSteps, RequestSteps
  <2>4. playerHash' # {}
    BY <2>1, <2>3
  <2>5. \A d, e \in Conn : pc'[d] # "outside" /\ pc'[e] # "outside" =>
           (actorNumber'[d] = actorNumber'[e] => d = e)
    <3>1. \A d \in Conn \ {c} : pc'[d] # "outside" => actorNumber'[d] < nextActorNumber
      BY <1>1, <2>2
    <3>2. \A d \in Conn \ {c} : pc'[d] # "outside" => actorNumber'[d] # actorNumber'[c]
      BY <1>0, <1>1, <2>1, <3>1
    <3> QED
      BY <1>1, <1>2, <3>2
  <2>6. \A d \in Conn : /\ pc'[d] \notin {"resetting", "renumbering"}
                        /\ pc'[d] \notin {"outside", "creating"} =>
                             actorNumber'[d] < nextActorNumber'
    BY <1>1, <1>2, <2>1
  <2> QED
    BY <2>1, <2>4, <2>5, <2>6 DEF NeverEmptyInv
<1>6. CASE FinishCreate(c)
  <2>1. /\ pc[c] = "creating" /\ pc'[c] = "encoding" /\ happened' = happened
        /\ UNCHANGED <<playerHash, actorNumber>>
        /\ nextActorNumber' \in {nextActorNumber + 1, actorNumber[c] + 1}
    BY <1>0, <1>6 DEF FinishCreate, CreatePlayerNumber
  <2>2. actorNumber[c] = nextActorNumber
    BY <1>2, <2>1 DEF NumbersInv, Present, JoinSteps
  <2>3. \A d \in Conn : pc'[d] \notin {"outside", "creating"} =>
          actorNumber'[d] < nextActorNumber'
    <3>1. nextActorNumber' = nextActorNumber + 1 /\ actorNumber'[c] = nextActorNumber
      BY <2>1, <2>2
    <3>2. \A d \in Conn \ {c} : pc'[d] \notin {"outside", "creating"} =>
            actorNumber[d] < nextActorNumber /\ actorNumber[d] \in Nat
      BY <1>0, <1>1, <1>2
    <3> QED
      BY <1>0, <1>1, <3>1, <3>2
  <2>4. playerHash' # {}
    BY <1>2, <2>1
  <2> QED
    BY <1>1, <1>2, <2>1, <2>3, <2>4 DEF NeverEmptyInv
<1>7. CASE Connect(c) \/ PostFirstRecv(c) \/ ReceiveRelay(c) \/ PostRecv(c)
           \/ ReceiveNothing(c) \/ PostRecvFails(c)
  <2>1. /\ UNCHANGED <<playerHash, actorNumber, nextActorNumber>>
        /\ pc[c] \notin {"outside", "creating"}
        /\ pc'[c] \notin {"outside", "creating", "resetting", "renumbering"}
        /\ "staleReset" \notin happened'
    BY <1>0, <1>2, <1>7 DEF Connect, PostFirstRecv, ReceiveRelay, PostRecv,
       ReceiveNothing, PostRecvFails, BeginClose, RequestSteps, Note
  <2> QED
    BY <1>4, <2>1
<1>8. ASSUME NEW r \in Conn,
             \/ EncodePlayer(c, r) \/ NotifyJoined(c, r) \/ Relay(c, r)
             \/ TellMaster(c, r) \/ AnnounceLeft(c, r)
      PROVE  NeverEmptyInv'
  <2>1. UNCHANGED <<playerHash, actorNumber, nextActorNumber, pc, happened>>
    BY <1>8 DEF EncodePlayer, NotifyJoined, Relay, TellMaster, AnnounceLeft
  <2> QED
    BY <2>1 DEF NeverEmptyInv
<1>9. ASSUME NEW r \in Conn, Elect(c, r) \/ ReceiveChangeMaster(c, r)
      PROVE  NeverEmptyInv'
  <2>1. /\ UNCHANGED <<playerHash, actorNumber, nextActorNumber>>
        /\ pc[c] \in {"electing", "reading"}
        /\ pc'[c] \in {"elected", "telling"}
        /\ "staleReset" \notin happened'
    BY <1>0, <1>2, <1>9 DEF Elect, ElectFirstPlayer, ReceiveChangeMaster,
       SetMasterClient, Note
  <2> QED
    BY <1>4, <2>1
<1>10. CASE Remove(c)
  <2>1. /\ pc[c] = "closing" /\ pc'[c] = "announcing"
        /\ "staleReset" \notin happened' /\ playerHash' # {}
        /\ UNCHANGED <<actorNumber, nextActorNumber>>
    BY <1>0, <1>2, <1>10 DEF Remove, RemovePlayer, Note
  <2> QED
    BY <1>1, <1>2, <2>1 DEF NeverEmptyInv
<1>11. CASE CountPlayers(c) \/ FinishElection(c)
  <2>1. /\ UNCHANGED <<playerHash, actorNumber, nextActorNumber, happened>>
        /\ pc[c] \in {"announcing", "elected"}
        /\ pc'[c] \in {"electing", "gone"} \/ playerHash = {}
    BY <1>0, <1>11 DEF CountPlayers, FinishElection
  <2>2. playerHash # {}
    BY <1>2, <2>1
  <2> QED
    BY <1>2, <1>4, <2>1, <2>2
<1>12. CASE ResetServerMaster(c) \/ ResetServerNumber(c)
  BY <1>2, <1>12 DEF ResetServerMaster, ResetServerNumber
<1> QED
  BY <1>5, <1>6, <1>7, <1>8, <1>9, <1>10, <1>11, <1>12 DEF Step

(* The information of a join visits who was there when it was begun;       *)
(* PlayerJoined visits everybody there when the player is connected.       *)
LEMMA KnowAllStep ==
  ASSUME TypeOK, BaseInv, NumbersInv, NeverEmptyInv, KnowAllInv,
         NEW c \in Conn, Step(c)
  PROVE  KnowAllInv'
<1> DEFINE Knows(r, s) ==
      /\ pc[r] = "encoding" => s \in todo[r] \/ actorNumber[s] \in roster[r]
      /\ isConnected[r] /\ pc[s] \notin {"creating", "encoding"} =>
           \/ actorNumber[s] \in roster[r]
           \/ pc[s] = "notifying" /\ r \in todo[s]
<1> SUFFICES ASSUME "emptied" \notin happened',
                    NEW r \in playerHash', NEW s \in playerHash'
             PROVE  Knows(r, s)'
  BY DEF KnowAllInv
<1> USE DEF Goto, Visit, StartLoop, managerVars, clientVars, SendJoined,
           SendLeft
<1>0. /\ pc \in [Conn -> Steps] /\ playerHash \in SUBSET Conn
      /\ playerHash' \in SUBSET Conn
      /\ todo \in [Conn -> SUBSET Conn] /\ roster \in [Conn -> SUBSET Nat]
      /\ isConnected \in [Conn -> BOOLEAN] /\ actorNumber \in [Conn -> Nat]
  <2>1. playerHash' \subseteq playerHash \cup {c}
    BY Loops DEF Accept, CreatePlayerInsert, Remove, RemovePlayer
  <2> QED
    BY <2>1 DEF TypeOK, ManagerTypeOK
<1>1. \A d \in Conn \ {c} : /\ pc'[d] = pc[d] /\ actorNumber'[d] = actorNumber[d]
                            /\ isConnected'[d] = isConnected[d]
  BY Moves DEF OnlyMoves
<1>2. /\ "emptied" \notin happened /\ playerHash = Present
      /\ \A d, e \in Conn : pc[d] # "outside" /\ pc[e] # "outside" =>
           (actorNumber[d] = actorNumber[e] => d = e)
  BY Moves DEF OnlyMoves, NeverEmptyInv, NumbersInv
<1>3. \A q, p \in playerHash : Knows(q, p)
  BY <1>2 DEF KnowAllInv
<1>4. \A d \in Conn : isConnected[d] <=> pc[d] \notin Unconnected
  BY DEF BaseInv
(* A step of a handler that neither joins nor changes what anybody knows. *)
<1>5. ASSUME UNCHANGED <<actorNumber, roster, isConnected>>,
             playerHash' \subseteq playerHash,
             \A d \in Conn \ {c} : todo[d] \cap playerHash' \subseteq todo'[d],
             pc[c] \notin JoinSteps, pc'[c] \notin JoinSteps
      PROVE  Knows(r, s)'
  BY <1>0, <1>1, <1>3, <1>5 DEF JoinSteps
<1>6. CASE Accept(c)
  <2>1. /\ pc[c] = "outside" /\ pc'[c] = "creating"
        /\ UNCHANGED <<roster, isConnected>>
        /\ playerHash' \subseteq playerHash \cup {c}
    BY <1>0, <1>6 DEF Accept, CreatePlayerInsert
  <2>2. \A d \in Conn : todo[d] \subseteq todo'[d]
    BY <1>6, AcceptLoops
  <2>3. CASE r = c
    BY <1>4, <2>1, <2>3 DEF Unconnected
  <2>4. CASE r # c /\ s = c
    <3>1. pc[r] \notin JoinSteps /\ pc'[r] = pc[r]
      BY <1>0, <1>1, <1>6, <2>4 DEF Accept, Joining
    <3> QED
      BY <2>1, <2>4, <3>1 DEF JoinSteps
  <2>5. CASE r # c /\ s # c
    BY <1>0, <1>1, <1>3, <2>1, <2>2, <2>5
  <2> QED
    BY <2>3, <2>4, <2>5
<1>7. CASE FinishCreate(c)
  <2>1. /\ pc[c] = "creating" /\ pc'[c] = "encoding"
        /\ UNCHANGED <<playerHash, actorNumber, isConnected>>
        /\ todo'[c] = OthersOf(c) /\ roster'[c] = {actorNumber[c]}
        /\ \A d \in Conn \ {c} : todo'[d] = todo[d] /\ roster'[d] = roster[d]
    BY <1>0, <1>7 DEF FinishCreate, CreatePlayerNumber
  <2>2. CASE r = c
    BY <1>4, <2>1, <2>2 DEF OthersOf, Unconnected
  <2>3. CASE r # c
    BY <1>0, <1>1, <1>3, <2>1, <2>3
  <2> QED
    BY <2>2, <2>3
<1>8. ASSUME NEW q \in Conn, EncodePlayer(c, q)
      PROVE  Knows(r, s)'
  <2>1. /\ pc[c] = "encoding"
        /\ UNCHANGED <<playerHash, actorNumber, isConnected, pc>>
        /\ todo'[c] = todo[c] \ {q}
        /\ roster'[c] = roster[c] \cup {actorNumber[q]}
        /\ \A d \in Conn \ {c} : todo'[d] = todo[d] /\ roster'[d] = roster[d]
    BY <1>0, <1>8 DEF EncodePlayer
  <2>2. Knows(r, s)
    BY <1>3, <2>1
  <2>3. CASE r = c
    BY <1>4, <2>1, <2>2, <2>3 DEF Unconnected
  <2>4. CASE r # c
    BY <1>0, <2>1, <2>2, <2>4
  <2> QED
    BY <2>3, <2>4
<1>9. CASE Connect(c)
  <2>1. /\ pc[c] = "encoding" /\ pc'[c] = "notifying" /\ todo[c] = {}
        /\ UNCHANGED <<playerHash, actorNumber, roster>>
        /\ todo'[c] = OthersOf(c)
        /\ \A d \in Conn \ {c} : todo'[d] = todo[d]
    BY <1>0, <1>9 DEF Connect, LoopDone
  <2>2. Knows(r, s)
    BY <1>3, <2>1
  <2>3. CASE r = c
    BY <1>0, <1>1, <2>1, <2>2, <2>3
  <2>4. CASE r # c /\ s = c
    <3>1. pc[c] # "outside" /\ pc[r] # "outside"
      BY <1>2, <2>1 DEF Present, JoinSteps, RequestSteps
    <3>2. r \in OthersOf(c)
      BY <1>0, <1>2, <2>1, <2>4, <3>1 DEF OthersOf
    <3>3. pc'[r] # "encoding"
      BY <1>0, <1>1, <2>1, <2>4 DEF BaseInv, Joining, JoinSteps
    <3> QED
      BY <2>1, <2>4, <3>2, <3>3
  <2>5. CASE r # c /\ s # c
    BY <1>0, <1>1, <2>1, <2>2, <2>5
  <2> QED
    BY <2>3, <2>4, <2>5
<1>10. ASSUME NEW q \in Conn, NotifyJoined(c, q)
       PROVE  Knows(r, s)'
  <2>1. /\ pc[c] = "notifying"
        /\ UNCHANGED <<playerHash, actorNumber, isConnected, pc>>
        /\ todo'[c] = todo[c] \ {q}
        /\ \A d \in Conn \ {c} : todo'[d] = todo[d]
        /\ roster' = IF isConnected[q]
                     THEN [roster EXCEPT ![q] = roster[q] \cup {actorNumber[c]}]
                     ELSE roster
    BY <1>0, <1>10 DEF NotifyJoined
  <2>2. Knows(r, s)
    BY <1>3, <2>1
  <2>3. roster[r] \subseteq roster'[r]
    BY <1>0, <2>1
  <2>4. r = q /\ isConnected[r] => actorNumber[c] \in roster'[r]
    BY <1>0, <2>1
  <2>5. pc[r] # "encoding" \/ r # c
    BY <2>1
  <2>6. todo[r] = todo'[r] \/ r = c
    BY <1>0, <2>1
  <2>7. r \in todo[s] => r \in todo'[s] \/ (s = c /\ r = q)
    BY <1>0, <2>1
  <2> QED
    BY <2>1, <2>2, <2>3, <2>4, <2>5, <2>6, <2>7
<1>11. CASE PostFirstRecv(c)
  <2>1. /\ pc[c] = "notifying" /\ pc'[c] \in {"reading", "orphaned"}
        /\ todo[c] = {}
        /\ UNCHANGED <<playerHash, actorNumber, roster, isConnected>>
        /\ \A d \in Conn \ {c} : todo'[d] = todo[d]
    BY <1>0, <1>11 DEF PostFirstRecv, LoopDone
  <2>2. Knows(r, s)
    BY <1>3, <2>1
  <2> QED
    BY <1>0, <1>1, <2>1, <2>2
<1>12. ASSUME NEW q \in Conn, AnnounceLeft(c, q)
       PROVE  Knows(r, s)'
  <2>1. /\ pc[c] = "announcing"
        /\ UNCHANGED <<playerHash, actorNumber, isConnected, pc>>
        /\ \A d \in Conn \ {c} : todo'[d] = todo[d]
        /\ roster' = IF isConnected[q]
                     THEN [roster EXCEPT ![q] = roster[q] \ {actorNumber[c]}]
                     ELSE roster
    BY <1>0, <1>12 DEF AnnounceLeft
  <2>2. Knows(r, s)
    BY <1>3, <2>1
  <2>3. pc[s] # "outside" /\ s # c
    BY <1>2, <2>1 DEF Present, JoinSteps, RequestSteps
  <2>4. actorNumber[s] # actorNumber[c]
    BY <1>0, <1>2, <2>1, <2>3
  <2>5. actorNumber[s] \in roster[r] => actorNumber[s] \in roster'[r]
    BY <1>0, <2>1, <2>4
  <2> QED
    BY <1>0, <2>1, <2>2, <2>3, <2>5
<1>13. CASE ReceiveRelay(c) \/ PostRecv(c) \/ ReceiveNothing(c)
            \/ PostRecvFails(c)
            \/ CountPlayers(c)
  <2>1. /\ UNCHANGED <<actorNumber, roster, isConnected, playerHash>>
        /\ \A d \in Conn \ {c} : todo'[d] = todo[d]
        /\ pc[c] \in {"reading", "relaying", "telling", "announcing"}
        /\ pc'[c] \notin JoinSteps
    BY <1>0, <1>13 DEF ReceiveRelay, PostRecv, ReceiveNothing, PostRecvFails,
       BeginClose, CountPlayers, RequestSteps, JoinSteps
  <2> QED
    BY <1>5, <2>1 DEF JoinSteps
<1>14. CASE ResetServerMaster(c) \/ ResetServerNumber(c) \/ FinishElection(c)
  <2>1. /\ UNCHANGED <<actorNumber, roster, isConnected, playerHash>>
        /\ \A d \in Conn \ {c} : todo'[d] = todo[d]
        /\ pc[c] \notin JoinSteps /\ pc'[c] \notin JoinSteps
    BY <1>0, <1>14 DEF ResetServerMaster, ResetMaster, ResetServerNumber,
       ResetNumber, FinishElection, JoinSteps
  <2> QED
    BY <1>5, <2>1
<1>15. ASSUME NEW q \in Conn, Relay(c, q) \/ TellMaster(c, q)
       PROVE  Knows(r, s)'
  <2>1. /\ UNCHANGED <<actorNumber, roster, isConnected, playerHash, pc>>
        /\ \A d \in Conn \ {c} : todo'[d] = todo[d]
        /\ pc[c] \notin JoinSteps
    BY <1>0, <1>15 DEF Relay, TellMaster, JoinSteps
  <2> QED
    BY <1>5, <2>1
<1>16. ASSUME NEW q \in Conn, Elect(c, q) \/ ReceiveChangeMaster(c, q)
       PROVE  Knows(r, s)'
  <2>1. /\ UNCHANGED <<actorNumber, roster, isConnected, playerHash>>
        /\ \A d \in Conn \ {c} : todo'[d] = todo[d]
        /\ pc[c] \notin JoinSteps /\ pc'[c] \notin JoinSteps
    BY <1>0, <1>16 DEF Elect, ElectFirstPlayer, ReceiveChangeMaster,
       SetMasterClient,
       JoinSteps
  <2> QED
    BY <1>5, <2>1
<1>17. CASE Remove(c)
  <2>1. /\ UNCHANGED <<actorNumber, roster, isConnected>>
        /\ playerHash' \subseteq playerHash
        /\ \A d \in Conn \ {c} : todo'[d] = todo[d] \cap playerHash'
        /\ pc[c] = "closing" /\ pc'[c] = "announcing"
    BY <1>0, <1>17 DEF Remove, RemovePlayer
  <2> QED
    BY <1>5, <2>1 DEF JoinSteps
<1> QED
  BY <1>6, <1>7, <1>8, <1>9, <1>10, <1>11, <1>12, <1>13, <1>14, <1>15, <1>16,
     <1>17
     DEF Step

---------------------------------------------------------------------------
(* Joins, departures and master changes have come one at a time.           *)

ActiveSteps == JoinSteps \cup {"telling"} \cup CloseSteps

(* What begins finds no other join, departure or master change.            *)
LEMMA OneAtATimeStep ==
  ASSUME TypeOK, OneAtATime, NEW c \in Conn, Step(c)
  PROVE  OneAtATime'
<1> SUFFICES ASSUME "overlap" \notin happened'
             PROVE  OneAtATime'
  BY DEF OneAtATime
<1> USE DEF Goto, Visit, StartLoop, managerVars
<1>0. /\ pc \in [Conn -> Steps] /\ playerHash \in SUBSET Conn
      /\ actorNumber \in [Conn -> Nat]
  BY DEF TypeOK, ManagerTypeOK
<1>1. \A d \in Conn \ {c} : pc'[d] = pc[d] /\ actorNumber'[d] = actorNumber[d]
  BY Moves DEF OnlyMoves
<1>2. /\ "overlap" \notin happened /\ "closeOverlap" \notin happened
      /\ \A d, e \in Active : d = e
      /\ \A d \in Conn : pc[d] = "announcing" =>
           actorNumber[d] \notin NumbersOf(playerHash)
  BY Moves DEF OnlyMoves, OneAtATime
<1>3. \A d \in Conn : d \in Active <=> pc[d] \in ActiveSteps
  BY DEF Active, ActiveSteps, Joining, ChangingMaster, Closing
<1>4. \A d \in Conn : d \in Active' <=> pc'[d] \in ActiveSteps
  BY DEF Active, ActiveSteps, Joining, ChangingMaster, Closing
(* A step that keeps the table and the numbers and begins nothing.         *)
<1>5. ASSUME UNCHANGED <<playerHash, actorNumber>>, pc'[c] # "announcing" \/ pc' = pc,
             pc'[c] \in ActiveSteps => pc[c] \in ActiveSteps \/ Active \subseteq {c},
             "closeOverlap" \notin happened'
      PROVE  OneAtATime'
  <2>1. \A d, e \in Active' : d = e
    BY <1>1, <1>2, <1>3, <1>4, <1>5 DEF Active, Joining, ChangingMaster,
       Closing
  <2>2. \A d \in Conn : pc'[d] = "announcing" => pc[d] = "announcing"
    BY <1>1, <1>5
  <2>3. NumbersOf(playerHash)' = NumbersOf(playerHash)
    BY <1>5 DEF NumbersOf
  <2> QED
    BY <1>2, <1>5, <2>1, <2>2, <2>3 DEF OneAtATime
<1>6. CASE Accept(c)
  <2>1. /\ Active = {} /\ pc'[c] = "creating"
        /\ "closeOverlap" \notin happened'
    BY <1>0, <1>2, <1>6 DEF Accept, Note, Active
  <2>2. \A d \in Conn \ {c} : pc'[d] \notin ActiveSteps
    BY <1>1, <1>3, <2>1
  <2>3. \A d, e \in Active' : d = e
    BY <1>4, <2>2 DEF Active, Joining, ChangingMaster, Closing
  <2>4. \A d \in Conn : pc'[d] # "announcing"
    BY <2>1, <2>2 DEF ActiveSteps, CloseSteps
  <2> QED
    BY <2>1, <2>3, <2>4 DEF OneAtATime
<1>7. CASE FinishCreate(c) \/ Connect(c) \/ PostFirstRecv(c) \/ ReceiveRelay(c)
           \/ PostRecv(c)
  <2>1. /\ UNCHANGED <<playerHash, actorNumber>>
        /\ "closeOverlap" \notin happened'
        /\ pc'[c] # "announcing"
        /\ pc[c] \in ActiveSteps \/ pc'[c] \notin ActiveSteps
    BY <1>0, <1>2, <1>7 DEF FinishCreate, CreatePlayerNumber, Connect,
       PostFirstRecv,
       ReceiveRelay, PostRecv, Note, ActiveSteps, JoinSteps, CloseSteps
  <2> QED
    BY <1>5, <2>1
<1>8. CASE ReceiveNothing(c) \/ PostRecvFails(c)
  <2>1. /\ UNCHANGED <<playerHash, actorNumber>>
        /\ "closeOverlap" \notin happened'
        /\ pc'[c] = "closing"
        /\ Closing \cup Joining \cup (ChangingMaster \ {c}) = {}
    BY <1>0, <1>2, <1>8 DEF ReceiveNothing, PostRecvFails, BeginClose, Note
  <2>2. Active \subseteq {c}
    BY <2>1 DEF Active
  <2> QED
    BY <1>5, <2>1, <2>2
<1>9. ASSUME NEW r \in Conn, ReceiveChangeMaster(c, r)
      PROVE  OneAtATime'
  <2>1. /\ UNCHANGED <<playerHash, actorNumber>>
        /\ "closeOverlap" \notin happened'
        /\ pc'[c] = "telling" /\ Active = {}
    BY <1>0, <1>2, <1>9 DEF ReceiveChangeMaster, SetMasterClient, Note, Active
  <2> QED
    BY <1>5, <2>1
<1>10. ASSUME NEW r \in Conn,
              \/ EncodePlayer(c, r) \/ NotifyJoined(c, r) \/ Relay(c, r)
              \/ TellMaster(c, r) \/ AnnounceLeft(c, r)
       PROVE  OneAtATime'
  <2>1. UNCHANGED <<playerHash, actorNumber, pc, happened>>
    BY <1>10 DEF EncodePlayer, NotifyJoined, Relay, TellMaster, AnnounceLeft
  <2> QED
    BY <1>2, <1>5, <2>1
<1>11. CASE CountPlayers(c) \/ FinishElection(c) \/ ResetServerMaster(c)
            \/ ResetServerNumber(c) \/ \E r \in Conn : Elect(c, r)
  <2>1. /\ UNCHANGED <<playerHash, actorNumber>>
        /\ "closeOverlap" \notin happened'
        /\ pc[c] \in CloseSteps /\ pc'[c] # "announcing"
    BY <1>0, <1>2, <1>11 DEF CountPlayers, FinishElection, ResetServerMaster,
       ResetMaster, ResetServerNumber, ResetNumber, Elect, ElectFirstPlayer,
       Note, CloseSteps
  <2> QED
    BY <1>5, <2>1 DEF ActiveSteps
<1>12. CASE Remove(c)
  <2>1. /\ pc[c] = "closing" /\ pc'[c] = "announcing"
        /\ "closeOverlap" \notin happened'
        /\ actorNumber' = actorNumber
        /\ playerHash' = playerHash \ Lookup(actorNumber[c])
    BY <1>0, <1>2, <1>12 DEF Remove, RemovePlayer, Note
  <2>2. \A d \in Conn \ {c} : pc'[d] \notin ActiveSteps
    BY <1>1, <1>2, <1>3, <2>1 DEF ActiveSteps, CloseSteps
  <2>3. \A d, e \in Active' : d = e
    BY <1>4, <2>2 DEF Active, Joining, ChangingMaster, Closing
  <2>4. actorNumber'[c] \notin NumbersOf(playerHash)'
    BY <2>1 DEF Lookup, NumbersOf
  <2> QED
    BY <2>1, <2>2, <2>3, <2>4 DEF OneAtATime, ActiveSteps, CloseSteps
<1> QED
  BY <1>6, <1>7, <1>8, <1>9, <1>10, <1>11, <1>12 DEF Step

(* Those whom the messages sent to r leave in the room.                    *)
Heard(r) == (playerHash \ Unheard(r)) \cup Untold(r)

(* Each message takes one player from Unheard or from Untold of its        *)
(* receiver as it adds or takes that player's number.                      *)
LEMMA RosterStep ==
  ASSUME TypeOK, BaseInv, NumbersInv, MasterInv, OneAtATime, RosterInv,
         NEW c \in Conn, Step(c)
  PROVE  RosterInv'
<1> SUFFICES ASSUME "overlap" \notin happened',
                    NEW r \in playerHash', pc'[r] # "creating"
             PROVE  roster'[r] = NumbersOf(Heard(r))'
  BY DEF RosterInv, Heard
<1> USE DEF Goto, Visit, StartLoop, managerVars, clientVars, SendJoined,
           SendLeft
<1>0. /\ pc \in [Conn -> Steps] /\ playerHash \in SUBSET Conn
      /\ playerHash' \subseteq playerHash \cup {c}
      /\ todo \in [Conn -> SUBSET Conn] /\ roster \in [Conn -> SUBSET Nat]
      /\ actorNumber \in [Conn -> Nat]
  <2>1. playerHash' \subseteq playerHash \cup {c}
    BY Loops DEF Accept, CreatePlayerInsert, Remove, RemovePlayer
  <2> QED
    BY <2>1 DEF TypeOK, ManagerTypeOK
<1>1. \A d \in Conn \ {c} : pc'[d] = pc[d] /\ actorNumber'[d] = actorNumber[d]
  BY Moves DEF OnlyMoves
<1>2. /\ "overlap" \notin happened
      /\ \A d, e \in Active : d = e
      /\ \A d \in Conn : pc[d] = "announcing" =>
           actorNumber[d] \notin NumbersOf(playerHash)
      /\ playerHash = Present
      /\ \A d, e \in Present : actorNumber[d] = actorNumber[e] => d = e
  BY Moves DEF OnlyMoves, OneAtATime, MasterInv, NumbersInv
<1>3. \A d \in Conn : d \in Active <=> pc[d] \in ActiveSteps
  BY DEF Active, ActiveSteps, Joining, ChangingMaster, Closing
<1>4. \A q \in playerHash : pc[q] # "creating" => roster[q] = NumbersOf(Heard(q))
  BY <1>2 DEF RosterInv, Heard
<1>5. pc[c] \in ActiveSteps => \A d \in Conn \ {c} : pc[d] \notin ActiveSteps
  BY <1>2, <1>3
<1>6. \A q \in playerHash : pc[q] \notin JoinSteps => isConnected[q]
  <2>1. \A q \in playerHash : pc[q] # "outside"
    BY <1>2 DEF Present, JoinSteps, RequestSteps
  <2> QED
    BY <1>0, <2>1 DEF BaseInv, Unconnected, JoinSteps
(* A step that changes nothing r has heard of.                             *)
<1>7. ASSUME r \in playerHash, pc[r] # "creating", UNCHANGED actorNumber,
             roster'[r] = roster[r], Heard(r)' = Heard(r)
      PROVE  roster'[r] = NumbersOf(Heard(r))'
  BY <1>4, <1>7 DEF NumbersOf
<1>8. ASSUME UNCHANGED <<playerHash, actorNumber, roster>>,
             \A d \in Conn \ {c} : todo'[d] = todo[d],
             pc[c] \notin {"creating", "encoding", "notifying", "announcing"},
             pc'[c] \notin {"creating", "encoding", "notifying", "announcing"}
      PROVE  roster'[r] = NumbersOf(Heard(r))'
  <2>1. Untold(r)' = Untold(r) /\ Unheard(r)' = Unheard(r)
    BY <1>0, <1>1, <1>8 DEF Untold, Unheard
  <2> QED
    BY <1>0, <1>1, <1>7, <1>8, <2>1 DEF Heard
<1>9. CASE Accept(c)
  <2>1. /\ Active = {} /\ pc'[c] = "creating" /\ pc[c] = "outside"
        /\ roster' = roster
        /\ playerHash' \ {c} = playerHash \ {c} /\ c \notin playerHash
    BY <1>0, <1>2, <1>9 DEF Accept, CreatePlayerInsert, Note, Active, Present,
       JoinSteps, RequestSteps
  <2>2. r # c /\ r \in playerHash /\ \A d \in Conn : pc[d] \notin ActiveSteps
    BY <1>0, <1>3, <2>1
  <2>3. Unheard(r) = {} /\ Untold(r) = {}
    BY <1>0, <2>2 DEF Unheard, Untold, ActiveSteps, JoinSteps, CloseSteps
  <2>4. Unheard(r)' = {c} /\ Untold(r)' = {}
    BY <1>0, <1>1, <2>1, <2>2 DEF Unheard, Untold, ActiveSteps, JoinSteps,
       CloseSteps
  <2>5. Heard(r)' = playerHash /\ Heard(r) = playerHash
    BY <2>1, <2>3, <2>4 DEF Heard
  <2>6. roster'[r] = NumbersOf(playerHash)
    <3>1. r \in Conn /\ pc[r] # "creating"
      BY <1>0, <2>2 DEF ActiveSteps, JoinSteps
    <3>2. roster[r] = NumbersOf(playerHash)
      BY <1>4, <2>2, <2>5, <3>1
    <3> QED
      BY <2>1, <3>2
  <2>7. \A p \in playerHash : actorNumber'[p] = actorNumber[p]
    BY <1>0, <1>1, <2>1
  <2> QED
    BY <2>5, <2>6, <2>7 DEF NumbersOf
<1>10. CASE FinishCreate(c)
  <2>1. /\ pc[c] = "creating" /\ pc'[c] = "encoding"
        /\ UNCHANGED <<playerHash, actorNumber>>
        /\ todo'[c] = OthersOf(c) /\ roster'[c] = {actorNumber[c]}
        /\ \A d \in Conn \ {c} : todo'[d] = todo[d] /\ roster'[d] = roster[d]
    BY <1>0, <1>10 DEF FinishCreate, CreatePlayerNumber
  <2>2. \A d \in Conn \ {c} : pc[d] \notin ActiveSteps
    BY <1>5, <2>1 DEF ActiveSteps, JoinSteps
  <2>3. c \in playerHash
    BY <1>2, <2>1 DEF Present, JoinSteps
  <2>4. CASE r = c
    <3>1. Unheard(c)' = OthersOf(c) /\ Untold(c)' = {}
      BY <1>1, <2>1, <2>2 DEF Unheard, Untold, ActiveSteps, CloseSteps
    <3>2. \A p \in playerHash : p \notin OthersOf(c) <=> actorNumber[p] = actorNumber[c]
      BY DEF OthersOf
    <3>3. \A p : p \in Heard(c)' <=> p \in playerHash /\ actorNumber[p] = actorNumber[c]
      BY <2>1, <3>1, <3>2 DEF Heard
    <3>4. NumbersOf(Heard(c))' = {actorNumber[c]}
      BY <2>1, <2>3, <3>3 DEF NumbersOf
    <3> QED
      BY <2>1, <2>4, <3>4
  <2>5. CASE r # c
    <3>1. pc[r] \notin ActiveSteps /\ pc'[r] = pc[r]
      BY <1>0, <1>1, <2>1, <2>2, <2>5
    <3>2. Unheard(r) = {c} /\ Unheard(r)' = {c}
      BY <1>0, <1>1, <2>1, <2>2, <2>5, <3>1 DEF Unheard, ActiveSteps, JoinSteps
    <3>3. Untold(r) = {} /\ Untold(r)' = {}
      BY <1>0, <1>1, <2>1, <2>2, <2>5 DEF Untold, ActiveSteps, CloseSteps
    <3>4. Heard(r)' = Heard(r)
      BY <2>1, <3>2, <3>3 DEF Heard
    <3>5. pc[r] # "creating" /\ r \in playerHash /\ roster'[r] = roster[r]
      BY <1>0, <2>1, <2>5, <3>1 DEF ActiveSteps, JoinSteps
    <3> QED
      BY <1>7, <2>1, <3>4, <3>5
  <2> QED
    BY <2>4, <2>5
<1>11. ASSUME NEW q \in Conn, EncodePlayer(c, q)
       PROVE  roster'[r] = NumbersOf(Heard(r))'
  <2>1. /\ pc[c] = "encoding" /\ UNCHANGED <<playerHash, actorNumber, pc>>
        /\ q \in todo[c] /\ q \in playerHash
        /\ todo'[c] = todo[c] \ {q}
        /\ roster'[c] = roster[c] \cup {actorNumber[q]}
        /\ \A d \in Conn \ {c} : todo'[d] = todo[d] /\ roster'[d] = roster[d]
    BY <1>0, <1>11 DEF EncodePlayer, BaseInv
  <2>2. \A d \in Conn \ {c} : pc[d] \notin ActiveSteps
    BY <1>5, <2>1 DEF ActiveSteps, JoinSteps
  <2>3. CASE r = c
    <3>1. /\ Unheard(c) = todo[c] /\ Unheard(c)' = todo[c] \ {q}
          /\ Untold(c) = {} /\ Untold(c)' = {}
      BY <2>1, <2>2 DEF Unheard, Untold, ActiveSteps, CloseSteps
    <3>2. Heard(c)' = Heard(c) \cup {q}
      BY <2>1, <3>1 DEF Heard
    <3>3. roster[c] = NumbersOf(Heard(c))
      BY <1>4, <2>1, <2>3
    <3> QED
      BY <2>1, <2>3, <3>2, <3>3 DEF NumbersOf
  <2>4. CASE r # c
    <3>1. Unheard(r)' = Unheard(r) /\ Untold(r)' = Untold(r)
      BY <1>0, <2>1, <2>2, <2>4 DEF Unheard, Untold, ActiveSteps, JoinSteps
    <3> QED
      BY <1>0, <1>7, <2>1, <2>4, <3>1 DEF Heard
  <2> QED
    BY <2>3, <2>4
<1>12. CASE Connect(c)
  <2>1. /\ pc[c] = "encoding" /\ pc'[c] = "notifying" /\ todo[c] = {}
        /\ UNCHANGED <<playerHash, actorNumber, roster>>
        /\ todo'[c] = OthersOf(c)
        /\ \A d \in Conn \ {c} : todo'[d] = todo[d]
    BY <1>0, <1>12 DEF Connect, LoopDone
  <2>2. \A d \in Conn \ {c} : pc[d] \notin ActiveSteps
    BY <1>5, <2>1 DEF ActiveSteps, JoinSteps
  <2>3. Unheard(r)' = Unheard(r) /\ Untold(r)' = Untold(r)
    <3>1. CASE r = c
      BY <1>1, <2>1, <2>2, <3>1 DEF Unheard, Untold, ActiveSteps, JoinSteps,
         CloseSteps
    <3>2. CASE r # c
      <4>1. c \in Present
        BY <2>1 DEF Present, JoinSteps
      <4>2. r \in OthersOf(c)
        BY <1>2, <2>1, <3>2, <4>1 DEF OthersOf
      <4>3. Unheard(r) = {c} /\ Unheard(r)' = {c}
        BY <1>0, <1>1, <2>1, <2>2, <3>2, <4>2 DEF Unheard, ActiveSteps,
           JoinSteps
      <4> QED
        BY <1>1, <2>1, <4>3 DEF Untold
    <3> QED
      BY <3>1, <3>2
  <2> QED
    BY <1>0, <1>1, <1>7, <2>1, <2>3 DEF Heard
<1>13. ASSUME NEW q \in Conn, NotifyJoined(c, q)
       PROVE  roster'[r] = NumbersOf(Heard(r))'
  <2>1. /\ pc[c] = "notifying" /\ UNCHANGED <<playerHash, actorNumber, pc>>
        /\ q \in todo[c] /\ q \in playerHash /\ q # c
        /\ todo'[c] = todo[c] \ {q} /\ \A d \in Conn \ {c} : todo'[d] = todo[d]
        /\ roster' = IF isConnected[q]
                     THEN [roster EXCEPT ![q] = roster[q] \cup {actorNumber[c]}]
                     ELSE roster
    BY <1>0, <1>13 DEF NotifyJoined, BaseInv
  <2>2. \A d \in Conn \ {c} : pc[d] \notin ActiveSteps
    BY <1>5, <2>1 DEF ActiveSteps, JoinSteps
  <2>3. isConnected[q] /\ c \in playerHash
    BY <1>2, <1>6, <2>1, <2>2 DEF ActiveSteps, Present, JoinSteps
  <2>4. CASE r = q
    <3>1. Unheard(q) = {c} /\ Unheard(q)' = {}
      BY <2>1, <2>2 DEF Unheard, ActiveSteps, JoinSteps
    <3>2. Untold(q)' = Untold(q)
      BY <2>1 DEF Untold
    <3>3. Heard(q)' = Heard(q) \cup {c}
      BY <2>1, <2>3, <3>1, <3>2 DEF Heard
    <3>4. roster'[q] = roster[q] \cup {actorNumber[c]} /\ roster[q] = NumbersOf(Heard(q))
      BY <1>0, <1>4, <2>1, <2>3, <2>4
    <3> QED
      BY <2>1, <2>4, <3>3, <3>4 DEF NumbersOf
  <2>5. CASE r # q
    <3>1. Unheard(r)' = Unheard(r) /\ Untold(r)' = Untold(r)
      BY <1>0, <2>1, <2>2, <2>5 DEF Unheard, Untold, ActiveSteps, JoinSteps
    <3> QED
      BY <1>0, <1>7, <2>1, <2>5, <3>1 DEF Heard
  <2> QED
    BY <2>4, <2>5
<1>14. CASE PostFirstRecv(c)
  <2>1. /\ pc[c] = "notifying" /\ pc'[c] \in {"reading", "orphaned"}
        /\ todo[c] = {}
        /\ UNCHANGED <<playerHash, actorNumber, roster>>
        /\ \A d \in Conn \ {c} : todo'[d] = todo[d]
    BY <1>0, <1>14 DEF PostFirstRecv, LoopDone
  <2>2. Unheard(r)' = Unheard(r) /\ Untold(r)' = Untold(r)
    BY <1>0, <1>1, <2>1 DEF Unheard, Untold
  <2> QED
    BY <1>0, <1>1, <1>7, <2>1, <2>2 DEF Heard
<1>15. CASE Remove(c)
  <2>1. /\ pc[c] = "closing" /\ pc'[c] = "announcing" /\ todo'[c] = playerHash'
        /\ UNCHANGED <<actorNumber, roster>>
        /\ playerHash' = playerHash \ Lookup(actorNumber[c])
    BY <1>0, <1>15 DEF Remove, RemovePlayer
  <2>2. \A d \in Conn \ {c} : pc[d] \notin ActiveSteps
    BY <1>5, <2>1 DEF ActiveSteps, CloseSteps
  <2>3. c \in playerHash /\ Lookup(actorNumber[c]) = {c}
    BY <1>2, <2>1 DEF Present, Lookup
  <2>4. r \in playerHash /\ r # c
    BY <2>1, <2>3
  <2>5. Unheard(r) = {} /\ Untold(r) = {} /\ Unheard(r)' = {} /\ Untold(r)' = {c}
    BY <1>0, <1>1, <2>1, <2>2, <2>4 DEF Unheard, Untold, ActiveSteps,
       JoinSteps,
       CloseSteps
  <2>6. Heard(r)' = Heard(r)
    BY <2>1, <2>3, <2>5 DEF Heard
  <2> QED
    BY <1>0, <1>1, <1>7, <2>1, <2>4, <2>6
<1>16. ASSUME NEW q \in Conn, AnnounceLeft(c, q)
       PROVE  roster'[r] = NumbersOf(Heard(r))'
  <2>1. /\ pc[c] = "announcing" /\ UNCHANGED <<playerHash, actorNumber, pc>>
        /\ q \in todo[c] /\ q \in playerHash
        /\ todo'[c] = todo[c] \ {q} /\ \A d \in Conn \ {c} : todo'[d] = todo[d]
        /\ roster' = IF isConnected[q]
                     THEN [roster EXCEPT ![q] = roster[q] \ {actorNumber[c]}]
                     ELSE roster
    BY <1>0, <1>16 DEF AnnounceLeft, BaseInv
  <2>2. \A d \in Conn \ {c} : pc[d] \notin ActiveSteps
    BY <1>5, <2>1 DEF ActiveSteps, CloseSteps
  <2>3. c \notin playerHash
    BY <1>2, <2>1 DEF Present, JoinSteps, RequestSteps
  <2>4. isConnected[q] /\ q # c
    BY <1>6, <2>1, <2>2, <2>3 DEF ActiveSteps
  <2>5. CASE r = q
    <3>1. Untold(q) = {c} /\ Untold(q)' = {} /\ Unheard(q) = {} /\ Unheard(q)' = {}
      BY <1>0, <2>1, <2>2, <2>4 DEF Untold, Unheard, ActiveSteps, JoinSteps,
         CloseSteps
    <3>2. Heard(q)' = playerHash /\ Heard(q) = playerHash \cup {c}
      BY <2>1, <3>1 DEF Heard
    <3>3. roster[q] = NumbersOf(playerHash \cup {c})
      BY <1>4, <2>1, <2>5, <3>2
    <3>4. roster'[q] = roster[q] \ {actorNumber[c]}
      BY <1>0, <2>1, <2>4
    <3>5. NumbersOf(playerHash \cup {c}) = NumbersOf(playerHash) \cup {actorNumber[c]}
      BY DEF NumbersOf
    <3>6. actorNumber[c] \notin NumbersOf(playerHash)
      BY <1>2, <2>1
    <3>7. roster'[q] = NumbersOf(playerHash)
      BY <3>3, <3>4, <3>5, <3>6
    <3> QED
      BY <2>1, <2>5, <3>2, <3>7 DEF NumbersOf
  <2>6. CASE r # q
    <3>1. Unheard(r)' = Unheard(r) /\ Untold(r)' = Untold(r)
      BY <1>0, <2>1, <2>2, <2>6 DEF Unheard, Untold, ActiveSteps, JoinSteps
    <3> QED
      BY <1>0, <1>7, <2>1, <2>6, <3>1 DEF Heard
  <2> QED
    BY <2>5, <2>6
<1>17. CASE CountPlayers(c)
  <2>1. /\ pc[c] = "announcing" /\ pc'[c] \in {"resetting", "electing", "gone"}
        /\ todo[c] = {} /\ UNCHANGED <<playerHash, actorNumber, roster>>
        /\ \A d \in Conn \ {c} : todo'[d] = todo[d]
    BY <1>0, <1>17 DEF CountPlayers, LoopDone
  <2>2. Unheard(r)' = Unheard(r) /\ Untold(r)' = Untold(r)
    BY <1>0, <1>1, <2>1 DEF Unheard, Untold
  <2> QED
    BY <1>0, <1>1, <1>7, <2>1, <2>2 DEF Heard
<1>18. CASE ReceiveRelay(c) \/ PostRecv(c) \/ ReceiveNothing(c)
            \/ PostRecvFails(c)
  <2>1. /\ UNCHANGED <<playerHash, actorNumber, roster>>
        /\ \A d \in Conn \ {c} : todo'[d] = todo[d]
        /\ pc[c] \in {"reading", "relaying", "telling"}
        /\ pc'[c] \in {"reading", "relaying", "telling", "closing"}
    BY <1>0, <1>18 DEF ReceiveRelay, PostRecv, ReceiveNothing, PostRecvFails,
       BeginClose, RequestSteps
  <2> QED
    BY <1>8, <2>1
<1>19. CASE ResetServerMaster(c) \/ ResetServerNumber(c) \/ FinishElection(c)
  <2>1. /\ UNCHANGED <<playerHash, actorNumber, roster>>
        /\ \A d \in Conn \ {c} : todo'[d] = todo[d]
        /\ pc[c] \in {"resetting", "renumbering", "elected"}
        /\ pc'[c] \in {"renumbering", "gone"}
    BY <1>0, <1>19 DEF ResetServerMaster, ResetMaster, ResetServerNumber,
       ResetNumber, FinishElection
  <2> QED
    BY <1>8, <2>1
<1>20. ASSUME NEW q \in Conn,
              \/ Relay(c, q) \/ TellMaster(c, q) \/ Elect(c, q)
              \/ ReceiveChangeMaster(c, q)
       PROVE  roster'[r] = NumbersOf(Heard(r))'
  <2>1. /\ UNCHANGED <<playerHash, actorNumber, roster>>
        /\ \A d \in Conn \ {c} : todo'[d] = todo[d]
        /\ pc[c] \in {"relaying", "telling", "electing", "elected", "reading"}
        /\ pc'[c] \in {"relaying", "telling", "elected"}
    BY <1>0, <1>20 DEF Relay, TellMaster, Elect, ElectFirstPlayer,
       ReceiveChangeMaster, SetMasterClient
  <2> QED
    BY <1>8, <2>1
<1> QED
  BY <1>9, <1>10, <1>11, <1>12, <1>13, <1>14, <1>15, <1>16, <1>17, <1>18,
     <1>19,
     <1>20 DEF Step

(* What r has been told, or will be, of the master.                        *)
ToldOfMaster(r) ==
  \/ toldMaster[r] = actorNumber[masterPlayer]
  \/ pc[r] = "encoding" /\ masterPlayer \in todo[r]
  \/ \E c \in Conn : \/ pc[c] \in {"telling", "elected"} /\ r \in todo[c]
                     \/ pc[c] = "electing"

NewMasterKnown ==
  \A c \in Conn : pc[c] \in {"telling", "elected"} =>
    newMaster[c] = actorNumber[masterPlayer]

(* A new master is told to everybody by the loop that began with it; a     *)
(* joiner comes to the master's entry or is the master.                    *)
LEMMA MasterToldStep ==
  ASSUME TypeOK, BaseInv, NumbersInv, MasterInv, OneAtATime, MasterToldInv,
         NEW c \in Conn, Step(c)
  PROVE  MasterToldInv'
<1> SUFFICES ASSUME "overlap" \notin happened'
             PROVE  MasterToldInv'
  BY DEF MasterToldInv
<1> SUFFICES /\ NewMasterKnown'
             /\ \A r \in playerHash' : pc'[r] # "creating" => ToldOfMaster(r)'
  BY DEF MasterToldInv, NewMasterKnown, ToldOfMaster
<1> DEFINE Goal == /\ NewMasterKnown'
                   /\ \A r \in playerHash' : pc'[r] # "creating" => ToldOfMaster(r)'
<1> USE DEF Goto, Visit, StartLoop, managerVars, clientVars, SendMaster
<1>0. /\ pc \in [Conn -> Steps] /\ playerHash \in SUBSET Conn
      /\ todo \in [Conn -> SUBSET Conn] /\ toldMaster \in [Conn -> Nat]
      /\ newMaster \in [Conn -> Nat]
      /\ actorNumber \in [Conn -> Nat]
      /\ \A d \in Conn : todo[d] \subseteq playerHash
  BY DEF TypeOK, ManagerTypeOK, BaseInv
<1>1. \A d \in Conn \ {c} : /\ pc'[d] = pc[d] /\ actorNumber'[d] = actorNumber[d]
                            /\ newMaster'[d] = newMaster[d]
  BY Moves DEF OnlyMoves
<1>2. /\ "overlap" \notin happened
      /\ \A d, e \in Active : d = e
      /\ playerHash = Present
      /\ \A d, e \in Present : actorNumber[d] = actorNumber[e] => d = e
      /\ Closing = {} => SoleMaster
      /\ \A d \in Closing : pc[d] \in {"resetting", "renumbering"} => playerHash = {}
  BY Moves DEF OnlyMoves, OneAtATime, MasterInv, NumbersInv
<1>3. \A d \in Conn : d \in Active <=> pc[d] \in ActiveSteps
  BY DEF Active, ActiveSteps, Joining, ChangingMaster, Closing
<1>4. NewMasterKnown /\ \A r \in playerHash : pc[r] # "creating" => ToldOfMaster(r)
  BY <1>2 DEF MasterToldInv, NewMasterKnown, ToldOfMaster
<1>5. pc[c] \in ActiveSteps => \A d \in Conn \ {c} : pc[d] \notin ActiveSteps
  BY <1>2, <1>3
<1>6. \A q \in playerHash : pc[q] \notin JoinSteps => isConnected[q]
  <2>1. \A q \in playerHash : pc[q] # "outside"
    BY <1>2 DEF Present, JoinSteps, RequestSteps
  <2> QED
    BY <1>0, <2>1 DEF BaseInv, Unconnected, JoinSteps
(* A step that has nothing to do with the master.                          *)
<1>7. ASSUME UNCHANGED <<playerHash, masterPlayer, actorNumber, toldMaster>>,
             \A d \in Conn \ {c} : todo'[d] = todo[d],
             pc[c] \notin {"creating", "encoding", "telling", "electing", "elected"},
             pc'[c] \notin {"creating", "encoding", "telling", "electing", "elected"}
      PROVE  Goal
  <2>1. NewMasterKnown'
    BY <1>1, <1>4, <1>7 DEF NewMasterKnown
  <2>2. ASSUME NEW r \in playerHash', pc'[r] # "creating"
        PROVE  ToldOfMaster(r)'
    <3>1. r \in playerHash /\ r \in Conn /\ pc[r] # "creating"
      BY <1>0, <1>1, <1>7, <2>2
    <3>2. ToldOfMaster(r)
      BY <1>4, <3>1
    <3> QED
      BY <1>1, <1>7, <3>1, <3>2 DEF ToldOfMaster
  <2> QED
    BY <2>1, <2>2
(* The only handler of its kind, at a step when everybody has been told.   *)
<1>8. ASSUME UNCHANGED <<masterPlayer, actorNumber, toldMaster>>,
             playerHash' \subseteq playerHash,
             pc[c] \in ActiveSteps, pc'[c] \notin {"telling", "elected"},
             \A r \in playerHash' : toldMaster[r] = actorNumber[masterPlayer]
      PROVE  Goal
  <2>1. \A d \in Conn \ {c} : pc'[d] \notin ActiveSteps
    BY <1>1, <1>5, <1>8
  <2>2. NewMasterKnown'
    BY <1>8, <2>1 DEF NewMasterKnown, ActiveSteps, CloseSteps
  <2> QED
    BY <1>8, <2>2 DEF ToldOfMaster
(* Those who have been told when no handler of the kind runs but c's.      *)
<1>9. ASSUME \A d \in Conn \ {c} : pc[d] \notin ActiveSteps,
             NEW r \in playerHash, pc[r] # "creating",
             pc[c] \in {"telling", "elected"} => r \notin todo[c],
             pc[c] # "electing",
             r = c => pc[c] # "encoding" \/ masterPlayer \notin todo[c]
      PROVE  toldMaster[r] = actorNumber[masterPlayer]
  <2>1. ToldOfMaster(r) /\ r \in Conn
    BY <1>0, <1>4, <1>9
  <2>2. ~\E d \in Conn : \/ pc[d] \in {"telling", "elected"} /\ r \in todo[d]
                         \/ pc[d] = "electing"
    BY <1>9 DEF ActiveSteps, CloseSteps
  <2>3. ~(pc[r] = "encoding" /\ masterPlayer \in todo[r])
    BY <1>9, <2>1 DEF ActiveSteps, JoinSteps
  <2> QED
    BY <2>1, <2>2, <2>3 DEF ToldOfMaster
<1>10. CASE Accept(c)
  <2>1. /\ Active = {} /\ pc'[c] = "creating" /\ pc[c] = "outside"
        /\ toldMaster' = toldMaster
        /\ playerHash' \ {c} = playerHash \ {c} /\ c \notin playerHash
        /\ masterPlayer' = IF playerHash = {} THEN c ELSE masterPlayer
    BY <1>0, <1>2, <1>10 DEF Accept, CreatePlayerInsert, Note, Active, Present,
       JoinSteps, RequestSteps
  <2>2. \A d \in Conn : pc[d] \notin ActiveSteps
    BY <1>3, <2>1
  <2>3. NewMasterKnown'
    BY <1>1, <2>1, <2>2 DEF NewMasterKnown, ActiveSteps, CloseSteps
  <2>4. ASSUME NEW r \in playerHash', pc'[r] # "creating"
        PROVE  ToldOfMaster(r)'
    <3>1. r \in playerHash /\ r # c /\ r \in Conn
      BY <1>0, <2>1, <2>4
    <3>2. pc[r] # "creating"
      BY <2>2, <3>1 DEF ActiveSteps, JoinSteps
    <3>3. toldMaster[r] = actorNumber[masterPlayer]
      <4>1. pc[c] \notin {"telling", "elected", "electing", "encoding"}
        BY <2>1
      <4> QED
        BY <1>9, <2>2, <3>1, <3>2, <4>1
    <3>4. SoleMaster
      BY <1>2, <2>1 DEF Active
    <3>5. masterPlayer \in playerHash /\ masterPlayer' = masterPlayer
      BY <2>1, <3>1, <3>4 DEF SoleMaster
    <3>6. actorNumber'[masterPlayer] = actorNumber[masterPlayer]
      BY <1>0, <1>1, <2>1, <3>5
    <3> QED
      BY <2>1, <3>3, <3>5, <3>6 DEF ToldOfMaster
  <2> QED
    BY <2>3, <2>4
<1>11. CASE FinishCreate(c)
  <2>1. /\ pc[c] = "creating" /\ pc'[c] = "encoding"
        /\ UNCHANGED <<playerHash, actorNumber, masterPlayer, isMasterClient>>
        /\ todo'[c] = OthersOf(c)
        /\ toldMaster'[c] = IF isMasterClient[c] THEN actorNumber[c] ELSE 0
        /\ \A d \in Conn \ {c} : toldMaster'[d] = toldMaster[d]
    BY <1>0, <1>11 DEF FinishCreate, CreatePlayerNumber
  <2>2. \A d \in Conn \ {c} : pc[d] \notin ActiveSteps
    BY <1>5, <2>1 DEF ActiveSteps, JoinSteps
  <2>3. NewMasterKnown'
    BY <1>1, <2>1, <2>2 DEF NewMasterKnown, ActiveSteps, CloseSteps
  <2>4. c \in playerHash /\ c \in Present
    BY <1>2, <2>1 DEF Present, JoinSteps
  <2>5. Closing = {}
    BY <2>1, <2>2 DEF Closing, ActiveSteps, CloseSteps
  <2>6. {p \in playerHash : isMasterClient[p]} = {masterPlayer}
    BY <1>2, <2>4, <2>5 DEF SoleMaster
  <2>7. ToldOfMaster(c)'
    <3>1. CASE isMasterClient[c]
      <4>1. c = masterPlayer
        BY <2>4, <2>6, <3>1
      <4> QED
        BY <2>1, <3>1, <4>1 DEF ToldOfMaster
    <3>2. CASE ~isMasterClient[c]
      <4>1. masterPlayer \in playerHash /\ masterPlayer # c
        BY <2>6, <3>2
      <4>2. masterPlayer \in OthersOf(c)
        BY <1>2, <2>4, <4>1 DEF OthersOf
      <4> QED
        BY <2>1, <4>2 DEF ToldOfMaster
    <3> QED
      BY <3>1, <3>2
  <2>8. ASSUME NEW r \in playerHash', r # c
        PROVE  ToldOfMaster(r)'
    <3>1. r \in playerHash /\ r \in Conn /\ pc[r] # "creating"
      BY <1>0, <2>1, <2>2, <2>8 DEF ActiveSteps, JoinSteps
    <3>2. toldMaster[r] = actorNumber[masterPlayer]
      BY <1>9, <2>1, <2>2, <2>8, <3>1
    <3> QED
      BY <2>1, <2>8, <3>1, <3>2 DEF ToldOfMaster
  <2> QED
    BY <2>3, <2>7, <2>8
<1>12. ASSUME NEW q \in Conn, EncodePlayer(c, q)
       PROVE  Goal
  <2>1. /\ pc[c] = "encoding"
        /\ UNCHANGED <<playerHash, actorNumber, masterPlayer, isMasterClient, pc>>
        /\ q \in todo[c] /\ q \in playerHash
        /\ todo'[c] = todo[c] \ {q}
        /\ toldMaster'[c] = IF isMasterClient[q] THEN actorNumber[q] ELSE toldMaster[c]
        /\ \A d \in Conn \ {c} : toldMaster'[d] = toldMaster[d]
    BY <1>0, <1>12 DEF EncodePlayer
  <2>2. \A d \in Conn \ {c} : pc[d] \notin ActiveSteps
    BY <1>5, <2>1 DEF ActiveSteps, JoinSteps
  <2>3. NewMasterKnown'
    BY <1>1, <2>1, <2>2 DEF NewMasterKnown, ActiveSteps, CloseSteps
  <2>4. Closing = {}
    BY <2>1, <2>2 DEF Closing, ActiveSteps, CloseSteps
  <2>5. {p \in playerHash : isMasterClient[p]} = {masterPlayer}
    BY <1>2, <2>1, <2>4 DEF SoleMaster
  <2>6. ASSUME c \in playerHash
        PROVE  ToldOfMaster(c)'
    <3>1. CASE q = masterPlayer
      BY <2>1, <2>5, <3>1 DEF ToldOfMaster
    <3>2. CASE q # masterPlayer
      <4>1. toldMaster'[c] = toldMaster[c]
        BY <2>1, <2>5, <3>2
      <4>2. CASE masterPlayer \in todo[c]
        BY <2>1, <3>2, <4>2 DEF ToldOfMaster
      <4>3. CASE masterPlayer \notin todo[c]
        <5>1. toldMaster[c] = actorNumber[masterPlayer]
          BY <1>9, <2>1, <2>2, <2>6, <4>3
        <5> QED
          BY <2>1, <4>1, <5>1 DEF ToldOfMaster
      <4> QED
        BY <4>2, <4>3
    <3> QED
      BY <3>1, <3>2
  <2>7. ASSUME NEW r \in playerHash', r # c
        PROVE  ToldOfMaster(r)'
    <3>1. r \in playerHash /\ r \in Conn /\ pc[r] # "creating"
      BY <1>0, <2>1, <2>2, <2>7 DEF ActiveSteps, JoinSteps
    <3>2. toldMaster[r] = actorNumber[masterPlayer]
      BY <1>9, <2>1, <2>2, <2>7, <3>1
    <3> QED
      BY <2>1, <2>7, <3>1, <3>2 DEF ToldOfMaster
  <2> QED
    BY <2>1, <2>3, <2>6, <2>7
<1>13. CASE Connect(c)
  <2>1. /\ pc[c] = "encoding" /\ pc'[c] = "notifying" /\ todo[c] = {}
        /\ UNCHANGED <<playerHash, actorNumber, masterPlayer, toldMaster>>
    BY <1>0, <1>13 DEF Connect, LoopDone
  <2>2. \A d \in Conn \ {c} : pc[d] \notin ActiveSteps
    BY <1>5, <2>1 DEF ActiveSteps, JoinSteps
  <2>3. \A r \in playerHash' : toldMaster[r] = actorNumber[masterPlayer]
    <3>1. \A r \in playerHash : pc[r] # "creating"
      BY <1>0, <2>1, <2>2 DEF ActiveSteps, JoinSteps
    <3> QED
      BY <1>9, <2>1, <2>2, <3>1
  <2> QED
    BY <1>8, <2>1, <2>3 DEF ActiveSteps, JoinSteps
<1>14. ASSUME NEW q \in Conn, TellMaster(c, q)
       PROVE  Goal
  <2>1. /\ pc[c] \in {"telling", "elected"}
        /\ UNCHANGED <<playerHash, actorNumber, masterPlayer, newMaster, pc>>
        /\ q \in todo[c] /\ q \in playerHash
        /\ todo'[c] = todo[c] \ {q}
        /\ toldMaster' = IF isConnected[q]
                         THEN [toldMaster EXCEPT ![q] = newMaster[c]]
                         ELSE toldMaster
    BY <1>0, <1>14 DEF TellMaster
  <2>2. \A d \in Conn \ {c} : pc[d] \notin ActiveSteps
    BY <1>5, <2>1 DEF ActiveSteps, CloseSteps
  <2>3. NewMasterKnown'
    BY <1>4, <2>1 DEF NewMasterKnown
  <2>4. isConnected[q]
    BY <1>6, <2>1, <2>2 DEF ActiveSteps, JoinSteps
  <2>5. newMaster[c] = actorNumber[masterPlayer]
    BY <1>4, <2>1 DEF NewMasterKnown
  <2>6. ASSUME NEW r \in playerHash', pc'[r] # "creating"
        PROVE  ToldOfMaster(r)'
    <3>1. CASE r = q
      BY <1>0, <2>1, <2>4, <2>5, <3>1 DEF ToldOfMaster
    <3>2. CASE r # q /\ r \in todo[c]
      BY <2>1, <3>2 DEF ToldOfMaster
    <3>3. CASE r # q /\ r \notin todo[c]
      <4>1. toldMaster[r] = actorNumber[masterPlayer]
        BY <1>9, <2>1, <2>2, <2>6, <3>3
      <4>2. toldMaster'[r] = toldMaster[r]
        BY <1>0, <2>1, <2>6, <3>3
      <4> QED
        BY <2>1, <4>1, <4>2 DEF ToldOfMaster
    <3> QED
      BY <3>1, <3>2, <3>3
  <2> QED
    BY <2>3, <2>6
<1>15. ASSUME NEW p \in Conn, ReceiveChangeMaster(c, p) \/ Elect(c, p)
       PROVE  Goal
  <2>1. /\ pc'[c] \in {"telling", "elected"} /\ todo'[c] = playerHash
        /\ newMaster'[c] = actorNumber[p] /\ masterPlayer' = p
        /\ UNCHANGED <<playerHash, actorNumber>>
    BY <1>0, <1>15 DEF ReceiveChangeMaster, SetMasterClient, Elect,
       ElectFirstPlayer
  <2>2. \A d \in Conn \ {c} : pc[d] \notin ActiveSteps
    <3>1. CASE ReceiveChangeMaster(c, p)
      <4>1. Active = {}
        BY <1>2, <3>1 DEF ReceiveChangeMaster, Note, Active
      <4> QED
        BY <1>3, <4>1
    <3>2. CASE Elect(c, p)
      BY <1>5, <3>2 DEF Elect, ActiveSteps, CloseSteps
    <3> QED
      BY <1>15, <3>1, <3>2
  <2>3. NewMasterKnown'
    BY <1>1, <2>1, <2>2 DEF NewMasterKnown, ActiveSteps, CloseSteps
  <2>4. \A r \in playerHash' : ToldOfMaster(r)'
    BY <2>1 DEF ToldOfMaster
  <2> QED
    BY <2>3, <2>4
<1>16. CASE Remove(c)
  <2>1. /\ pc[c] = "closing" /\ pc'[c] = "announcing"
        /\ UNCHANGED <<actorNumber, masterPlayer, toldMaster>>
        /\ playerHash' \subseteq playerHash
    BY <1>0, <1>16 DEF Remove, RemovePlayer
  <2>2. \A d \in Conn \ {c} : pc[d] \notin ActiveSteps
    BY <1>5, <2>1 DEF ActiveSteps, CloseSteps
  <2>3. \A r \in playerHash' : toldMaster[r] = actorNumber[masterPlayer]
    <3>1. \A r \in playerHash : pc[r] # "creating"
      BY <1>0, <2>1, <2>2 DEF ActiveSteps, JoinSteps
    <3> QED
      BY <1>9, <2>1, <2>2, <3>1
  <2> QED
    BY <1>8, <2>1, <2>3 DEF ActiveSteps, CloseSteps
<1>17. CASE CountPlayers(c) \/ FinishElection(c)
  <2>1. /\ pc[c] \in {"announcing", "elected"} /\ todo[c] = {}
        /\ pc'[c] \in {"resetting", "electing", "gone"}
        /\ UNCHANGED <<playerHash, actorNumber, masterPlayer, toldMaster>>
    BY <1>0, <1>17 DEF CountPlayers, FinishElection, LoopDone
  <2>2. \A d \in Conn \ {c} : pc[d] \notin ActiveSteps
    BY <1>5, <2>1 DEF ActiveSteps, CloseSteps
  <2>3. \A r \in playerHash' : toldMaster[r] = actorNumber[masterPlayer]
    <3>1. \A r \in playerHash : pc[r] # "creating"
      BY <1>0, <2>1, <2>2 DEF ActiveSteps, JoinSteps
    <3> QED
      BY <1>9, <2>1, <2>2, <3>1
  <2> QED
    BY <1>8, <2>1, <2>3 DEF ActiveSteps, CloseSteps
<1>18. CASE ResetServerMaster(c)
  <2>1. /\ pc[c] = "resetting" /\ pc'[c] = "renumbering"
        /\ playerHash' = playerHash
    BY <1>0, <1>18 DEF ResetServerMaster, ResetMaster
  <2>2. playerHash = {}
    BY <1>2, <2>1 DEF Closing, CloseSteps
  <2>3. \A d \in Conn \ {c} : pc[d] \notin ActiveSteps
    BY <1>5, <2>1 DEF ActiveSteps, CloseSteps
  <2>4. NewMasterKnown'
    BY <1>1, <2>1, <2>3 DEF NewMasterKnown, ActiveSteps, CloseSteps
  <2> QED
    BY <2>1, <2>2, <2>4
<1>19. CASE ResetServerNumber(c) \/ PostFirstRecv(c) \/ ReceiveRelay(c)
            \/ ReceiveNothing(c)
  <2>1. /\ UNCHANGED <<playerHash, masterPlayer, actorNumber, toldMaster>>
        /\ \A d \in Conn \ {c} : todo'[d] = todo[d]
        /\ pc[c] \in {"renumbering", "notifying", "reading"}
        /\ pc'[c] \in {"gone", "reading", "orphaned", "relaying", "closing"}
    BY <1>0, <1>19 DEF ResetServerNumber, ResetNumber, PostFirstRecv,
       ReceiveRelay, ReceiveNothing, BeginClose
  <2> QED
    BY <1>7, <2>1
<1>20. CASE PostRecv(c) \/ PostRecvFails(c)
  <2>1. /\ UNCHANGED <<playerHash, masterPlayer, actorNumber, toldMaster>>
        /\ \A d \in Conn \ {c} : todo'[d] = todo[d]
        /\ pc[c] \in {"relaying", "telling"} /\ todo[c] = {}
        /\ pc'[c] \in {"reading", "closing"}
    BY <1>0, <1>20 DEF PostRecv, PostRecvFails, BeginClose, LoopDone,
       RequestSteps
  <2>2. CASE pc[c] = "relaying"
    BY <1>7, <2>1, <2>2
  <2>3. CASE pc[c] = "telling"
    <3>1. \A d \in Conn \ {c} : pc[d] \notin ActiveSteps
      BY <1>5, <2>3 DEF ActiveSteps
    <3>2. \A r \in playerHash : pc[r] # "creating"
      BY <1>0, <2>3, <3>1 DEF ActiveSteps, JoinSteps
    <3>3. \A r \in playerHash' : toldMaster[r] = actorNumber[masterPlayer]
      BY <1>9, <2>1, <2>3, <3>1, <3>2
    <3> QED
      BY <1>8, <2>1, <2>3, <3>3 DEF ActiveSteps
  <2> QED
    BY <2>1, <2>2, <2>3
<1>21. ASSUME NEW q \in Conn, NotifyJoined(c, q) \/ Relay(c, q) \/ AnnounceLeft(c, q)
       PROVE  Goal
  <2>1. /\ UNCHANGED <<playerHash, masterPlayer, actorNumber, toldMaster, pc>>
        /\ \A d \in Conn \ {c} : todo'[d] = todo[d]
        /\ pc[c] \in {"notifying", "relaying", "announcing"}
    BY <1>0, <1>21 DEF NotifyJoined, Relay, AnnounceLeft
  <2> QED
    BY <1>7, <2>1
<1> QED
  BY <1>10, <1>11, <1>12, <1>13, <1>14, <1>15, <1>16, <1>17, <1>18, <1>19,
     <1>20,
     <1>21 DEF Step

---------------------------------------------------------------------------
(* The invariants together, and what they show.                            *)

RoomInv ==
  /\ BaseInv /\ AloneInv /\ KnownInv /\ Survives
  /\ MasterInv
  /\ NeverEmptyInv /\ KnowAllInv
  /\ OneAtATime /\ RosterInv /\ MasterToldInv

(* An empty room, of which nobody has been told anything.                  *)
LEMMA RoomInvInit == Init => RoomInv
<1> SUFFICES ASSUME Init
             PROVE  RoomInv
  OBVIOUS
<1>1. /\ \A c \in Conn : /\ pc[c] = "outside" /\ todo[c] = {}
                         /\ ~isConnected[c]
      /\ playerHash = {} /\ masterPlayer = NoPlayer /\ happened = {}
      /\ fault = "none"
  BY DEF Init, ManagerInit
<1>2. Joining = {} /\ ChangingMaster = {} /\ Closing = {}
  BY <1>1 DEF Joining, ChangingMaster, Closing, JoinSteps, CloseSteps
<1>3. BaseInv
  BY <1>1, <1>2 DEF BaseInv, Unconnected
<1>4. AloneInv /\ KnownInv /\ Survives
  BY <1>1, <1>2 DEF AloneInv, KnownInv, LoopSteps, Survives
<1>5. MasterInv
  BY <1>1, <1>2 DEF MasterInv, SoleMaster
<1>6. NeverEmptyInv /\ KnowAllInv
  BY <1>1 DEF NeverEmptyInv, KnowAllInv
<1>7. OneAtATime /\ RosterInv /\ MasterToldInv
  BY <1>1, <1>2 DEF OneAtATime, Active, RosterInv, MasterToldInv
<1> QED
  BY <1>3, <1>4, <1>5, <1>6, <1>7 DEF RoomInv

(* A fault leaves all in place but the process.                            *)
LEMMA RoomInvStep ==
  ASSUME TypeOK, NumbersInv, RoomInv, [Next]_vars
  PROVE  RoomInv'
(* What neither a fault nor a stuttering step touches.                     *)
<1>1. ASSUME UNCHANGED <<managerVars, threadVars, clientVars>>,
             happened \subseteq happened',
             happened' \subseteq happened \cup {"busyClose"}
      PROVE  /\ BaseInv' /\ MasterInv' /\ NeverEmptyInv' /\ KnowAllInv'
             /\ OneAtATime' /\ RosterInv' /\ MasterToldInv'
             /\ AloneInv' /\ KnownInv'
  <2> USE DEF managerVars, threadVars, clientVars
  <2>1. Joining' = Joining /\ ChangingMaster' = ChangingMaster /\ Closing' = Closing
    BY <1>1 DEF Joining, ChangingMaster, Closing
  <2>2. BaseInv' /\ KnownInv'
    BY <1>1, <2>1 DEF RoomInv, BaseInv, KnownInv, NumbersOf
  <2>9. AloneInv'
    BY <1>1, <2>1 DEF RoomInv, AloneInv, Working
  <2>3. SoleMaster' = SoleMaster /\ NoMaster' = NoMaster
    BY <1>1 DEF SoleMaster, NoMaster
  <2>4. MasterInv'
    BY <1>1, <2>1, <2>3 DEF RoomInv, MasterInv
  <2>5. NeverEmptyInv' /\ KnowAllInv'
    BY <1>1 DEF RoomInv, NeverEmptyInv, KnowAllInv
  <2>6. OneAtATime'
    BY <1>1, <2>1 DEF RoomInv, OneAtATime, Active, NumbersOf
  <2>7. RosterInv'
    BY <1>1 DEF RoomInv, RosterInv, NumbersOf, Unheard, Untold
  <2>8. MasterToldInv'
    BY <1>1 DEF RoomInv, MasterToldInv
  <2> QED
    BY <2>2, <2>4, <2>5, <2>6, <2>7, <2>8, <2>9
<1>2. CASE UNCHANGED vars
  <2>1. UNCHANGED <<managerVars, threadVars, clientVars, fault, happened>>
    BY <1>2 DEF vars
  <2>2. Survives'
    BY <2>1 DEF RoomInv, Survives
  <2> QED
    BY <1>1, <2>1, <2>2 DEF RoomInv
<1>3. ASSUME NEW c \in Conn, Step(c), UNCHANGED fault
      PROVE  RoomInv'
  <2>1. Survives'
    BY <1>3, Moves DEF RoomInv, Survives, OnlyMoves
  <2> QED
    BY <1>3, <2>1, BaseStep, AloneStep, KnownStep, MasterStep, NeverEmptyStep,
       KnowAllStep, OneAtATimeStep, RosterStep, MasterToldStep DEF RoomInv
<1>4. ASSUME NEW c \in Conn, Fault(c)
      PROVE  RoomInv'
  <2>1. Survives'
    BY <1>4, FaultAlone DEF RoomInv
  <2>2. happened' \subseteq happened \cup {"busyClose"}
    BY <1>4 DEF Fault, ElectNobody, IteratorFault, FreedFault, ReceiveForMissing,
       Note
  <2> QED
    BY <1>1, <1>4, <2>1, <2>2, FaultFrame DEF RoomInv
<1> QED
  BY <1>2, <1>3, <1>4, StepKinds

(* The inductive invariant, on top of the types and the numbers.           *)
LEMMA RoomInvariant == Spec => []RoomInv
<1>1. RoomInv /\ TypeOK /\ NumbersInv /\ [Next]_vars => RoomInv'
  BY RoomInvStep
<1> QED
  BY <1>1, RoomInvInit, TypeCorrect, NumbersInvariant, PTL DEF Spec

(* Requests that come late for a leaver and freed handleInfos aside, a     *)
(* server whose disconnects run beside no other handler does not crash: no *)
(* loop of BroadcastMessage or EncodePlayersToNetwork is left on an erased *)
(* entry, and whom a client's messages have in the room is in the table.   *)
(* ChangeMasterClientOnDisconnect finds a player even then, if no          *)
(* disconnect has overlapped another one or the start of a join or master  *)
(* change (PlayerManager.cpp:40, 46, 87, 95).                              *)
THEOREM ServerSurvives == Spec => []Survives
  BY RoomInvariant, PTL DEF RoomInv

(* While no disconnect overlaps another one, a join or a master change,    *)
(* the flags, masterPlayer and the table agree on one master whenever no   *)
(* disconnect is under way (SetMasterClient, CreatePlayer and the isMaster *)
(* of HandlePlayerDisconnect).                                             *)
THEOREM MasterIsOne == Spec => []OneMaster
<1>1. MasterInv => OneMaster
  BY DEF MasterInv, OneMaster, SoleMaster
<1> QED
  BY <1>1, RoomInvariant, PTL DEF RoomInv

(* However joins, departures and requests interleave, a connected player   *)
(* has been told of every other whose join is done, until the room first   *)
(* empties (HandlePlayerJoin's EncodePlayersToNetwork and PlayerJoined).   *)
THEOREM NoStrangers == Spec => []NoStranger
<1>1. RoomInv /\ TypeOK => NoStranger
  <2> SUFFICES ASSUME RoomInv, TypeOK, "emptied" \notin happened,
                      NEW r \in playerHash, NEW s \in playerHash,
                      isConnected[r], pc[s] \notin JoinSteps
               PROVE  actorNumber[s] \in roster[r]
    BY DEF NoStranger
  <2> QED
    BY DEF RoomInv, KnowAllInv, JoinSteps
<1> QED
  BY <1>1, RoomInvariant, TypeCorrect, PTL

(* When joins, departures and master changes come one at a time, then at   *)
(* rest what each client has been sent names exactly the players in the    *)
(* table and their master (HandlePlayerJoin, HandlePlayerDisconnect and    *)
(* ChangeMasterClient).                                                    *)
THEOREM ViewsAreRight == Spec => []ViewsAgree
<1>1. RoomInv /\ TypeOK => ViewsAgree
  <2> SUFFICES ASSUME RoomInv, TypeOK, "overlap" \notin happened, Active = {},
                      NEW r \in playerHash
               PROVE  /\ roster[r] = NumbersOf(playerHash)
                      /\ toldMaster[r] = actorNumber[masterPlayer]
    BY DEF ViewsAgree, Active, NumbersOf
  <2>1. r \in Conn /\ \A c \in Conn : pc[c] \notin ActiveSteps
    BY DEF TypeOK, ManagerTypeOK, Active, Joining, ChangingMaster, Closing,
       ActiveSteps
  <2>2. pc[r] \notin {"creating", "encoding"}
    BY <2>1 DEF ActiveSteps, JoinSteps
  <2>3. Unheard(r) = {} /\ Untold(r) = {}
    BY <2>1, <2>2 DEF Unheard, Untold, ActiveSteps, JoinSteps, CloseSteps
  <2>4. roster[r] = NumbersOf(playerHash)
    <3>1. roster[r] = NumbersOf((playerHash \ Unheard(r)) \cup Untold(r))
      BY <2>2 DEF RoomInv, RosterInv
    <3>2. (playerHash \ Unheard(r)) \cup Untold(r) = playerHash
      BY <2>3
    <3> QED
      BY <3>1, <3>2
  <2>5. toldMaster[r] = actorNumber[masterPlayer]
    <3>1. ~\E c \in Conn : \/ pc[c] \in {"telling", "elected"} /\ r \in todo[c]
                           \/ pc[c] = "electing"
      BY <2>1 DEF ActiveSteps, CloseSteps
    <3> QED
      BY <2>2, <3>1 DEF RoomInv, MasterToldInv
  <2> QED
    BY <2>4, <2>5
<1> QED
  BY <1>1, RoomInvariant, TypeCorrect, PTL
=============================================================================
