----------------------------- MODULE RoomProofs -----------------------------
(***************************************************************************)
(* What Room guarantees for every set of connections, every number of      *)
(* workers and every number of requests.                                   *)
(***************************************************************************)
EXTENDS Room, TLAPS

---------------------------------------------------------------------------
(* Type correctness.                                                       *)

(* The steps of the accept thread keep every variable in its type.         *)
LEMMA JoinTypes ==
  ASSUME TypeOK, NEW c \in Conn, NEW r \in Conn, UNCHANGED fault,
         \/ Accept(c) \/ FinishCreate(c) \/ EncodePlayer(c, r)
         \/ Connect(c) \/ NotifyJoined(c, r) \/ PostFirstRecv(c)
  PROVE  TypeOK'
<1>1. CASE Accept(c)
  <2>1. PICK seen \in SUBSET {w \in Conn : todo[w] # {}} :
          todo' = [w \in Conn |-> IF w \in seen
                                  THEN todo[w] \cup (playerHash' \ playerHash)
                                  ELSE todo[w]]
    BY <1>1 DEF Accept
  <2>2. ManagerTypeOK'
    BY <1>1 DEF TypeOK, ManagerTypeOK, Accept, CreatePlayerInsert, Lock
  <2>3. todo' \in [Conn -> SUBSET Conn]
    BY <2>1, <2>2 DEF TypeOK, ManagerTypeOK
  <2>4. happened' \in SUBSET Overlaps
    BY <1>1 DEF TypeOK, Accept, Note, Overlaps
  <2>5. pc' \in [Conn -> Steps]
    BY <1>1 DEF TypeOK, Accept, Goto, Steps, JoinSteps
  <2> QED
    BY <1>1, <2>2, <2>3, <2>4, <2>5 DEF TypeOK, Accept, clientVars
<1>2. CASE FinishCreate(c)
  BY <1>2 DEF TypeOK, ManagerTypeOK, FinishCreate, CreatePlayerNumber, Unlock,
              Goto, StartLoop, OthersOf, Steps, JoinSteps
<1>3. CASE EncodePlayer(c, r)
  BY <1>3 DEF TypeOK, ManagerTypeOK, EncodePlayer, Visit, managerVars
<1>4. CASE Connect(c)
  BY <1>4 DEF TypeOK, ManagerTypeOK, Connect, Goto, StartLoop, OthersOf,
              managerVars, Steps, JoinSteps
<1>5. CASE NotifyJoined(c, r)
  BY <1>5 DEF TypeOK, ManagerTypeOK, NotifyJoined, Visit, SendJoined,
              managerVars
<1>6. CASE PostFirstRecv(c)
  BY <1>6 DEF TypeOK, ManagerTypeOK, PostFirstRecv, Goto, StartLoop,
              managerVars, clientVars, Steps
<1> QED
  BY <1>1, <1>2, <1>3, <1>4, <1>5, <1>6

(* The steps of a worker with a request keep every variable in its type.   *)
LEMMA RequestTypes ==
  ASSUME TypeOK, NEW c \in Conn, NEW r \in Conn, UNCHANGED fault,
         \/ ReceiveRelay(c) \/ ReceiveChangeMaster(c, r) \/ Relay(c, r)
         \/ TellMaster(c, r) \/ PostRecv(c)
  PROVE  TypeOK'
<1>1. CASE ReceiveRelay(c)
  <2>1. happened' \in SUBSET Overlaps
    BY <1>1 DEF TypeOK, ReceiveRelay, Note, Overlaps
  <2> QED
    BY <1>1, <2>1, RoomAssumption
       DEF TypeOK, ManagerTypeOK, ReceiveRelay, TakeRequest, Goto, StartLoop,
           OthersOf, managerVars, clientVars, Steps, RequestSteps
<1>2. CASE ReceiveChangeMaster(c, r)
  <2>1. ManagerTypeOK'
    BY <1>2 DEF TypeOK, ManagerTypeOK, ReceiveChangeMaster, SetMasterClient
  <2>2. happened' \in SUBSET Overlaps
    BY <1>2 DEF TypeOK, ReceiveChangeMaster, Note, Overlaps
  <2>3. requests' \in 0 .. MaxRequests
    BY <1>2, RoomAssumption DEF TypeOK, ReceiveChangeMaster, TakeRequest
  <2>4. newMaster' \in [Conn -> Nat]
    BY <1>2 DEF TypeOK, ManagerTypeOK, ReceiveChangeMaster
  <2>5. todo' \in [Conn -> SUBSET Conn] /\ cursor' \in [Conn -> Conn \cup {NoPlayer}]
    BY <1>2 DEF TypeOK, ManagerTypeOK, ReceiveChangeMaster, StartLoop
  <2>6. pc' \in [Conn -> Steps]
    BY <1>2 DEF TypeOK, ReceiveChangeMaster, Goto, Steps, RequestSteps
  <2> QED
    BY <1>2, <2>1, <2>2, <2>3, <2>4, <2>5, <2>6
       DEF TypeOK, ReceiveChangeMaster, clientVars
<1>3. CASE Relay(c, r)
  BY <1>3 DEF TypeOK, ManagerTypeOK, Relay, Visit, managerVars, clientVars
<1>4. CASE TellMaster(c, r)
  BY <1>4 DEF TypeOK, ManagerTypeOK, TellMaster, Visit, SendMaster,
              managerVars
<1>5. CASE PostRecv(c)
  BY <1>5 DEF TypeOK, ManagerTypeOK, PostRecv, Goto, StartLoop, managerVars,
              clientVars, Steps
<1> QED
  BY <1>1, <1>2, <1>3, <1>4, <1>5

(* The steps of a worker with a disconnect keep every variable in its type.*)
LEMMA CloseTypes ==
  ASSUME TypeOK, NEW c \in Conn, NEW r \in Conn, UNCHANGED fault,
         \/ ReceiveNothing(c) \/ PostRecvFails(c) \/ Remove(c)
         \/ AnnounceLeft(c, r) \/ CountPlayers(c) \/ ResetServerMaster(c)
         \/ ResetServerNumber(c) \/ Elect(c, r) \/ FinishElection(c)
  PROVE  TypeOK'
<1>1. CASE ReceiveNothing(c) \/ PostRecvFails(c)
  <2>1. BeginClose(c)
    BY <1>1 DEF ReceiveNothing, PostRecvFails
  <2>2. happened' \in SUBSET Overlaps
    BY <2>1 DEF TypeOK, BeginClose, Note, Overlaps
  <2> QED
    BY <2>1, <2>2 DEF TypeOK, ManagerTypeOK, BeginClose, StartLoop,
                      managerVars, clientVars, Steps, CloseSteps
<1>2. CASE Remove(c)
  <2>1. ManagerTypeOK'
    BY <1>2 DEF TypeOK, ManagerTypeOK, Remove, RemovePlayer
  <2>2. todo' \in [Conn -> SUBSET Conn]
    BY <1>2, <2>1 DEF TypeOK, ManagerTypeOK, Remove
  <2>3. happened' \in SUBSET Overlaps
    BY <1>2 DEF TypeOK, Remove, Note, Overlaps
  <2> QED
    BY <1>2, <2>1, <2>2, <2>3
       DEF TypeOK, Remove, Goto, clientVars, Steps, CloseSteps
<1>3. CASE AnnounceLeft(c, r)
  BY <1>3 DEF TypeOK, ManagerTypeOK, AnnounceLeft, Visit, SendLeft,
              managerVars
<1>4. CASE CountPlayers(c)
  BY <1>4 DEF TypeOK, ManagerTypeOK, CountPlayers, Goto, StartLoop,
              managerVars, clientVars, Steps, CloseSteps
<1>5. CASE ResetServerMaster(c)
  BY <1>5 DEF TypeOK, ManagerTypeOK, ResetServerMaster, ResetMaster, Goto,
              clientVars, Steps, CloseSteps
<1>6. CASE ResetServerNumber(c)
  BY <1>6 DEF TypeOK, ManagerTypeOK, ResetServerNumber, ResetNumber, Goto,
              Note, Overlaps, clientVars, Steps
<1>7. CASE Elect(c, r)
  BY <1>7 DEF TypeOK, ManagerTypeOK, Elect, ElectFirstPlayer, Lock, Goto,
              StartLoop, clientVars, Steps, CloseSteps
<1>8. CASE FinishElection(c)
  BY <1>8 DEF TypeOK, ManagerTypeOK, FinishElection, Unlock, Goto, StartLoop,
              clientVars, Steps
<1> QED
  BY <1>1, <1>2, <1>3, <1>4, <1>5, <1>6, <1>7, <1>8

(* A step that ends the process changes nothing but fault, requests and    *)
(* happened.                                                               *)
LEMMA CrashTypes ==
  ASSUME TypeOK, NEW c \in Conn, NEW n,
         \/ ElectNobody(c) \/ IteratorFault(c) \/ FreedFault(c)
         \/ ReceiveForMissing(c, n)
  PROVE  TypeOK'
<1>1. requests' \in 0 .. MaxRequests
  BY RoomAssumption
     DEF TypeOK, ElectNobody, IteratorFault, FreedFault, ReceiveForMissing,
         TakeRequest
<1>2. /\ fault' \in Faults
      /\ UNCHANGED <<managerVars, threadVars, clientVars>>
  BY DEF ElectNobody, IteratorFault, FreedFault, ReceiveForMissing, Faults
<1>3. happened' \in SUBSET Overlaps
  BY DEF TypeOK, ElectNobody, IteratorFault, FreedFault, ReceiveForMissing, Note,
     Overlaps
<1> QED
  BY <1>1, <1>2, <1>3
     DEF TypeOK, ManagerTypeOK, managerVars, threadVars, clientVars

(* Every variable of the room keeps its type.                              *)
THEOREM TypeCorrect == Spec => []TypeOK
<1>1. Init => TypeOK
  BY RoomAssumption DEF Init, ManagerInit, TypeOK, ManagerTypeOK, Steps
<1>2. TypeOK /\ [Next]_vars => TypeOK'
  <2> SUFFICES ASSUME TypeOK, [Next]_vars PROVE TypeOK'
    OBVIOUS
  <2>1. CASE UNCHANGED vars
    BY <2>1 DEF TypeOK, ManagerTypeOK, vars, managerVars, threadVars,
                clientVars
  <2>2. ASSUME NEW c \in Conn, ThreadStep(c) PROVE TypeOK'
    BY <2>2, JoinTypes, RequestTypes, CloseTypes, CrashTypes
       DEF ThreadStep, HandlerStep
  <2>3. ASSUME NEW c \in Conn, Arrival(c) PROVE TypeOK'
    BY <2>3, JoinTypes, RequestTypes, CloseTypes DEF Arrival
  <2>4. ASSUME NEW c \in Conn, Crash(c) PROVE TypeOK'
    BY <2>4, CrashTypes DEF Crash
  <2> QED
    BY <2>1, <2>2, <2>3, <2>4 DEF Next
<1> QED
  BY <1>1, <1>2, PTL DEF Spec

---------------------------------------------------------------------------
(* Every player present has a number of its own.                           *)

(* A step that changes neither the table nor a number, keeps the same      *)
(* players present and neither begins nor ends a creation keeps NumbersInv.*)
LEMMA SameTable ==
  ASSUME NumbersInv, UNCHANGED <<playerHash, actorNumber, nextActorNumber>>,
         Present' = Present,
         \A d \in Present : (pc'[d] = "creating") <=> (pc[d] = "creating"),
         happened \subseteq happened'
  PROVE  NumbersInv'
BY DEF NumbersInv

(* The shape of most such steps: only c's step changes, from one in which  *)
(* a player is present to another, or from one after its removal.          *)
LEMMA QuietStep ==
  ASSUME TypeOK, NumbersInv, NEW c \in Conn, NEW from, NEW to,
         UNCHANGED <<playerHash, actorNumber, nextActorNumber>>,
         pc[c] = from, pc' = [pc EXCEPT ![c] = to],
         happened \subseteq happened',
         from # "creating", to # "creating",
         LET stay == JoinSteps \cup RequestSteps
                       \cup {"reading", "orphaned", "closing"}
         IN  from \in stay <=> to \in stay
  PROVE  NumbersInv'
<1>1. Present' = Present
  BY DEF TypeOK, Present
<1>2. \A d \in Present : (pc'[d] = "creating") <=> (pc[d] = "creating")
  BY DEF TypeOK, Present
<1> QED
  BY <1>1, <1>2, SameTable

(* CreatePlayer's insertion: the counter is above every number in use.     *)
LEMMA AcceptNumbers ==
  ASSUME TypeOK, NumbersInv, NEW c \in Conn, Accept(c)
  PROVE  NumbersInv'
<1> SUFFICES ASSUME "staleReset" \notin happened'
             PROVE  /\ playerHash' = Present'
                    /\ \A d, e \in Present' :
                         actorNumber'[d] = actorNumber'[e] => d = e
                    /\ \A d \in Present' :
                         IF pc'[d] = "creating"
                         THEN actorNumber'[d] = nextActorNumber'
                         ELSE actorNumber'[d] < nextActorNumber'
  BY DEF NumbersInv
<1>1. /\ playerHash = Present
      /\ \A d, e \in Present : actorNumber[d] = actorNumber[e] => d = e
      /\ \A d \in Present : IF pc[d] = "creating"
                            THEN actorNumber[d] = nextActorNumber
                            ELSE actorNumber[d] < nextActorNumber
  BY DEF NumbersInv, Accept
<1>2. Present' = Present \cup {c} /\ c \notin Present
  BY DEF TypeOK, Accept, Goto, Present, JoinSteps, RequestSteps
<1>3. \A d \in Present : pc[d] # "creating" /\ pc'[d] = pc[d]
  BY <1>2 DEF TypeOK, Accept, Goto, Present, Joining, JoinSteps
<1>4. \A d \in Present : actorNumber[d] < nextActorNumber
  BY <1>1, <1>3
<1>5. /\ actorNumber' = [actorNumber EXCEPT ![c] = nextActorNumber]
      /\ nextActorNumber' = nextActorNumber
      /\ playerHash' = playerHash \cup
                         {p \in {c} : Lookup(nextActorNumber) = {}}
  BY DEF Accept, CreatePlayerInsert
<1>6. actorNumber \in [Conn -> Nat] /\ nextActorNumber \in Nat
      /\ Present \subseteq Conn
  BY DEF TypeOK, ManagerTypeOK, Present
<1>7. Lookup(nextActorNumber) = {}
  BY <1>1, <1>4, <1>6 DEF Lookup
<1>8. playerHash' = Present'
  BY <1>1, <1>2, <1>5, <1>7
<1>9. \A d \in Present : actorNumber'[d] = actorNumber[d]
  BY <1>2, <1>5, <1>6
<1>10. actorNumber'[c] = nextActorNumber /\ pc'[c] = "creating"
  BY <1>5, <1>6 DEF TypeOK, Accept, Goto
<1>11. \A d, e \in Present' : actorNumber'[d] = actorNumber'[e] => d = e
  BY <1>1, <1>2, <1>4, <1>6, <1>9, <1>10
<1>12. \A d \in Present' : IF pc'[d] = "creating"
                           THEN actorNumber'[d] = nextActorNumber'
                           ELSE actorNumber'[d] < nextActorNumber'
  BY <1>2, <1>3, <1>4, <1>5, <1>9, <1>10
<1> QED
  BY <1>8, <1>11, <1>12

(* nextActorNumber++: whichever load it uses, the counter was c's number.  *)
LEMMA FinishCreateNumbers ==
  ASSUME TypeOK, NumbersInv, NEW c \in Conn, FinishCreate(c)
  PROVE  NumbersInv'
<1> SUFFICES ASSUME "staleReset" \notin happened PROVE NumbersInv'
  BY DEF NumbersInv, FinishCreate
<1>1. c \in Present /\ pc[c] = "creating"
  BY DEF FinishCreate, Goto, Present, JoinSteps
<1>2. \A d \in Present \ {c} : pc[d] # "creating"
  BY <1>1 DEF NumbersInv
<1>3. Present' = Present
  BY DEF TypeOK, FinishCreate, Goto, Present, JoinSteps
<1>4. \A d \in Present : pc'[d] # "creating"
  BY <1>2 DEF TypeOK, FinishCreate, Goto, Present
<1>5. UNCHANGED <<playerHash, actorNumber>>
  BY DEF FinishCreate, CreatePlayerNumber
<1>6. nextActorNumber' = nextActorNumber + 1
  BY <1>1 DEF FinishCreate, CreatePlayerNumber, NumbersInv
<1>7. actorNumber \in [Conn -> Nat] /\ nextActorNumber \in Nat
      /\ Present \subseteq Conn
  BY DEF TypeOK, ManagerTypeOK, Present
<1>8. \A d \in Present : actorNumber'[d] < nextActorNumber'
  BY <1>1, <1>2, <1>5, <1>6, <1>7 DEF NumbersInv
<1> QED
  BY <1>3, <1>4, <1>5, <1>8 DEF NumbersInv

(* RemovePlayer erases the player it is called for, and no other.          *)
LEMMA RemoveNumbers ==
  ASSUME TypeOK, NumbersInv, NEW c \in Conn, Remove(c)
  PROVE  NumbersInv'
<1> SUFFICES ASSUME "staleReset" \notin happened PROVE NumbersInv'
  BY DEF NumbersInv, Remove
<1>1. c \in Present
  BY DEF Remove, Goto, Present
<1>2. Present' = Present \ {c}
  BY DEF TypeOK, Remove, Goto, Present, JoinSteps, RequestSteps
<1>3. Lookup(actorNumber[c]) = {c}
  BY <1>1 DEF Lookup, NumbersInv
<1>4. playerHash' = Present'
  BY <1>2, <1>3 DEF Remove, RemovePlayer, NumbersInv
<1>5. \A d \in Present' : pc'[d] = pc[d]
  BY <1>2 DEF TypeOK, Remove, Goto, Present
<1>6. UNCHANGED <<actorNumber, nextActorNumber>>
  BY DEF Remove, RemovePlayer
<1> QED
  BY <1>2, <1>4, <1>5, <1>6 DEF NumbersInv

(* ResetServer numbers from 1 again: harmless while nobody is present, and *)
(* noted as staleReset otherwise.                                          *)
LEMMA ResetNumbers ==
  ASSUME TypeOK, NumbersInv, NEW c \in Conn, ResetServerNumber(c)
  PROVE  NumbersInv'
<1> SUFFICES ASSUME "staleReset" \notin happened' PROVE NumbersInv'
  BY DEF NumbersInv
<1>1. "staleReset" \notin happened /\ playerHash = {}
  BY DEF ResetServerNumber, Note
<1>2. Present = {}
  BY <1>1 DEF NumbersInv
<1>3. Present' = {}
  BY <1>2 DEF TypeOK, ResetServerNumber, Goto, Present, JoinSteps,
              RequestSteps
<1>4. playerHash' = {}
  BY <1>1 DEF ResetServerNumber, ResetNumber
<1> QED
  BY <1>3, <1>4 DEF NumbersInv

(* A visit of a loop, and a step that ends the process, change no table.   *)
LEMMA VisitNumbers ==
  ASSUME NumbersInv, NEW c \in Conn, NEW r \in Conn, NEW n,
         \/ EncodePlayer(c, r) \/ NotifyJoined(c, r) \/ Relay(c, r)
         \/ TellMaster(c, r) \/ AnnounceLeft(c, r)
         \/ ElectNobody(c) \/ IteratorFault(c) \/ FreedFault(c)
         \/ ReceiveForMissing(c, n)
  PROVE  NumbersInv'
<1>1. UNCHANGED <<playerHash, actorNumber, nextActorNumber, pc>>
  BY DEF EncodePlayer, NotifyJoined, Relay, TellMaster, AnnounceLeft, Visit,
         ElectNobody, IteratorFault, FreedFault, ReceiveForMissing,
         managerVars, threadVars
<1>2. happened \subseteq happened'
  BY DEF EncodePlayer, NotifyJoined, Relay, TellMaster, AnnounceLeft,
         ElectNobody, IteratorFault, FreedFault, ReceiveForMissing
<1> QED
  BY <1>1, <1>2, SameTable DEF Present

(* The other steps of the accept thread and of a worker with a request.    *)
LEMMA OpenNumbers ==
  ASSUME TypeOK, NumbersInv, NEW c \in Conn, NEW r \in Conn,
         \/ Connect(c) \/ PostFirstRecv(c) \/ ReceiveRelay(c)
         \/ ReceiveChangeMaster(c, r) \/ PostRecv(c)
  PROVE  NumbersInv'
<1>1. UNCHANGED <<playerHash, actorNumber, nextActorNumber>>
  BY DEF Connect, PostFirstRecv, ReceiveRelay, ReceiveChangeMaster,
         SetMasterClient, PostRecv, managerVars
<1>2. happened \subseteq happened'
  BY DEF Connect, PostFirstRecv, ReceiveRelay, ReceiveChangeMaster, PostRecv
<1>3. PICK to \in {"notifying", "reading", "orphaned", "relaying", "telling"} :
        /\ pc[c] \in {"encoding", "notifying", "reading", "relaying", "telling"}
        /\ pc' = [pc EXCEPT ![c] = to]
  BY DEF Connect, PostFirstRecv, ReceiveRelay, ReceiveChangeMaster, PostRecv,
         Goto
<1> QED
  BY <1>1, <1>2, <1>3, QuietStep DEF JoinSteps, RequestSteps

(* The other steps of a worker with a disconnect.                          *)
LEMMA CloseNumbers ==
  ASSUME TypeOK, NumbersInv, NEW c \in Conn, NEW r \in Conn,
         \/ ReceiveNothing(c) \/ PostRecvFails(c) \/ CountPlayers(c)
         \/ ResetServerMaster(c) \/ Elect(c, r) \/ FinishElection(c)
  PROVE  NumbersInv'
<1>1. UNCHANGED <<playerHash, actorNumber, nextActorNumber>>
  BY DEF ReceiveNothing, PostRecvFails, BeginClose, CountPlayers,
         ResetServerMaster, ResetMaster, Elect, ElectFirstPlayer,
         FinishElection, managerVars
<1>2. happened \subseteq happened'
  BY DEF ReceiveNothing, PostRecvFails, BeginClose, CountPlayers,
         ResetServerMaster, Elect, FinishElection
<1>3. CASE ReceiveNothing(c) \/ PostRecvFails(c)
  <2>1. /\ pc[c] \in {"reading", "relaying", "telling"}
        /\ pc' = [pc EXCEPT ![c] = "closing"]
    BY <1>3 DEF ReceiveNothing, PostRecvFails, BeginClose, RequestSteps
  <2> QED
    BY <1>1, <1>2, <2>1, QuietStep DEF JoinSteps, RequestSteps
<1>4. CASE CountPlayers(c) \/ ResetServerMaster(c) \/ Elect(c, r)
             \/ FinishElection(c)
  <2>1. PICK to \in {"resetting", "renumbering", "electing", "elected", "gone"} :
          /\ pc[c] \in {"announcing", "resetting", "electing", "elected"}
          /\ pc' = [pc EXCEPT ![c] = to]
    BY <1>4 DEF CountPlayers, ResetServerMaster, Elect, FinishElection, Goto
  <2> QED
    BY <1>1, <1>2, <2>1, QuietStep DEF JoinSteps, RequestSteps
<1> QED
  BY <1>3, <1>4

(* NumbersInv holds throughout: no interleaving of joins, requests and     *)
(* disconnects gives two players present the same number or takes the      *)
(* wrong one out of the table, until a ResetServer races with a join.      *)
THEOREM NumbersInvariant == Spec => []NumbersInv
<1>1. Init => NumbersInv
  BY DEF Init, ManagerInit, NumbersInv, Present, JoinSteps, RequestSteps
<1>2. TypeOK /\ NumbersInv /\ [Next]_vars => NumbersInv'
  <2> SUFFICES ASSUME TypeOK, NumbersInv, [Next]_vars PROVE NumbersInv'
    OBVIOUS
  <2>1. CASE UNCHANGED vars
    BY <2>1 DEF NumbersInv, Present, vars, managerVars, threadVars
  <2>2. ASSUME NEW c \in Conn, ThreadStep(c) PROVE NumbersInv'
    BY <2>2, FinishCreateNumbers, RemoveNumbers, ResetNumbers, VisitNumbers,
       OpenNumbers, CloseNumbers DEF ThreadStep, HandlerStep
  <2>3. ASSUME NEW c \in Conn, Arrival(c) PROVE NumbersInv'
    BY <2>3, AcceptNumbers, OpenNumbers, CloseNumbers DEF Arrival
  <2>4. ASSUME NEW c \in Conn, Crash(c) PROVE NumbersInv'
    BY <2>4, VisitNumbers DEF Crash
  <2> QED
    BY <2>1, <2>2, <2>3, <2>4 DEF Next
<1> QED
  BY <1>1, <1>2, TypeCorrect, PTL DEF Spec

(* Until ResetServer renumbers a room that is not empty, the table holds   *)
(* exactly the players present and their numbers differ (CreatePlayer,     *)
(* RemovePlayer and Reset of PlayerManager).                               *)
THEOREM NumbersAreUnique == Spec => []UniqueNumbers
<1>1. NumbersInv => UniqueNumbers
  BY DEF NumbersInv, UniqueNumbers
<1> QED
  BY <1>1, NumbersInvariant, PTL
=============================================================================
