------------------------------- MODULE Room -------------------------------
(***************************************************************************)
(* The room of IOCP_Server.cpp: the accept thread (OpenServer,             *)
(* HandlePlayerJoin) and the worker threads (EchoThreadMain,               *)
(* HandlePlayerDisconnect, MessageHandler) that share one PlayerManager.   *)
(*                                                                         *)
(* Each connection has one WSARecv outstanding at most, so one thread at a *)
(* time handles it, and pc[c] is the point that thread has reached.  The   *)
(* accept thread handles one connection at a time, the workers up to       *)
(* NumWorkers.  A step is one locked method, or one access of shared state *)
(* made without the lock; a loop over the table makes one step per entry.  *)
(*                                                                         *)
(* What the server sends a client is kept as what the messages sent so far *)
(* say: who is in the room and who is the master.  What a client has once  *)
(* been told it may name in a request, and the request may be handled when *)
(* the player named has long left.                                         *)
(*                                                                         *)
(* A disconnect frees handleInfo first, which RemovePlayer, the sends of a *)
(* loop and the completions of earlier sends read all the same.  That this *)
(* may end the process is here; that it may close another's socket makes   *)
(* no difference to the room, in which any client may be lost at any time. *)
(* Completion has both.                                                    *)
(***************************************************************************)
EXTENDS PlayerManager

CONSTANTS
  NumWorkers,    \* sysInfo.dwNumberOfProcessors
  MaxRequests    \* bound: client requests in a behaviour

ASSUME RoomAssumption == NumWorkers \in Nat \ {0} /\ MaxRequests \in Nat

VARIABLES
  fault,        \* what has ended the process, or "none"
  pc,           \* where the handler of each connection is
  todo,         \* the entries the loop over the table has still to visit
  cursor,       \* the entry that loop visited last, or NoPlayer
  wasMaster,    \* isMaster of HandlePlayerDisconnect: the flag when it began
  newMaster,    \* the number a MasterClientChanged message carries
  isConnected,  \* Player::isConnected
  roster,       \* the numbers the messages sent to a client leave in the room
  known,        \* the numbers a client has been told of, of leavers too
  toldMaster,   \* the master the last message about one told the client, or 0
  requests,     \* requests handled so far
  happened      \* history: which of the overlaps named below have occurred

threadVars == <<pc, todo, cursor, wasMaster, newMaster>>
clientVars == <<isConnected, roster, known, toldMaster>>
vars == <<managerVars, threadVars, clientVars, fault, requests, happened>>

JoinSteps == {"creating", "encoding", "notifying"}
RequestSteps == {"relaying", "telling"}
CloseSteps == {"closing", "announcing", "resetting", "renumbering",
               "electing", "elected"}
LoopSteps == {"encoding", "notifying", "relaying", "telling", "announcing",
              "elected"}
Steps == {"outside", "reading", "orphaned", "gone"}
           \cup JoinSteps \cup RequestSteps \cup CloseSteps

Joining == {c \in Conn : pc[c] \in JoinSteps}
ChangingMaster == {c \in Conn : pc[c] = "telling"}
Closing == {c \in Conn : pc[c] \in CloseSteps}
Working == {c \in Conn : pc[c] \in RequestSteps \cup CloseSteps}

(* "closeOverlap": a disconnect ran at the same time as another one, or as *)
(* the start of a join or of a master change.  "overlap": any two of those *)
(* ran at the same time.  "busyClose": a disconnect ran at the same time   *)
(* as any other handler.  "emptied": the last player left.  "staleReset":  *)
(* ResetServer renumbered a room that had players in it.                   *)
Overlaps == {"closeOverlap", "overlap", "busyClose", "emptied", "staleReset"}

Note(e, cond) == IF cond THEN {e} ELSE {}

(* A null Player: of somebody whose client has still got him in the room   *)
(* ("missing"), or has been told that he has left ("late").  A loop on an  *)
(* entry that was erased, begin() of an empty table, freed memory.         *)
Faults == {"missing", "late", "erased", "empty", "freed"}

up == fault = "none"

---------------------------------------------------------------------------

Init ==
  /\ ManagerInit
  /\ fault = "none"
  /\ pc = [c \in Conn |-> "outside"]
  /\ todo = [c \in Conn |-> {}]
  /\ cursor = [c \in Conn |-> NoPlayer]
  /\ wasMaster = [c \in Conn |-> FALSE]
  /\ newMaster = [c \in Conn |-> 0]
  /\ isConnected = [c \in Conn |-> FALSE]
  /\ roster = [c \in Conn |-> {}]
  /\ known = [c \in Conn |-> {}]
  /\ toldMaster = [c \in Conn |-> 0]
  /\ requests = 0
  /\ happened = {}

Goto(c, from, to) == pc[c] = from /\ pc' = [pc EXCEPT ![c] = to]

StartLoop(c, entries) ==
  /\ todo' = [todo EXCEPT ![c] = entries]
  /\ cursor' = [cursor EXCEPT ![c] = NoPlayer]

Visit(c, step, r) ==
  /\ pc[c] = step
  /\ r \in todo[c]
  /\ todo' = [todo EXCEPT ![c] = @ \ {r}]
  /\ cursor' = [cursor EXCEPT ![c] = r]
  /\ UNCHANGED pc

LoopDone(c) == todo[c] = {}

(* Player::Send(message, false) of a message that is about player number n *)
SendJoined(r, n) ==
  IF isConnected[r]
  THEN /\ roster' = [roster EXCEPT ![r] = @ \cup {n}]
       /\ known' = [known EXCEPT ![r] = @ \cup {n}]
  ELSE UNCHANGED <<roster, known>>

SendLeft(r, n) ==
  /\ roster' = IF isConnected[r] THEN [roster EXCEPT ![r] = @ \ {n}] ELSE roster
  /\ UNCHANGED known

SendMaster(r, n) ==
  toldMaster' = IF isConnected[r] THEN [toldMaster EXCEPT ![r] = n]
                                  ELSE toldMaster

---------------------------------------------------------------------------
(* The accept thread: OpenServer's loop body and HandlePlayerJoin.         *)

(* accept and CreatePlayer.  A loop that runs over the table at the same   *)
(* time may or may not come to the new entry.                              *)
Accept(c) ==
  /\ Joining = {}
  /\ Goto(c, "outside", "creating")
  /\ CreatePlayerInsert(c)
  /\ \E seen \in SUBSET {w \in Conn : todo[w] # {}} :
       todo' = [w \in Conn |-> IF w \in seen
                               THEN todo[w] \cup (playerHash' \ playerHash)
                               ELSE todo[w]]
  /\ happened' = happened \cup Note("closeOverlap", Closing # {})
                   \cup Note("overlap", Closing \cup ChangingMaster # {})
                   \cup Note("busyClose", Closing # {})
  /\ UNCHANGED <<cursor, wasMaster, newMaster, clientVars, requests>>

(* CreatePlayer returns; the room information starts with the new player.  *)
FinishCreate(c) ==
  /\ Goto(c, "creating", "encoding")
  /\ CreatePlayerNumber(c)
  /\ StartLoop(c, OthersOf(c))
  /\ roster' = [roster EXCEPT ![c] = {actorNumber[c]}]
  /\ known' = [known EXCEPT ![c] = {actorNumber[c]}]
  /\ toldMaster' = [toldMaster EXCEPT
                      ![c] = IF isMasterClient[c] THEN actorNumber[c] ELSE 0]
  /\ UNCHANGED <<wasMaster, newMaster, isConnected, requests, happened>>

(* EncodePlayersToNetwork: one more player in the room information.        *)
EncodePlayer(c, r) ==
  /\ Visit(c, "encoding", r)
  /\ roster' = [roster EXCEPT ![c] = @ \cup {actorNumber[r]}]
  /\ known' = [known EXCEPT ![c] = @ \cup {actorNumber[r]}]
  /\ toldMaster' = [toldMaster EXCEPT
                      ![c] = IF isMasterClient[r] THEN actorNumber[r] ELSE @]
  /\ UNCHANGED <<managerVars, wasMaster, newMaster, isConnected, requests,
                 happened>>

(* The information is sent, SendBufferedMessages sets isConnected and the  *)
(* PlayerJoined broadcast begins.                                          *)
Connect(c) ==
  /\ LoopDone(c)
  /\ Goto(c, "encoding", "notifying")
  /\ isConnected' = [isConnected EXCEPT ![c] = TRUE]
  /\ StartLoop(c, OthersOf(c))
  /\ UNCHANGED <<managerVars, wasMaster, newMaster, roster, known, toldMaster,
                 requests, happened>>

NotifyNobody(c, r) ==   \* mutant: PlayerJoined is not sent
  /\ Visit(c, "notifying", r)
  /\ UNCHANGED <<managerVars, wasMaster, newMaster, clientVars, requests,
                 happened>>

NotifyJoined(c, r) ==
  /\ Visit(c, "notifying", r)
  /\ SendJoined(r, actorNumber[c])
  /\ UNCHANGED <<managerVars, wasMaster, newMaster, isConnected, toldMaster,
                 requests, happened>>

(* The first WSARecv.  Its result is not looked at: when it fails, nothing *)
(* will ever complete for this connection.                                 *)
PostFirstRecv(c) ==
  /\ LoopDone(c)
  /\ \/ Goto(c, "notifying", "reading")
     \/ Goto(c, "notifying", "orphaned")
  /\ StartLoop(c, {})
  /\ UNCHANGED <<managerVars, wasMaster, newMaster, clientVars, requests,
                 happened>>

---------------------------------------------------------------------------
(* The workers: a READ completion with data.                               *)

WorkerFree == Cardinality(Working) < NumWorkers

TakeRequest(c) ==
  /\ WorkerFree
  /\ requests < MaxRequests
  /\ requests' = requests + 1

(* A message to relay (RPC, SyncVar, Chat, Instantiate, Destroy), or a     *)
(* SetHash for the room or for player number n, who is in the table: after *)
(* HandleMessage, BroadcastMessage.                                        *)
ReceiveRelay(c) ==
  /\ TakeRequest(c)
  /\ Goto(c, "reading", "relaying")
  /\ StartLoop(c, OthersOf(c))
  /\ happened' = happened \cup Note("busyClose", Closing # {})
  /\ UNCHANGED <<managerVars, wasMaster, newMaster, clientVars>>

(* ChangeMasterClient for a player in the table, then BroadcastMessageAll. *)
(* A client names a player that it has been told of, when it sent this.    *)
ReceiveChangeMaster(c, p) ==
  /\ TakeRequest(c)
  /\ actorNumber[p] \in known[c]
  /\ p \in playerHash
  /\ Goto(c, "reading", "telling")
  /\ SetMasterClient(p)
  /\ newMaster' = [newMaster EXCEPT ![c] = actorNumber[p]]
  /\ StartLoop(c, playerHash)
  /\ happened' = happened \cup Note("closeOverlap", Closing # {})
       \cup Note("overlap", Closing \cup Joining \cup ChangingMaster # {})
       \cup Note("busyClose", Closing # {})
  /\ UNCHANGED <<wasMaster, clientVars>>

(* SetHash or ChangeMasterClient for a number that is not in the table,    *)
(* any more or by now: operator[] yields a null Player, and the next       *)
(* access through it ends the process.                                     *)
ReceiveForMissing(c, n) ==
  /\ TakeRequest(c)
  /\ pc[c] = "reading"
  /\ n \in known[c]
  /\ Lookup(n) = {}
  /\ fault' = IF n \in roster[c] THEN "missing" ELSE "late"
  /\ happened' = happened \cup Note("busyClose", Closing # {})
  /\ UNCHANGED <<managerVars, threadVars, clientVars>>

Relay(c, r) ==
  /\ Visit(c, "relaying", r)
  /\ UNCHANGED <<managerVars, wasMaster, newMaster, clientVars, requests,
                 happened>>

TellOthersMaster(c, r) ==   \* mutant: the requester is left out
  /\ \/ Visit(c, "telling", r)
     \/ Visit(c, "elected", r)
  /\ IF r = c THEN UNCHANGED toldMaster ELSE SendMaster(r, newMaster[c])
  /\ UNCHANGED <<managerVars, wasMaster, newMaster, isConnected, roster, known,
                 requests, happened>>

TellMaster(c, r) ==
  /\ \/ Visit(c, "telling", r)
     \/ Visit(c, "elected", r)
  /\ SendMaster(r, newMaster[c])
  /\ UNCHANGED <<managerVars, wasMaster, newMaster, isConnected, roster, known,
                 requests, happened>>

(* The request is done and the next WSARecv is posted.                     *)
PostRecv(c) ==
  /\ LoopDone(c)
  /\ \/ Goto(c, "relaying", "reading")
     \/ Goto(c, "telling", "reading")
  /\ StartLoop(c, {})
  /\ UNCHANGED <<managerVars, wasMaster, newMaster, clientVars, requests,
                 happened>>

---------------------------------------------------------------------------
(* The workers: HandlePlayerDisconnect.                                    *)

(* It notes whether the player is the master, and frees handleInfo.        *)
BeginClose(c) ==
  /\ pc' = [pc EXCEPT ![c] = "closing"]
  /\ wasMaster' = [wasMaster EXCEPT ![c] = isMasterClient[c]]
  /\ StartLoop(c, {})
  /\ happened' = happened \cup Note("closeOverlap", Closing # {})
       \cup Note("overlap",
                 Closing \cup Joining \cup (ChangingMaster \ {c}) # {})
       \cup Note("busyClose", Joining \cup (Working \ {c}) # {})
  /\ UNCHANGED <<managerVars, newMaster, clientVars, requests>>

(* A READ completion without data: the client has closed or is lost.       *)
ReceiveNothing(c) ==
  /\ pc[c] = "reading"
  /\ WorkerFree
  /\ BeginClose(c)

(* WSARecv fails after a request: the same worker disconnects the player.  *)
PostRecvFails(c) ==
  /\ pc[c] \in RequestSteps
  /\ LoopDone(c)
  /\ BeginClose(c)

(* RemovePlayer; the PlayerDisconnected broadcast begins.  The other loops *)
(* over the table no longer come to the erased entries.                    *)
Remove(c) ==
  /\ Goto(c, "closing", "announcing")
  /\ RemovePlayer(c)
  /\ todo' = [w \in Conn |-> IF w = c THEN playerHash'
                                      ELSE todo[w] \cap playerHash']
  /\ cursor' = [cursor EXCEPT ![c] = NoPlayer]
  /\ happened' = happened \cup Note("emptied", playerHash' = {})
  /\ UNCHANGED <<wasMaster, newMaster, clientVars, requests>>

AnnounceNobody(c, r) ==   \* mutant: PlayerDisconnected is not sent
  /\ Visit(c, "announcing", r)
  /\ UNCHANGED <<managerVars, wasMaster, newMaster, clientVars, requests,
                 happened>>

AnnounceLeft(c, r) ==
  /\ Visit(c, "announcing", r)
  /\ SendLeft(r, actorNumber[c])
  /\ UNCHANGED <<managerVars, wasMaster, newMaster, isConnected, toldMaster,
                 requests, happened>>

(* GetPlayerCount() == 0, read without the mutex, decides what is left.    *)
CountPlayers(c) ==
  /\ LoopDone(c)
  /\ \/ playerHash = {} /\ Goto(c, "announcing", "resetting")
     \/ playerHash # {} /\ wasMaster[c] /\ Goto(c, "announcing", "electing")
     \/ playerHash # {} /\ ~wasMaster[c] /\ Goto(c, "announcing", "gone")
  /\ StartLoop(c, {})
  /\ UNCHANGED <<managerVars, wasMaster, newMaster, clientVars, requests,
                 happened>>

(* ResetServer: Reset's two writes, after the buffered messages and the    *)
(* room's properties have been cleared.                                    *)
ResetServerMaster(c) ==
  /\ Goto(c, "resetting", "renumbering")
  /\ ResetMaster
  /\ UNCHANGED <<todo, cursor, wasMaster, newMaster, clientVars, requests,
                 happened>>

ResetServerNumber(c) ==
  /\ Goto(c, "renumbering", "gone")
  /\ ResetNumber
  /\ happened' = happened \cup Note("staleReset", playerHash # {})
  /\ UNCHANGED <<todo, cursor, wasMaster, newMaster, clientVars, requests>>

ElectQuietly(c, p) ==   \* mutant: the election is not announced
  /\ Goto(c, "electing", "elected")
  /\ ElectFirstPlayer(c, p)
  /\ newMaster' = [newMaster EXCEPT ![c] = actorNumber[p]]
  /\ StartLoop(c, {})
  /\ UNCHANGED <<wasMaster, clientVars, requests, happened>>

(* ChangeMasterClientOnDisconnect, and its broadcast with the mutex held.  *)
Elect(c, p) ==
  /\ Goto(c, "electing", "elected")
  /\ ElectFirstPlayer(c, p)
  /\ newMaster' = [newMaster EXCEPT ![c] = actorNumber[p]]
  /\ StartLoop(c, playerHash)
  /\ UNCHANGED <<wasMaster, clientVars, requests, happened>>

(* begin() of an empty table has no player behind it.                      *)
ElectNobody(c) ==
  /\ pc[c] = "electing"
  /\ hMutex = NoPlayer
  /\ playerHash = {}
  /\ fault' = "empty"
  /\ UNCHANGED <<managerVars, threadVars, clientVars, requests, happened>>

FinishElectionLocked(c) ==   \* mutant: the mutex is not released
  /\ LoopDone(c)
  /\ Goto(c, "elected", "gone")
  /\ StartLoop(c, {})
  /\ UNCHANGED <<managerVars, wasMaster, newMaster, clientVars, requests,
                 happened>>

FinishElection(c) ==
  /\ LoopDone(c)
  /\ Goto(c, "elected", "gone")
  /\ Unlock(c)
  /\ StartLoop(c, {})
  /\ UNCHANGED <<playerHash, masterPlayer, nextActorNumber, actorNumber,
                 isMasterClient, wasMaster, newMaster, clientVars, requests,
                 happened>>

(* A loop steps on from an entry that was erased under it: undefined, and  *)
(* the process may end (or the loop may go on, in the actions above).      *)
IteratorFault(c) ==
  /\ pc[c] \in LoopSteps
  /\ cursor[c] # NoPlayer
  /\ cursor[c] \notin playerHash
  /\ fault' = "erased"
  /\ UNCHANGED <<managerVars, threadVars, clientVars, requests, happened>>

(* The handleInfo that c's disconnect has deleted is read: undefined, and  *)
(* the process may end.                                                    *)
FreedFault(c) ==
  /\ pc[c] \in CloseSteps \cup {"gone"}
  /\ fault' = "freed"
  /\ UNCHANGED <<managerVars, threadVars, clientVars, requests, happened>>

---------------------------------------------------------------------------

(* The steps a thread that has begun a handler takes on its own.           *)
HandlerStep(c) ==
  /\ up
  /\ UNCHANGED fault
  /\ \/ FinishCreate(c)
     \/ Connect(c)
     \/ PostFirstRecv(c)
     \/ PostRecv(c)
     \/ Remove(c)
     \/ CountPlayers(c)
     \/ ResetServerMaster(c)
     \/ ResetServerNumber(c)
     \/ FinishElection(c)
     \/ \E r \in Conn : \/ EncodePlayer(c, r)
                        \/ NotifyJoined(c, r)
                        \/ Relay(c, r)
                        \/ TellMaster(c, r)
                        \/ AnnounceLeft(c, r)
                        \/ Elect(c, r)

ThreadStep(c) == HandlerStep(c) \/ (up /\ ElectNobody(c))

(* What the clients and the network bring about.                           *)
Arrival(c) ==
  /\ up
  /\ UNCHANGED fault
  /\ \/ Accept(c)
     \/ ReceiveRelay(c)
     \/ ReceiveNothing(c)
     \/ PostRecvFails(c)
     \/ \E p \in Conn : ReceiveChangeMaster(c, p)

Crash(c) ==
  /\ up
  /\ \/ IteratorFault(c)
     \/ FreedFault(c)
     \/ \E n \in known[c] : ReceiveForMissing(c, n)

Next == \E c \in Conn : ThreadStep(c) \/ Arrival(c) \/ Crash(c)

Spec == Init /\ [][Next]_vars

(* The scheduler runs every thread that can go on.  Clients owe nothing.   *)
FairSpec == Spec /\ \A c \in Conn : WF_vars(ThreadStep(c))

---------------------------------------------------------------------------

TypeOK ==
  /\ ManagerTypeOK
  /\ fault \in Faults \cup {"none"}
  /\ pc \in [Conn -> Steps]
  /\ todo \in [Conn -> SUBSET Conn]
  /\ cursor \in [Conn -> Conn \cup {NoPlayer}]
  /\ wasMaster \in [Conn -> BOOLEAN]
  /\ newMaster \in [Conn -> Nat]
  /\ isConnected \in [Conn -> BOOLEAN]
  /\ roster \in [Conn -> SUBSET Nat]
  /\ known \in [Conn -> SUBSET Nat]
  /\ toldMaster \in [Conn -> Nat]
  /\ requests \in 0 .. MaxRequests
  /\ happened \in SUBSET Overlaps

(* The players that have been created and not yet removed.                 *)
Present == {c \in Conn : pc[c] \in JoinSteps \cup RequestSteps
                                     \cup {"reading", "orphaned", "closing"}}

(* As long as ResetServer has not renumbered a room somebody had just      *)
(* joined, the table holds exactly the players present, each under a       *)
(* number of its own: RemovePlayer, SetMasterClient and every lookup by    *)
(* number (PlayerManager.cpp:28, 40, 70-71) reach the player they mean.    *)
UniqueNumbers ==
  "staleReset" \notin happened =>
    /\ playerHash = Present
    /\ \A c, d \in Present : actorNumber[c] = actorNumber[d] => c = d

(* The inductive form of UniqueNumbers: every number in use is below the   *)
(* counter, except that of a player whose creation holds the mutex, which  *)
(* is the counter itself.                                                  *)
NumbersInv ==
  "staleReset" \notin happened =>
    /\ playerHash = Present
    /\ \A c, d \in Present : actorNumber[c] = actorNumber[d] => c = d
    /\ \A c \in Present : IF pc[c] = "creating"
                          THEN actorNumber[c] = nextActorNumber
                          ELSE actorNumber[c] < nextActorNumber

(* What may end the process when.  Requests that come late, for a player   *)
(* of whose departure the client has been told, and the freed handleInfo   *)
(* may do so at any time.  Otherwise, as long as no disconnect has run     *)
(* beside any other handler, no loop is left on an erased entry, and a     *)
(* client finds whom its messages have in the room; and no election meets  *)
(* an empty table unless a disconnect overlaps another or what would start *)
(* a join or a master change (PlayerManager.cpp:40, 46, 87, 95).           *)
Survives ==
  /\ "busyClose" \notin happened => fault \notin {"missing", "erased"}
  /\ "closeOverlap" \notin happened => fault # "empty"

(* As long as no disconnect has overlapped another disconnect, a join or a *)
(* master change, then between disconnects the room has exactly one master *)
(* client, the one masterPlayer points to, and an empty room has none      *)
(* (HandlePlayerDisconnect's isMaster is read before RemovePlayer and used *)
(* after it, IOCP_Server.cpp:307, 326).                                    *)
OneMaster ==
  "closeOverlap" \notin happened /\ Closing = {} =>
    IF playerHash = {}
    THEN masterPlayer = NoPlayer
    ELSE {p \in playerHash : isMasterClient[p]} = {masterPlayer}

(* Until the room first empties, no connected client lacks a player whose  *)
(* join has finished: whatever that player sends, its receivers have been  *)
(* told who it is, by the room information or by PlayerJoined, whichever   *)
(* joins and departures run in between (IOCP_Server.cpp:265, 299).         *)
NoStranger ==
  "emptied" \notin happened =>
    \A r, s \in playerHash :
      isConnected[r] /\ pc[s] \notin JoinSteps => actorNumber[s] \in roster[r]

(* As long as no two of joins, departures and master changes have          *)
(* overlapped, then at rest every client has been told exactly who is in   *)
(* the room and who is its master.                                         *)
ViewsAgree ==
  "overlap" \notin happened /\ Joining \cup ChangingMaster \cup Closing = {} =>
    \A r \in playerHash :
      /\ roster[r] = {actorNumber[s] : s \in playerHash}
      /\ toldMaster[r] = actorNumber[masterPlayer]

(* A handler that has begun runs to its end: neither the mutex, which an   *)
(* election holds through a whole broadcast, nor a loop over a table that  *)
(* changes keeps it from that.                                             *)
HandlersFinish ==
  \A c \in Conn : pc[c] \in JoinSteps \cup RequestSteps \cup CloseSteps
                    ~> pc[c] \in {"reading", "orphaned", "gone"} \/ ~up

(* HandlePlayerJoin's first step is to add the player (the comment at      *)
(* IOCP_Server.cpp:252): a player that has been created is in the table.   *)
JoinAddsPlayer ==
  [][\A c \in Conn : Accept(c) => c \in playerHash']_vars
=============================================================================
