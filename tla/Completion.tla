----------------------------- MODULE Completion -----------------------------
(***************************************************************************)
(* The completion port of IOCP_Server.cpp: who posts, completes and frees  *)
(* the PER_IO_DATA of receives and sends, and how long the PER_HANDLE_DATA *)
(* lives that the completions and the players point to.  OpenServer's      *)
(* accept thread, the workers of EchoThreadMain, HandlePlayerDisconnect,   *)
(* RemovePlayer and Player::Send.                                          *)
(*                                                                         *)
(* Conn counts the connections as they are accepted.  The heap is a set of *)
(* blocks: a pointer to freed data reads whatever its block holds now.     *)
(* Which messages are sent, who is the master and which number a player    *)
(* gets is the matter of Room and CatchUp: here any request may be         *)
(* broadcast, any leaver may have been the master, and any number may be   *)
(* given that is new or in use.  An operation posted and one whose         *)
(* completion waits in the queue are not told apart; the WRITEs of a       *)
(* connection are freed in one step, for none of them touches what another *)
(* thread uses.                                                            *)
(***************************************************************************)
EXTENDS Naturals, FiniteSets

CONSTANTS
  NumConns,      \* bound: connections accepted in a behaviour
  Worker,        \* the worker threads
  Accepter,      \* the accept thread
  MaxRequests    \* bound: receives with data in a behaviour

ASSUME CompletionAssumption ==
  NumConns \in Nat /\ MaxRequests \in Nat /\ Accepter \notin Worker

Conn == 1 .. NumConns
Block == Conn   \* a fresh one for each, beside those freed before
Nobody == 0
Thread == Worker \cup {Accepter}

VARIABLES
  accepted,      \* connections accepted so far
  open,          \* the sockets that are open
  handleInfo,    \* the block of each connection's PER_HANDLE_DATA
  holds,         \* the connection whose data is in each block, or Nobody
  playerHash,    \* the players in the table
  actorNumber,   \* Player::actorNumber, 0 before the player is created
  isConnected,   \* the players whose isConnected is set
  reads,         \* READs of a connection posted and not dequeued
  writes,        \* the connections with WRITEs posted and not dequeued
  step,          \* where each thread is
  conn,          \* the connection it is at
  todo,          \* the players its broadcast has still to reach
  requests,      \* receives with data so far
  orphaned,      \* history: those whose first WSARecv failed
  clashed        \* history: a number was given that somebody had

threadVars == <<step, conn, todo>>
socketVars == <<accepted, open, handleInfo, holds>>
playerVars == <<playerHash, actorNumber, isConnected>>
historyVars == <<orphaned, clashed>>
vars == <<socketVars, playerVars, reads, writes, threadVars, requests,
          historyVars>>

Idle == {"waiting", "accepting"}
JoinSteps == {"informing", "connecting", "notifying"}
ReadSteps == {"relaying", "freeing"}
Steps == Idle \cup JoinSteps \cup ReadSteps
           \cup {"removing", "announcing", "electing", "ended"}

Ended == step[Accepter] = "ended"

At(S, c) == {t \in Thread : step[t] \in S /\ conn[t] = c}

(* READs of a connection, posted or in a worker's hands.                   *)
Reads(c) == reads[c] + Cardinality(At(ReadSteps, c))

Init ==
  /\ accepted = 0
  /\ open = {}
  /\ handleInfo = [c \in Conn |-> Nobody]
  /\ holds = [b \in Block |-> Nobody]
  /\ playerHash = {}
  /\ actorNumber = [c \in Conn |-> 0]
  /\ isConnected = {}
  /\ reads = [c \in Conn |-> 0]
  /\ writes = {}
  /\ step = [t \in Thread |-> IF t = Accepter THEN "accepting" ELSE "waiting"]
  /\ conn = [t \in Thread |-> Nobody]
  /\ todo = [t \in Thread |-> {}]
  /\ requests = 0
  /\ orphaned = {}
  /\ clashed = FALSE

Goto(t, from, to) ==
  /\ step[t] = from
  /\ step' = [step EXCEPT ![t] = to]
  /\ conn' = IF to \in Idle THEN [conn EXCEPT ![t] = Nobody] ELSE conn

(* playerHash.find(n), and what a loop visits that skips c's number.       *)
Lookup(n) == {p \in playerHash : actorNumber[p] = n}

OthersOf(c) == {p \in playerHash : actorNumber[p] # actorNumber[c]}

StartLoop(t, players) == todo' = [todo EXCEPT ![t] = players]

(* handleInfo of c has been freed and its block not been taken again.      *)
Dangling(c) == holds[handleInfo[c]] = Nobody

(* What handleInfo->clientSocket of c may read: a freed block still has    *)
(* its old contents or has none that name a socket.                        *)
ClientSocket(c) ==
  IF Dangling(c) THEN {c, Nobody} ELSE {holds[handleInfo[c]]}

SendUnchecked(c) ==   \* mutant: waits for the completion of a failed send
  \E s \in ClientSocket(c) : writes' = writes \cup {s}

(* CreateMessageBuffer and WSASend, whose result is not looked at: when it *)
(* fails at once the buffer is never heard of again.                       *)
Send(c) ==
  \E s \in ClientSocket(c) :
    writes' = writes \cup ({s} \cap open)

---------------------------------------------------------------------------
(* The accept thread.                                                      *)

(* The players who have not been through RemovePlayer.                     *)
Staying == {c \in 1 .. accepted :
              Reads(c) > 0 \/ At(JoinSteps \cup {"removing"}, c) # {}
                \/ c \in orphaned}

(* The number is new or, after a ResetServer by somebody's disconnect,     *)
(* that of one who is still there: the number of one who is not is as good *)
(* as new.  insert keeps an entry that is already there.                   *)
CreatePlayer(c) ==
  \E n \in {c} \cup {actorNumber[d] : d \in Staying} :
    /\ n # c => 1 .. accepted # Staying
    /\ actorNumber' = [actorNumber EXCEPT ![c] = n]
    /\ playerHash' = playerHash \cup {p \in {c} : Lookup(n) = {}}
    /\ clashed' = (clashed \/ n # c)

Accept ==
  LET c == accepted + 1 IN
  /\ accepted < NumConns
  /\ step[Accepter] = "accepting"
  /\ step' = [step EXCEPT ![Accepter] = "informing"]
  /\ conn' = [conn EXCEPT ![Accepter] = c]
  /\ accepted' = c
  /\ open' = open \cup {c}
  /\ \E b \in {c} \cup {handleInfo[d] : d \in 1 .. accepted} :
       /\ holds[b] = Nobody
       /\ handleInfo' = [handleInfo EXCEPT ![c] = b]
       /\ holds' = [holds EXCEPT ![b] = c]
  /\ CreatePlayer(c)
  /\ UNCHANGED <<isConnected, reads, writes, todo, requests, orphaned>>

(* The room information, sent although the player is not connected yet.    *)
SendInfo ==
  /\ Goto(Accepter, "informing", "connecting")
  /\ Send(conn[Accepter])
  /\ UNCHANGED <<socketVars, playerVars, reads, todo, requests, historyVars>>

(* The buffered messages and OnLocalPlayerJoined; PlayerJoined begins.     *)
Connect ==
  LET c == conn[Accepter] IN
  /\ Goto(Accepter, "connecting", "notifying")
  /\ isConnected' = isConnected \cup {c}
  /\ Send(c)
  /\ StartLoop(Accepter, OthersOf(c))
  /\ UNCHANGED <<socketVars, playerHash, actorNumber, reads, requests,
                 historyVars>>

(* The first WSARecv, whose result is not looked at.                       *)
PostFirstRecv ==
  LET c == conn[Accepter] IN
  /\ todo[Accepter] = {}
  /\ Goto(Accepter, "notifying", "accepting")
  /\ \/ c \in open /\ reads' = [reads EXCEPT ![c] = @ + 1]
        /\ UNCHANGED orphaned
     \/ orphaned' = orphaned \cup {c} /\ UNCHANGED reads
  /\ UNCHANGED <<socketVars, playerVars, writes, todo, requests, clashed>>

---------------------------------------------------------------------------
(* The workers: GetQueuedCompletionStatus and what follows it.             *)

TakeRead(w, c, to) ==
  /\ reads[c] > 0
  /\ step[w] = "waiting"
  /\ step' = [step EXCEPT ![w] = to]
  /\ conn' = [conn EXCEPT ![w] = c]
  /\ reads' = [reads EXCEPT ![c] = @ - 1]
  /\ UNCHANGED <<socketVars, playerVars, writes, historyVars>>

(* Data: HandleMessage, and a broadcast if there is anything to relay.     *)
TakeData(w, c) ==
  /\ c \in open
  /\ requests < MaxRequests
  /\ TakeRead(w, c, "relaying")
  /\ requests' = requests + 1
  /\ \E relayed \in BOOLEAN :
       StartLoop(w, IF relayed THEN OthersOf(c) ELSE {})

(* Zero bytes: the client has gone, or the socket is closed.               *)
TakeNothing(w, c) ==
  TakeRead(w, c, "freeing") /\ UNCHANGED <<todo, requests>>

TakeWriteAlive(w, c) ==   \* mutant: nothing is freed for who has left
  /\ step[w] = "waiting"
  /\ c \in writes /\ ~Dangling(c)
  /\ writes' = writes \ {c}
  /\ UNCHANGED <<socketVars, playerVars, reads, threadVars, requests,
                 historyVars>>

(* WRITEs: their buffers and ios are freed.  The completion key may be     *)
(* dangling, and is read all the same.                                     *)
TakeWrite(w, c) ==
  /\ step[w] = "waiting"
  /\ c \in writes
  /\ writes' = writes \ {c}
  /\ UNCHANGED <<socketVars, playerVars, reads, threadVars, requests,
                 historyVars>>

(* Player::Send(message, false) to the next player of a broadcast.         *)
SendNext(t, r) ==
  /\ r \in todo[t]
  /\ todo' = [todo EXCEPT ![t] = @ \ {r}]
  /\ IF r \in isConnected THEN Send(r) ELSE UNCHANGED writes
  /\ UNCHANGED <<socketVars, playerVars, reads, step, conn, requests,
                 historyVars>>

PostTwice(w) ==   \* mutant: posts a second receive with the first
  /\ todo[w] = {}
  /\ Goto(w, "relaying", "waiting")
  /\ conn[w] \in open
  /\ reads' = [reads EXCEPT ![conn[w]] = @ + 2]
  /\ UNCHANGED <<socketVars, playerVars, writes, todo, requests, historyVars>>

(* RecycleIO and WSARecv.                                                  *)
PostRecv(w) ==
  /\ todo[w] = {}
  /\ Goto(w, "relaying", "waiting")
  /\ conn[w] \in open
  /\ reads' = [reads EXCEPT ![conn[w]] = @ + 1]
  /\ UNCHANGED <<socketVars, playerVars, writes, todo, requests, historyVars>>

ForgetIt(w) ==   \* mutant: a receive that fails is left at that
  /\ todo[w] = {}
  /\ Goto(w, "relaying", "waiting")
  /\ UNCHANGED <<socketVars, playerVars, reads, writes, todo, requests,
                 historyVars>>

PostRecvFails(w) ==
  /\ todo[w] = {}
  /\ Goto(w, "relaying", "freeing")
  /\ UNCHANGED <<socketVars, playerVars, reads, writes, todo, requests,
                 historyVars>>

---------------------------------------------------------------------------
(* The workers: HandlePlayerDisconnect.                                    *)

LeakHandle(w) ==   \* mutant: the connection's data are never freed
  /\ Goto(w, "freeing", "removing")
  /\ UNCHANGED <<socketVars, playerVars, reads, writes, todo, requests,
                 historyVars>>

(* handleInfo, the buffer and the io are deleted.                          *)
FreeHandle(w) ==
  /\ Goto(w, "freeing", "removing")
  /\ holds' = [holds EXCEPT ![handleInfo[conn[w]]] = Nobody]
  /\ UNCHANGED <<accepted, open, handleInfo, playerVars, reads, writes, todo,
                 requests, historyVars>>

(* RemovePlayer erases whoever the table holds under the number, and       *)
(* closes the socket that the handleInfo of that player names: freed, if   *)
(* it is the leaver's own.  When it holds nobody, nothing is done.  A loop *)
(* may be at the entry, and sends to the player when it is erased.         *)
RemovePlayer(w) ==
  LET found == Lookup(actorNumber[conn[w]]) IN
  /\ Goto(w, "removing", "announcing")
  /\ \/ found = {} /\ UNCHANGED open
     \/ \E p \in found : \E s \in ClientSocket(p) : open' = open \ {s}
  /\ playerHash' = playerHash \ found
  /\ \E holding \in SUBSET {t \in Thread : todo[t] \cap found # {}} :
       todo' = [t \in Thread |->
                  IF t = w THEN playerHash'
                  ELSE IF t \in holding THEN todo[t] ELSE todo[t] \ found]
  /\ UNCHANGED <<accepted, handleInfo, holds, actorNumber, isConnected, reads,
                 writes, requests, historyVars>>

(* PlayerDisconnected is sent; MasterClientChanged follows if the leaver   *)
(* was the master and somebody is left.                                    *)
EndAnnounce(w) ==
  /\ todo[w] = {}
  /\ \/ Goto(w, "announcing", "waiting") /\ UNCHANGED todo
     \/ playerHash # {} /\ Goto(w, "announcing", "electing")
        /\ StartLoop(w, playerHash)
     \/ Goto(w, "electing", "waiting") /\ UNCHANGED todo
  /\ UNCHANGED <<socketVars, playerVars, reads, writes, requests, historyVars>>

---------------------------------------------------------------------------

(* Freed memory may also have gone back to the system: the process ends,   *)
(* and its threads with it.                                                *)
Fault(t) ==
  /\ \/ step[t] = "waiting" /\ \E c \in writes : Dangling(c)
     \/ /\ step[t] = "removing"
        /\ \E p \in Lookup(actorNumber[conn[t]]) : Dangling(p)
     \/ \E r \in todo[t] \cap isConnected : Dangling(r)
  /\ step' = [u \in Thread |-> "ended"]
  /\ conn' = [u \in Thread |-> Nobody]
  /\ todo' = [u \in Thread |-> {}]
  /\ UNCHANGED <<socketVars, playerVars, reads, writes, requests, historyVars>>

JoinStep ==
  \/ SendInfo
  \/ Connect
  \/ \E r \in Conn : SendNext(Accepter, r)
  \/ PostFirstRecv

WorkerStep(w) ==
  \/ \E r \in Conn : SendNext(w, r)
  \/ PostRecv(w)
  \/ PostRecvFails(w)
  \/ FreeHandle(w)
  \/ RemovePlayer(w)
  \/ EndAnnounce(w)

Next ==
  \/ Accept
  \/ JoinStep
  \/ \E w \in Worker :
       \/ \E c \in Conn : TakeData(w, c) \/ TakeNothing(w, c) \/ TakeWrite(w, c)
       \/ WorkerStep(w)
  \/ \E t \in Thread : Fault(t)

(* As long as a thread can go on, one does.  A send completes in the end,  *)
(* with an error if need be, and so does a receive on a closed socket.     *)
Progress ==
  \/ JoinStep
  \/ \E w \in Worker :
       \/ WorkerStep(w)
       \/ \E c \in Conn : TakeWrite(w, c)
       \/ \E c \in Conn \ open : TakeNothing(w, c)

Spec == Init /\ [][Next]_vars /\ WF_vars(Progress)

---------------------------------------------------------------------------

TypeOK ==
  /\ accepted \in 0 .. NumConns
  /\ open \in SUBSET Conn
  /\ handleInfo \in [Conn -> Block \cup {Nobody}]
  /\ holds \in [Block -> Conn \cup {Nobody}]
  /\ playerHash \in SUBSET Conn
  /\ actorNumber \in [Conn -> 0 .. accepted]
  /\ isConnected \in SUBSET Conn
  /\ reads \in [Conn -> Nat]
  /\ writes \in SUBSET Conn
  /\ step \in [Thread -> Steps]
  /\ conn \in [Thread -> Conn \cup {Nobody}]
  /\ todo \in [Thread -> SUBSET Conn]
  /\ requests \in 0 .. MaxRequests
  /\ orphaned \in SUBSET Conn
  /\ clashed \in BOOLEAN

(* Two workers never handle the same connection: it has one READ at most,  *)
(* posted, or in the hands of one worker (IOCP_Server.cpp:71, 233).        *)
OneRead == \A c \in Conn : Reads(c) <= 1

(* A READ never meets a handleInfo that was freed, or whose memory is now  *)
(* that of another connection, and so none is freed twice: only WRITEs     *)
(* outlive it (IOCP_Server.cpp:85, 308).                                   *)
ReadsAlive ==
  \A c \in Conn : Reads(c) > 0 => holds[handleInfo[c]] = c

(* Whoever is in the table can be found gone: a READ of the player is      *)
(* posted or handled, or a join or disconnect is under way, whatever       *)
(* sockets were closed by mistake; but for those whose first WSARecv       *)
(* failed (IOCP_Server.cpp:71, 238).                                       *)
Reachable ==
  \A c \in playerHash \ orphaned :
    Reads(c) = 1 \/ At(JoinSteps \cup {"removing"}, c) # {} \/ Ended

(* Players whose sockets are closed, be it by mistake through the memory   *)
(* of another's freed handleInfo, all leave the table in the end, but for  *)
(* those whose first WSARecv failed (PlayerManager.cpp:70).                *)
ClosedLeave ==
  LET Stranded == playerHash \ (open \cup orphaned) IN
    Stranded # {} ~> Stranded = {} \/ Ended

(* The buffers of the sends that WSASend took on are all freed in the end, *)
(* those of players who have left too (IOCP_Server.cpp:242).               *)
WritesFreed == writes # {} ~> writes = {} \/ Ended

(* How far a connection is, by who has its READ.                           *)
Stage(c) ==
  LET at == {step[t] : t \in {u \in Thread : conn[u] = c}} IN
  IF Ended THEN "over"
  ELSE IF accepted < c THEN "absent"
  ELSE IF reads[c] > 0 THEN "listening"
  ELSE IF at \cap JoinSteps # {} THEN "joining"
  ELSE IF "relaying" \in at THEN "serving"
  ELSE IF "freeing" \in at THEN "freeing"
  ELSE IF "removing" \in at THEN "removing"
  ELSE IF c \in orphaned THEN "deaf" ELSE "gone"

(* Those whose handleInfo is allocated and still their own.                *)
Alive == {c \in 1 .. accepted : holds[handleInfo[c]] = c}

(* Connections live as Sessions has it, although threads read freed        *)
(* handleInfos and close each other's sockets: what is freed, and who      *)
(* leaves the table, follows from the one READ of each connection, until a *)
(* player is given a number in use: from then on a disconnect may take     *)
(* somebody else out of the table (IOCP_Server.cpp:71, 85, 233-238, 308;   *)
(* PlayerManager.cpp:28, 70).                                              *)
Lives == INSTANCE Sessions WITH
  stage <- [c \in Conn |-> Stage(c)],
  alive <- Alive,
  players <- playerHash,
  mixed <- clashed

ImplementsSessions == Lives!Spec
=============================================================================
