------------------------------ MODULE Requests ------------------------------
(***************************************************************************)
(* The requests that share PingManager and DBMS_NI among the threads:      *)
(* Handle_ServerRequest's Ping, Receive_modifiedTime and DBReference, and  *)
(* the time that HandlePlayerJoin sends with the room information.         *)
(*                                                                         *)
(* A step is one access of what is shared.  One thread at a time handles a *)
(* connection, and the accept thread one join at a time.  The player of a  *)
(* request is in the room: its own handler would have to remove it.        *)
(***************************************************************************)
EXTENDS PingManager, DBMS_NI

CONSTANTS
  MaxClock,      \* bound: the time
  MaxRequests    \* bound: requests in a behaviour

ASSUME RequestsAssumption == MaxClock \in Nat /\ MaxRequests \in Nat

VARIABLES
  up,            \* FALSE once the process has ended
  pc,            \* where the handler of each connection is
  request,       \* what it is at, or was at last
  timeNow,       \* the time its GetTimeNow returned
  ping,          \* the ping its player was last sent
  ret,           \* what its SQLExecDirect returned
  requests,      \* requests so far
  oldest,        \* history: the oldest time that GetTimeNow may return
  overlapped,    \* history: whose GetTimeNow overlapped another
  failed         \* history: a statement has failed

handlerVars == <<pc, request, timeNow, ping, ret, requests>>
historyVars == <<oldest, overlapped, failed>>
vars == <<timeVars, databaseVars, up, handlerVars, historyVars>>

Timed == {"join", "ping", "sync"}
TimeSteps == {"sampling", "storing", "loading"}
Steps == {"outside", "idle", "timed", "recording", "executing", "assigning",
          "checking", "exiting"} \cup TimeSteps

InGetTimeNow == {c \in Conn : pc[c] \in TimeSteps}

Init ==
  /\ TimeInit
  /\ DatabaseInit
  /\ up = TRUE
  /\ pc = [c \in Conn |-> "outside"]
  /\ request = [c \in Conn |-> "join"]
  /\ timeNow = [c \in Conn |-> 0]
  /\ ping = [c \in Conn |-> 0]
  /\ ret = [c \in Conn |-> "SQL_SUCCESS"]
  /\ requests = 0
  /\ oldest = [c \in Conn |-> 0]
  /\ overlapped = {}
  /\ failed = FALSE

Goto(c, from, to) == pc[c] = from /\ pc' = [pc EXCEPT ![c] = to]

Tick ==
  /\ clock < MaxClock
  /\ clock' = clock + 1
  /\ UNCHANGED <<serverTime, sampled, pingRecords, databaseVars, handlerVars,
                 historyVars>>

---------------------------------------------------------------------------
(* The time.                                                               *)

Forget(c) ==
  /\ ping' = [ping EXCEPT ![c] = 0]
  /\ ret' = [ret EXCEPT ![c] = "SQL_SUCCESS"]

(* What a GetTimeNow that begins now may return.                           *)
Returnable == {clock} \cup ({sampled[d] : d \in Conn} \ {NoTime})

Begin(c, what) ==
  /\ Forget(c)
  /\ request' = [request EXCEPT ![c] = what]
  /\ \E time \in Returnable :
       /\ \A later \in Returnable : time <= later
       /\ oldest' = [oldest EXCEPT ![c] = time]
  /\ overlapped' = IF InGetTimeNow = {} THEN overlapped \ {c}
                   ELSE overlapped \cup InGetTimeNow \cup {c}
  /\ UNCHANGED <<timeVars, databaseVars, timeNow, failed>>

(* HandlePlayerJoin's GetTimeNow.                                          *)
Join(c) ==
  /\ \A d \in Conn : pc[d] \notin {"outside", "idle"} => request[d] # "join"
  /\ Goto(c, "outside", "sampling")
  /\ Begin(c, "join")
  /\ UNCHANGED requests

(* Handle_ServerRequest_Ping, _ReceiveModifiedTime.                        *)
AskTime(c, what) ==
  /\ requests < MaxRequests
  /\ Goto(c, "idle", "sampling")
  /\ Begin(c, what)
  /\ requests' = requests + 1

SampleTime(c) ==
  /\ Goto(c, "sampling", "storing")
  /\ Sample(c)
  /\ UNCHANGED <<databaseVars, request, timeNow, ping, ret, requests,
                 historyVars>>

StoreTime(c) ==
  /\ Goto(c, "storing", "loading")
  /\ Store(c)
  /\ UNCHANGED <<databaseVars, request, timeNow, ping, ret, requests,
                 historyVars>>

LoadTime(c) ==
  /\ Goto(c, "loading", "timed")
  /\ \E time \in TimeRead(c) : timeNow' = [timeNow EXCEPT ![c] = time]
  /\ sampled' = [sampled EXCEPT ![c] = NoTime]
  /\ UNCHANGED <<clock, serverTime, pingRecords, databaseVars, request, ping,
                 ret, requests, historyVars>>

TimeUsed(c) ==
  /\ timeNow' = [timeNow EXCEPT ![c] = 0]
  /\ oldest' = [oldest EXCEPT ![c] = 0]

(* A new player's record grows the map.                                    *)
BeginRecord(c) ==
  /\ request[c] = "join"
  /\ Goto(c, "timed", "recording")
  /\ UNCHANGED <<timeVars, databaseVars, request, timeNow, ping, ret, requests,
                 historyVars>>

EndRecord(c) ==
  /\ Goto(c, "recording", "idle")
  /\ RecordPing(c, timeNow[c])
  /\ TimeUsed(c)
  /\ UNCHANGED <<databaseVars, request, ping, ret, requests, overlapped,
                 failed>>

AnswerPing(c) ==
  /\ request[c] = "ping"
  /\ Goto(c, "timed", "idle")
  /\ TimeUsed(c)
  /\ UNCHANGED <<timeVars, databaseVars, request, ping, ret, requests,
                 overlapped, failed>>

TimeSync_Send(c, timeValue) == ping' = [ping EXCEPT ![c] = timeValue]

AnswerModifiedTime(c) ==
  /\ request[c] = "sync"
  /\ Goto(c, "timed", "idle")
  /\ TimeSync_Send(c, OneWayPing(c, timeNow[c]))
  /\ TimeSynch_Receive(c, timeNow[c])
  /\ TimeUsed(c)
  /\ UNCHANGED <<databaseVars, request, ret, requests, overlapped, failed>>

---------------------------------------------------------------------------
(* The database: HandleRequest, and sqlexec with or without a callback.    *)

(* A request that calls for a statement; the others change nothing.        *)
AskDatabase(c) ==
  /\ requests < MaxRequests
  /\ Goto(c, "idle", "executing")
  /\ request' = [request EXCEPT ![c] = "database"]
  /\ requests' = requests + 1
  /\ Forget(c)
  /\ UNCHANGED <<timeVars, databaseVars, timeNow, oldest, overlapped, failed>>

Execute(c) ==
  /\ Goto(c, "executing", "assigning")
  /\ \E r \in RETCODE, isQuery \in BOOLEAN :
       /\ SQLExecDirect(r, isQuery)
       /\ ret' = [ret EXCEPT ![c] = r]
       /\ failed' = (failed \/ r = "SQL_ERROR")
  /\ UNCHANGED <<timeVars, request, timeNow, ping, requests, oldest,
                 overlapped>>

Assign(c) ==
  /\ Goto(c, "assigning", "checking")
  /\ AssignReturn(ret[c])
  /\ UNCHANGED <<timeVars, request, timeNow, ping, ret, requests, oldest,
                 overlapped, failed>>

(* rc is read again, or is still at hand.  The answer to a log-in is sent  *)
(* from here; a failure frees the handle that others may be using.         *)
Check(c) ==
  /\ \E r \in {ret[c], rc} :
       \/ MYSQLSUCCESS(r) /\ Goto(c, "checking", "idle")
          /\ UNCHANGED databaseVars
       \/ ~MYSQLSUCCESS(r) /\ Goto(c, "checking", "exiting")
          /\ SQLFreeStmt
  /\ UNCHANGED <<timeVars, request, timeNow, ping, ret, requests, historyVars>>

Exit(c) == pc[c] = "exiting"

(* pingRecords is read while a new record makes it grow.                   *)
MapFault(c) ==
  /\ pc[c] = "timed" /\ request[c] = "sync"
  /\ \E d \in Conn : pc[d] = "recording"

End(c) ==
  /\ Exit(c) \/ MapFault(c)
  /\ up' = FALSE
  /\ UNCHANGED <<timeVars, databaseVars, handlerVars, historyVars>>

---------------------------------------------------------------------------

Step(c) ==
  \/ Join(c)
  \/ \E what \in {"ping", "sync"} : AskTime(c, what)
  \/ SampleTime(c)
  \/ StoreTime(c)
  \/ LoadTime(c)
  \/ BeginRecord(c)
  \/ EndRecord(c)
  \/ AnswerPing(c)
  \/ AnswerModifiedTime(c)
  \/ AskDatabase(c)
  \/ Execute(c)
  \/ Assign(c)
  \/ Check(c)

Next ==
  /\ up
  /\ \/ UNCHANGED up /\ (Tick \/ \E c \in Conn : Step(c))
     \/ \E c \in Conn : End(c)

Spec == Init /\ [][Next]_vars

---------------------------------------------------------------------------

TypeOK ==
  /\ TimeTypeOK
  /\ DatabaseTypeOK
  /\ up \in BOOLEAN
  /\ pc \in [Conn -> Steps]
  /\ request \in [Conn -> Timed \cup {"database"}]
  /\ timeNow \in [Conn -> Nat]
  /\ ping \in [Conn -> Int]
  /\ ret \in [Conn -> RETCODE]
  /\ requests \in 0 .. MaxRequests
  /\ oldest \in [Conn -> Nat]
  /\ overlapped \in SUBSET Conn
  /\ failed \in BOOLEAN

(* The time a client is told is not ahead of the clock, and not older than *)
(* what the calls in progress had read off it when the client's began:     *)
(* a slow thread can set serverTime back by the time it lags, and no more  *)
(* (PingManager.h:37-44).                                                  *)
TimeNotStale ==
  \A c \in Conn :
    pc[c] = "timed" => timeNow[c] >= oldest[c] /\ timeNow[c] <= clock

(* No player is sent a negative ping, unless its GetTimeNow overlapped     *)
(* another thread's: no record is ahead of the clock (PingManager.cpp:24). *)
PingNotNegative ==
  \A c \in Conn \ overlapped :
    request[c] = "sync" /\ pc[c] = "idle" => ping[c] >= 0

(* Whichever return codes are mixed up, the server does not exit unless a  *)
(* statement has failed; one that succeeds with information has not        *)
(* (DBMS_NI.cpp:69, 84).                                                   *)
ExitMeansFailure == (\E c \in Conn : Exit(c)) => failed
=============================================================================
