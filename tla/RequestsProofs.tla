--------------------------- MODULE RequestsProofs ---------------------------
(***************************************************************************)
(* Proofs about Requests, for every set of connections, every bound on the *)
(* clock and every number of requests.                                     *)
(***************************************************************************)
EXTENDS Requests, TLAPS

TimeStep(c) ==
  \/ Join(c)
  \/ \E what \in {"ping", "sync"} : AskTime(c, what)
  \/ SampleTime(c)
  \/ StoreTime(c)
  \/ LoadTime(c)
  \/ BeginRecord(c)
  \/ EndRecord(c)
  \/ AnswerPing(c)
  \/ AnswerModifiedTime(c)

DatabaseStep(c) == AskDatabase(c) \/ Execute(c) \/ Assign(c) \/ Check(c)

DatabaseSteps == {"executing", "assigning", "checking", "exiting"}

LEMMA StepKinds ==
  ASSUME Next
  PROVE  \/ Tick
         \/ \E c \in Conn : TimeStep(c)
         \/ \E c \in Conn : DatabaseStep(c)
         \/ \E c \in Conn : End(c)
  BY DEF Next, Step, TimeStep, DatabaseStep

LEMMA Ping ==
  ASSUME NEW c \in Conn, pingRecords \in [Conn -> Nat], NEW time \in Nat
  PROVE  /\ OneWayPing(c, time) \in Int
         /\ pingRecords[c] <= time => OneWayPing(c, time) >= 0
  BY DEF OneWayPing

---------------------------------------------------------------------------
(* Types.                                                                  *)

(* A thread has a sample of the clock from when it reads it until its      *)
(* GetTimeNow returns.                                                     *)
SampledInv ==
  \A c \in Conn : sampled[c] # NoTime <=> pc[c] \in {"storing", "loading"}

Types == TypeOK /\ SampledInv

LEMMA Times ==
  ASSUME TypeOK
  PROVE  NoTime \notin Nat /\ clock \in Nat /\ Returnable \subseteq Nat
<1>1. \A d \in Conn : sampled[d] # NoTime => sampled[d] \in Nat
  BY DEF TypeOK, TimeTypeOK
<1> QED
  BY <1>1 DEF TypeOK, TimeTypeOK, Returnable, NoTime

LEMMA TickTypes ==
  ASSUME Types, Tick, UNCHANGED up
  PROVE  Types'
  BY RequestsAssumption
     DEF Tick, Types, SampledInv, TypeOK, TimeTypeOK, DatabaseTypeOK, databaseVars, handlerVars,
         historyVars

LEMMA TimeTypes ==
  ASSUME Types, NEW c \in Conn, TimeStep(c), UNCHANGED up
  PROVE  Types'
<1> USE RequestsAssumption
    DEF Types, SampledInv, TypeOK, TimeTypeOK, DatabaseTypeOK, databaseVars,
        historyVars, timeVars, Steps, TimeSteps, Timed, RETCODE, Goto
<1>1. ASSUME NEW what \in Timed, Begin(c, what), pc[c] \in {"outside", "idle"},
             pc' = [pc EXCEPT ![c] = "sampling"], requests' \in 0 .. MaxRequests
      PROVE  Types'
  <2>1. PICK time \in Returnable : oldest' = [oldest EXCEPT ![c] = time]
    BY <1>1 DEF Begin
  <2>2. time \in Nat
    BY <2>1, Times
  <2>3. oldest' \in [Conn -> Nat] /\ overlapped' \in SUBSET Conn
    BY <1>1, <2>1, <2>2 DEF Begin, InGetTimeNow
  <2>4. SampledInv'
    BY <1>1 DEF Begin
  <2> QED
    BY <1>1, <2>3, <2>4 DEF Begin, Forget
<1>2. CASE Join(c)
  BY <1>1, <1>2 DEF Join
<1>3. ASSUME NEW what \in {"ping", "sync"}, AskTime(c, what)
      PROVE  Types'
  BY <1>1, <1>3 DEF AskTime
<1>4. CASE SampleTime(c)
  BY <1>4, Times DEF SampleTime, Sample
<1>5. CASE StoreTime(c) \/ LoadTime(c)
  <2>1. sampled[c] \in Nat
    BY <1>5 DEF StoreTime, LoadTime
  <2> QED
    BY <1>5, <2>1 DEF StoreTime, Store, LoadTime, TimeRead
<1>6. CASE BeginRecord(c) \/ EndRecord(c) \/ AnswerPing(c)
  BY <1>6 DEF BeginRecord, EndRecord, AnswerPing, RecordPing, TimeUsed
<1>7. CASE AnswerModifiedTime(c)
  <2>1. OneWayPing(c, timeNow[c]) \in Int
    BY Ping
  <2> QED
    BY <1>7, <2>1 DEF AnswerModifiedTime, TimeSync_Send, TimeSynch_Receive,
         RecordPing, TimeUsed
<1> QED
  BY <1>2, <1>3, <1>4, <1>5, <1>6, <1>7 DEF TimeStep

LEMMA DatabaseTypes ==
  ASSUME Types, NEW c \in Conn, DatabaseStep(c), UNCHANGED up
  PROVE  Types'
<1> USE RequestsAssumption
    DEF Types, SampledInv, TypeOK, TimeTypeOK, DatabaseTypeOK, databaseVars,
        historyVars, timeVars, Steps, TimeSteps, Timed, RETCODE, Goto
<1>1. CASE AskDatabase(c)
  BY <1>1 DEF AskDatabase, Forget
<1>2. CASE Execute(c)
  BY <1>2 DEF Execute, SQLExecDirect
<1>3. CASE Assign(c)
  BY <1>3 DEF Assign, AssignReturn
<1>4. CASE Check(c)
  BY <1>4 DEF Check, SQLFreeStmt
<1> QED
  BY <1>1, <1>2, <1>3, <1>4 DEF DatabaseStep

(* Every variable keeps its type, whatever the threads read of each        *)
(* other's time and return codes.                                          *)
THEOREM TypesCorrect == Spec => []Types
<1>1. Init => Types
  <2> SUFFICES ASSUME Init PROVE Types
    OBVIOUS
  <2>1. TimeTypeOK /\ DatabaseTypeOK /\ SampledInv
    BY DEF Init, TimeInit, DatabaseInit, TimeTypeOK, DatabaseTypeOK, RETCODE,
           SampledInv
  <2>2. /\ up \in BOOLEAN /\ pc \in [Conn -> Steps]
        /\ request \in [Conn -> Timed \cup {"database"}]
        /\ timeNow \in [Conn -> Nat] /\ ping \in [Conn -> Int]
        /\ ret \in [Conn -> RETCODE]
    BY DEF Init, Steps, Timed, RETCODE
  <2>3. requests \in 0 .. MaxRequests /\ oldest \in [Conn -> Nat]
    BY RequestsAssumption DEF Init
  <2>4. overlapped \in SUBSET Conn /\ failed \in BOOLEAN
    BY DEF Init
  <2> QED
    BY <2>1, <2>2, <2>3, <2>4 DEF Types, TypeOK
<1>2. Types /\ [Next]_vars => Types'
  <2>1. Types /\ UNCHANGED vars => Types'
    BY DEF vars, timeVars, databaseVars, handlerVars, historyVars, Types,
           SampledInv, TypeOK, TimeTypeOK, DatabaseTypeOK
  <2>2. ASSUME Types, NEW c \in Conn, End(c)
        PROVE  Types'
    BY <2>2 DEF End, timeVars, databaseVars, handlerVars, historyVars, Types,
         SampledInv, TypeOK, TimeTypeOK, DatabaseTypeOK
  <2> QED
    BY <2>1, <2>2, TickTypes, TimeTypes, DatabaseTypes
       DEF Next, Step, TimeStep, DatabaseStep
<1> QED
  BY <1>1, <1>2, PTL DEF Spec

(* The type invariant that the runs check.                                 *)
THEOREM TypeCorrect == Spec => []TypeOK
<1>1. Types => TypeOK
  BY DEF Types
<1> QED
  BY <1>1, TypesCorrect, PTL

---------------------------------------------------------------------------
(* The return codes.                                                       *)

(* A failure that anybody sees or may see is a statement's.                *)
FailureInv ==
  \/ failed
  \/ /\ rc # "SQL_ERROR"
     /\ \A c \in Conn : ret[c] # "SQL_ERROR" /\ pc[c] # "exiting"

LEMMA TimeStepFrame ==
  ASSUME Types, NEW c \in Conn, TimeStep(c)
  PROVE  /\ UNCHANGED <<rc, hstmt, failed>>
         /\ pc[c] \notin DatabaseSteps
         /\ \E to \in Steps \ DatabaseSteps : pc' = [pc EXCEPT ![c] = to]
         /\ UNCHANGED ret \/ Forget(c)
<1> USE DEF databaseVars, historyVars, Goto, Steps, TimeSteps, DatabaseSteps
<1>1. CASE Join(c) \/ \E what \in {"ping", "sync"} : AskTime(c, what)
  BY <1>1 DEF Join, AskTime, Begin
<1>2. CASE SampleTime(c) \/ StoreTime(c) \/ LoadTime(c)
  BY <1>2 DEF SampleTime, StoreTime, LoadTime
<1>3. CASE BeginRecord(c) \/ EndRecord(c) \/ AnswerPing(c) \/ AnswerModifiedTime(c)
  BY <1>3 DEF BeginRecord, EndRecord, AnswerPing, AnswerModifiedTime
<1> QED
  BY <1>1, <1>2, <1>3 DEF TimeStep

LEMMA TimeReturns ==
  ASSUME Types, FailureInv, NEW c \in Conn, TimeStep(c)
  PROVE  FailureInv'
<1>1. PICK to \in Steps \ DatabaseSteps : pc' = [pc EXCEPT ![c] = to]
  BY TimeStepFrame
<1>2. /\ UNCHANGED <<rc, failed>>
      /\ pc[c] \notin DatabaseSteps
      /\ UNCHANGED ret \/ Forget(c)
  BY TimeStepFrame
<1> USE DEF Types, TypeOK
<1>3. pc'[c] \notin DatabaseSteps /\ \A d \in Conn \ {c} : pc'[d] = pc[d]
  BY <1>1
<1> QED
  BY <1>2, <1>3 DEF FailureInv, Forget, DatabaseSteps

(* Execute records the failure in failed before Assign can spread it.      *)
LEMMA DatabaseReturns ==
  ASSUME Types, FailureInv, NEW c \in Conn, DatabaseStep(c)
  PROVE  FailureInv'
<1> USE DEF Types, TypeOK, DatabaseTypeOK, FailureInv,
            Goto, RETCODE
<1>1. CASE AskDatabase(c)
  BY <1>1 DEF AskDatabase, Forget, databaseVars
<1>2. CASE Execute(c)
  BY <1>2 DEF Execute, SQLExecDirect
<1>3. CASE Assign(c)
  BY <1>3 DEF Assign, AssignReturn
<1>4. CASE Check(c)
  BY <1>4 DEF Check, MYSQLSUCCESS, SQLFreeStmt, databaseVars, historyVars
<1> QED
  BY <1>1, <1>2, <1>3, <1>4 DEF DatabaseStep

(* No failure is seen that no statement had.                               *)
THEOREM FailureInvariant == Spec => []FailureInv
<1>1. Init => FailureInv
  BY DEF Init, DatabaseInit, FailureInv
<1>2. Types /\ FailureInv /\ [Next]_vars => FailureInv'
  <2>1. FailureInv /\ UNCHANGED vars => FailureInv'
    BY DEF vars, databaseVars, handlerVars, historyVars, FailureInv
  <2>2. FailureInv /\ Tick => FailureInv'
    BY DEF Tick, databaseVars, handlerVars, historyVars, FailureInv
  <2>3. ASSUME FailureInv, NEW c \in Conn, End(c)
        PROVE  FailureInv'
    BY <2>3 DEF End, databaseVars, handlerVars, historyVars, FailureInv
  <2> QED
    BY <2>1, <2>2, <2>3, TimeReturns, DatabaseReturns, StepKinds
<1> QED
  BY <1>1, <1>2, TypesCorrect, PTL DEF Spec

(* However the return codes are mixed up, the server exits only after a    *)
(* statement has failed.                                                   *)
THEOREM ExitsAreFailures == Spec => []ExitMeansFailure
<1>1. FailureInv => ExitMeansFailure
  BY DEF FailureInv, ExitMeansFailure, Exit
<1> QED
  BY <1>1, FailureInvariant, PTL

---------------------------------------------------------------------------
(* The time.                                                               *)

(* Nothing is ahead of the clock.                                          *)
BoundInv ==
  /\ serverTime <= clock
  /\ \A c \in Conn : /\ sampled[c] <= clock /\ timeNow[c] <= clock
                     /\ pingRecords[c] <= clock /\ oldest[c] <= clock

(* What may still be stored is as new as the oldest that a GetTimeNow      *)
(* under way may return, and so is what it finds once it has stored.       *)
StaleInv ==
  \A c \in Conn :
    /\ pc[c] \in TimeSteps =>
         \A d \in Conn : sampled[d] # NoTime => oldest[c] <= sampled[d]
    /\ pc[c] = "loading" => oldest[c] <= serverTime
    /\ pc[c] = "timed" => oldest[c] <= timeNow[c]

(* A GetTimeNow that overlapped no other returns its own sample, which is  *)
(* no older than the player's record.                                      *)
PingInv ==
  /\ \A c, d \in InGetTimeNow : c # d => c \in overlapped
  /\ \A c \in Conn \ overlapped :
       /\ sampled[c] # NoTime => pingRecords[c] <= sampled[c]
       /\ pc[c] = "loading" => serverTime = sampled[c]
       /\ pc[c] = "timed" => pingRecords[c] <= timeNow[c]
       /\ ping[c] >= 0

ClockInv == BoundInv /\ StaleInv /\ PingInv

LEMMA BeginClock ==
  ASSUME Types, ClockInv, NEW c \in Conn, NEW what \in Timed, Begin(c, what),
         pc[c] \in {"outside", "idle"}, pc' = [pc EXCEPT ![c] = "sampling"]
  PROVE  ClockInv'
<1> USE DEF Types, SampledInv, TypeOK, TimeTypeOK, timeVars, TimeSteps
<1>1. PICK time \in Returnable :
        /\ \A later \in Returnable : time <= later
        /\ oldest' = [oldest EXCEPT ![c] = time]
  BY DEF Begin
<1>2. /\ time \in Nat /\ time <= clock
      /\ \A d \in Conn : sampled[d] # NoTime => time <= sampled[d]
  BY <1>1, Times DEF Returnable
<1>3. /\ UNCHANGED <<clock, serverTime, sampled, pingRecords, timeNow>>
      /\ ping' = [ping EXCEPT ![c] = 0]
      /\ overlapped' = IF InGetTimeNow = {} THEN overlapped \ {c}
                       ELSE overlapped \cup InGetTimeNow \cup {c}
  BY DEF Begin, Forget
<1>4. BoundInv' /\ StaleInv'
  BY <1>1, <1>2, <1>3 DEF ClockInv, BoundInv, StaleInv
<1>5. PingInv'
  BY <1>3 DEF ClockInv, PingInv, InGetTimeNow
<1> QED
  BY <1>4, <1>5 DEF ClockInv

LEMMA TimeClock ==
  ASSUME Types, ClockInv, NEW c \in Conn, TimeStep(c)
  PROVE  ClockInv'
<1> USE Times
    DEF Types, SampledInv, TypeOK, TimeTypeOK, databaseVars, historyVars,
        timeVars, TimeSteps, Timed, Goto
<1>1. CASE Join(c)
  BY <1>1, BeginClock DEF Join
<1>2. ASSUME NEW what \in {"ping", "sync"}, AskTime(c, what)
      PROVE  ClockInv'
  BY <1>2, BeginClock DEF AskTime
<1> USE DEF ClockInv, BoundInv, StaleInv, PingInv, InGetTimeNow
<1>3. CASE SampleTime(c)
  BY <1>3 DEF SampleTime, Sample
<1>4. CASE StoreTime(c)
  BY <1>4 DEF StoreTime, Store
<1>5. CASE LoadTime(c)
  <2>1. PICK time \in {sampled[c], serverTime} :
          timeNow' = [timeNow EXCEPT ![c] = time]
    BY <1>5 DEF LoadTime, TimeRead
  <2>2. /\ time \in Nat /\ time <= clock /\ oldest[c] <= time
        /\ c \notin overlapped => pingRecords[c] <= time
    BY <1>5, <2>1 DEF LoadTime
  <2>3. /\ pc[c] = "loading" /\ pc' = [pc EXCEPT ![c] = "timed"]
        /\ sampled' = [sampled EXCEPT ![c] = NoTime]
        /\ UNCHANGED <<clock, serverTime, pingRecords, ping, oldest, overlapped>>
    BY <1>5 DEF LoadTime
  <2>4. BoundInv'
    BY <2>1, <2>2, <2>3 DEF NoTime
  <2>5. StaleInv'
    BY <2>1, <2>2, <2>3
  <2>6. PingInv'
    BY <2>1, <2>2, <2>3
  <2> QED
    BY <2>4, <2>5, <2>6
<1>6. CASE BeginRecord(c) \/ AnswerPing(c)
  BY <1>6 DEF BeginRecord, AnswerPing, TimeUsed
<1>7. CASE EndRecord(c)
  BY <1>7 DEF EndRecord, RecordPing, TimeUsed
<1>8. CASE AnswerModifiedTime(c)
  BY <1>8, Ping DEF AnswerModifiedTime, TimeSync_Send, TimeSynch_Receive,
                    RecordPing, TimeUsed
<1> QED
  BY <1>1, <1>2, <1>3, <1>4, <1>5, <1>6, <1>7, <1>8 DEF TimeStep

LEMMA DatabaseClock ==
  ASSUME Types, ClockInv, NEW c \in Conn, DatabaseStep(c)
  PROVE  ClockInv'
<1>1. /\ UNCHANGED <<serverTime, clock, sampled, pingRecords, timeNow, oldest,
                     overlapped>>
      /\ pc[c] \in {"idle"} \cup DatabaseSteps
      /\ \E to \in {"idle"} \cup DatabaseSteps : pc' = [pc EXCEPT ![c] = to]
      /\ ping' \in {ping, [ping EXCEPT ![c] = 0]}
  BY DEF DatabaseStep, AskDatabase, Execute, Assign, Check, Forget, Goto,
         timeVars, historyVars, DatabaseSteps
<1> QED
  BY <1>1 DEF Types, TypeOK, ClockInv, BoundInv, StaleInv, PingInv,
              InGetTimeNow, TimeSteps, DatabaseSteps

(* The times' invariant.                                                   *)
THEOREM ClockInvariant == Spec => []ClockInv
<1>1. Init => ClockInv
  BY DEF Init, TimeInit, ClockInv, BoundInv, StaleInv, PingInv, InGetTimeNow,
         TimeSteps, NoTime
<1>2. Types /\ ClockInv /\ [Next]_vars => ClockInv'
  <2> USE DEF databaseVars, handlerVars, historyVars, timeVars, ClockInv,
              BoundInv, StaleInv, PingInv, InGetTimeNow
  <2>1. ClockInv /\ UNCHANGED vars => ClockInv'
    BY DEF vars
  <2>2. Types /\ ClockInv /\ Tick => ClockInv'
    BY DEF Tick, Types, TypeOK, TimeTypeOK, NoTime
  <2>3. ASSUME ClockInv, NEW c \in Conn, End(c)
        PROVE  ClockInv'
    BY <2>3 DEF End
  <2> HIDE DEF ClockInv
  <2> QED
    BY <2>1, <2>2, <2>3, TimeClock, DatabaseClock, StepKinds
<1> QED
  BY <1>1, <1>2, TypesCorrect, PTL DEF Spec

(* A client is never told a time ahead of the clock, nor one older than    *)
(* what the GetTimeNow calls in progress had read when its own began.      *)
THEOREM TimesNotStale == Spec => []TimeNotStale
<1>1. Types /\ ClockInv => TimeNotStale
  BY DEF Types, TypeOK, ClockInv, BoundInv, StaleInv, TimeNotStale
<1> QED
  BY <1>1, TypesCorrect, ClockInvariant, PTL

(* No player is sent a negative ping unless another thread's GetTimeNow    *)
(* overlapped the one that the ping was computed from.                     *)
THEOREM PingsNotNegative == Spec => []PingNotNegative
<1>1. ClockInv => PingNotNegative
  BY DEF ClockInv, PingInv, PingNotNegative
<1> QED
  BY <1>1, ClockInvariant, PTL
=============================================================================
