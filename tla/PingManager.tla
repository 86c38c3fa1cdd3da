---------------------------- MODULE PingManager ----------------------------
(***************************************************************************)
(* PingManager (PingManager.h, PingManager.cpp): the server's time, which  *)
(* all threads write and read without a lock, and when each player was     *)
(* last sent it.                                                           *)
(***************************************************************************)
EXTENDS Integers

CONSTANT Conn   \* the client connections

VARIABLES
  clock,        \* system_clock::now, in milliseconds; it is never set back
  serverTime,   \* the time that was stored last
  sampled,      \* what each thread in GetTimeNow has read off the clock
  pingRecords   \* when each player was last sent the time

timeVars == <<clock, serverTime, sampled, pingRecords>>

NoTime == -1

TimeTypeOK ==
  /\ clock \in Nat
  /\ serverTime \in Nat
  /\ sampled \in [Conn -> Nat \cup {NoTime}]
  /\ pingRecords \in [Conn -> Nat]

TimeInit ==
  /\ clock = 0
  /\ serverTime = 0
  /\ sampled = [c \in Conn |-> NoTime]
  /\ pingRecords = [c \in Conn |-> 0]

(* UpdateTime reads the clock and then stores what it has read.            *)
Sample(c) ==
  /\ sampled' = [sampled EXCEPT ![c] = clock]
  /\ UNCHANGED <<clock, serverTime, pingRecords>>

StoreNothing(c) == UNCHANGED timeVars   \* mutant: the time is not updated

Store(c) ==
  /\ serverTime' = sampled[c]
  /\ UNCHANGED <<clock, sampled, pingRecords>>

(* GetTimeNow returns serverTime, which the compiler may read again or     *)
(* take from what was just stored.                                         *)
TimeRead(c) == {sampled[c], serverTime}

EraseRecord(c, time) ==   \* mutant: the record is given up
  /\ pingRecords' = [pingRecords EXCEPT ![c] = NoTime]
  /\ UNCHANGED <<clock, serverTime, sampled>>

RecordPing(c, time) ==
  /\ pingRecords' = [pingRecords EXCEPT ![c] = time]
  /\ UNCHANGED <<clock, serverTime, sampled>>

PingBackwards(c, time) == pingRecords[c] - time   \* mutant: operands swapped

(* TimeSynch_Receive: half of the time elapsed, rounded towards zero.      *)
OneWayPing(c, time) ==
  LET elapsedTime == time - pingRecords[c] IN
    IF elapsedTime >= 0 THEN elapsedTime \div 2 ELSE -((-elapsedTime) \div 2)

TimeSynch_Receive(c, time) == RecordPing(c, time)
=============================================================================
