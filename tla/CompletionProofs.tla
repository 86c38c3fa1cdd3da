-------------------------- MODULE CompletionProofs --------------------------
(***************************************************************************)
(* Proofs about Completion, for every number of connections and of         *)
(* requests and every set of workers.                                      *)
(***************************************************************************)
EXTENDS Completion, FiniteSetTheorems, TLAPS

(* A thread is at a connection exactly while it handles it.  Joins are the *)
(* accept thread's, everything else the workers'.  All threads end at once.*)
ThreadInv ==
  /\ \A t \in Thread : conn[t] = Nobody <=> step[t] \in Idle \cup {"ended"}
  /\ step[Accepter] \in JoinSteps \cup {"accepting", "ended"}
  /\ \A w \in Worker : step[w] \notin JoinSteps \cup {"accepting"}
  /\ \A t \in Thread : step[t] = "ended" <=> Ended

---------------------------------------------------------------------------

LEMMA Constants == /\ Accepter \notin Worker
                   /\ NumConns \in Nat /\ MaxRequests \in Nat
                   /\ Nobody \notin Conn
  BY CompletionAssumption DEF Conn, Nobody

(* The accept thread keeps the types.                                      *)
LEMMA AcceptTypes ==
  ASSUME TypeOK, ThreadInv, Accept \/ JoinStep
  PROVE  TypeOK' /\ ThreadInv'
<1> USE Constants DEF TypeOK, ThreadInv, Thread, Steps, Idle, JoinSteps, Ended,
                      ReadSteps, Goto, StartLoop, Block, OthersOf
<1>1. CASE Accept
  <2>1. accepted + 1 \in Conn /\ accepted + 1 \in 0 .. NumConns
    BY <1>1 DEF Accept, Conn
  <2>2. \A d \in 1 .. accepted : d \in Conn
    BY DEF Conn
  <2> DEFINE c == accepted + 1
  <2>3. PICK b \in {c} \cup {handleInfo[d] : d \in 1 .. accepted} :
          /\ handleInfo' = [handleInfo EXCEPT ![c] = b]
          /\ holds' = [holds EXCEPT ![b] = c]
    BY <1>1 DEF Accept
  <2>4. b \in Conn \cup {Nobody}
    BY <2>1, <2>2, <2>3
  <2>5. /\ handleInfo' \in [Conn -> Block \cup {Nobody}]
        /\ holds' \in [Block -> Conn \cup {Nobody}]
    BY <2>1, <2>3, <2>4
  <2>6. /\ accepted' = c /\ open' \in SUBSET Conn
        /\ playerHash' \in SUBSET Conn /\ clashed' \in BOOLEAN
        /\ UNCHANGED <<isConnected, reads, writes, todo, requests, orphaned>>
    BY <1>1, <2>1 DEF Accept, CreatePlayer
  <2>10. actorNumber' \in [Conn -> 0 .. accepted']
    <3>1. PICK n \in {c} \cup {actorNumber[d] : d \in Staying} :
            actorNumber' = [actorNumber EXCEPT ![c] = n]
      BY <1>1 DEF Accept, CreatePlayer
    <3>2. n \in 0 .. c /\ 0 .. accepted \subseteq 0 .. c
      BY <2>1, <2>2, <3>1 DEF Staying
    <3> QED
      BY <2>1, <2>6, <3>1, <3>2
  <2>7. /\ step' = [step EXCEPT ![Accepter] = "informing"]
        /\ conn' = [conn EXCEPT ![Accepter] = c]
        /\ step[Accepter] = "accepting"
    BY <1>1 DEF Accept
  <2>8. /\ step' \in [Thread -> Steps]
        /\ conn' \in [Thread -> Conn \cup {Nobody}]
    BY <2>1, <2>7
  <2>9. ThreadInv'
    <3>1. \A t \in Thread : step[t] # "ended"
      BY <2>7
    <3> QED
      BY <2>1, <2>7, <3>1
  <2> QED
    BY <2>1, <2>5, <2>6, <2>8, <2>9, <2>10
<1>2. CASE SendInfo
  BY <1>2 DEF SendInfo, Send, socketVars, playerVars, historyVars
<1>3. CASE Connect
  BY <1>3 DEF Connect, Send, socketVars, historyVars
<1>4. CASE \E r \in Conn : SendNext(Accepter, r)
  BY <1>4 DEF SendNext, Send, socketVars, playerVars, historyVars
<1>5. CASE PostFirstRecv
  BY <1>5 DEF PostFirstRecv, socketVars, playerVars
<1> QED
  BY <1>1, <1>2, <1>3, <1>4, <1>5 DEF JoinStep

(* So do the workers when they take a completion off the port.             *)
LEMMA TakeTypes ==
  ASSUME TypeOK, ThreadInv, NEW w \in Worker, NEW c \in Conn,
         TakeData(w, c) \/ TakeNothing(w, c) \/ TakeWrite(w, c)
  PROVE  TypeOK' /\ ThreadInv'
<1> USE Constants DEF TypeOK, ThreadInv, Thread, Steps, Idle, JoinSteps,
                      ReadSteps, StartLoop, socketVars, playerVars, historyVars,
                      Ended, OthersOf
<1>1. CASE TakeData(w, c)
  <2>1. requests + 1 \in 0 .. MaxRequests
    BY <1>1 DEF TakeData
  <2> QED
    BY <1>1, <2>1 DEF TakeData, TakeRead
<1>2. CASE TakeNothing(w, c)
  BY <1>2 DEF TakeNothing, TakeRead
<1>3. CASE TakeWrite(w, c)
  BY <1>3 DEF TakeWrite, threadVars
<1> QED
  BY <1>1, <1>2, <1>3

(* And when they handle it.                                                *)
LEMMA WorkerTypes ==
  ASSUME TypeOK, ThreadInv, NEW w \in Worker, WorkerStep(w)
  PROVE  TypeOK' /\ ThreadInv'
<1> USE Constants DEF TypeOK, ThreadInv, Thread, Steps, Idle, JoinSteps,
                      ReadSteps, Goto, StartLoop, socketVars, playerVars,
                      historyVars, Ended
<1>1. CASE \E r \in Conn : SendNext(w, r)
  BY <1>1 DEF SendNext, Send
<1>2. CASE PostRecv(w)
  BY <1>2 DEF PostRecv
<1>3. CASE PostRecvFails(w)
  BY <1>3 DEF PostRecvFails
<1>4. CASE FreeHandle(w)
  BY <1>4 DEF FreeHandle
<1>5. CASE RemovePlayer(w)
  BY <1>5 DEF RemovePlayer
<1>6. CASE EndAnnounce(w)
  BY <1>6 DEF EndAnnounce
<1> QED
  BY <1>1, <1>2, <1>3, <1>4, <1>5, <1>6 DEF WorkerStep

(* Every variable keeps its type, whatever freed handles are read for.     *)
THEOREM TypesCorrect == Spec => [](TypeOK /\ ThreadInv)
<1>1. Init => TypeOK /\ ThreadInv
  <2>1. Init => actorNumber \in [Conn -> 0 .. accepted]
    BY DEF Init
  <2>2. Init => ThreadInv
    BY Constants DEF Init, ThreadInv, Thread, Idle, JoinSteps, Ended
  <2>3. ASSUME Init PROVE TypeOK
    <3>1. /\ accepted = 0 /\ 0 \in 0 .. NumConns /\ requests \in 0 .. MaxRequests
      BY <2>3, Constants DEF Init
    <3>2. /\ step \in [Thread -> Steps] /\ conn \in [Thread -> Conn \cup {Nobody}]
          /\ todo \in [Thread -> SUBSET Conn]
      BY <2>3 DEF Init, Thread, Steps, Idle
    <3> QED
      BY <2>1, <2>3, <3>1, <3>2 DEF Init, TypeOK
  <2> QED
    BY <2>2, <2>3
<1>2. TypeOK /\ ThreadInv /\ [Next]_vars => (TypeOK /\ ThreadInv)'
  <2> SUFFICES ASSUME TypeOK, ThreadInv, [Next]_vars
               PROVE  TypeOK' /\ ThreadInv'
    OBVIOUS
  <2>1. CASE UNCHANGED vars
    BY <2>1 DEF vars, socketVars, playerVars, threadVars, historyVars, TypeOK,
         ThreadInv, Ended
  <2>2. ASSUME NEW t \in Thread, Fault(t)
        PROVE  TypeOK' /\ ThreadInv'
    BY <2>2, Constants DEF Fault, TypeOK, ThreadInv, Thread, Steps,
         JoinSteps, socketVars, playerVars, historyVars, Ended
  <2> QED
    BY <2>1, <2>2, AcceptTypes, TakeTypes, WorkerTypes DEF Next
<1> QED
  BY <1>1, <1>2, PTL DEF Spec

(* The type invariant that the runs check.                                 *)
THEOREM TypeCorrect == Spec => []TypeOK
  BY TypesCorrect, PTL

---------------------------------------------------------------------------
(* The receives.                                                           *)

Reading(c) == reads[c] > 0 \/ At(ReadSteps, c) # {}

(* A connection has one READ, posted or with one worker, and none while it *)
(* is joining or before.  As long as it has it, its handleInfo is its own. *)
ReadsInv ==
  /\ \A c \in Conn : reads[c] \in {0, 1}
  /\ \A c \in Conn : reads[c] = 1 => At(ReadSteps, c) = {}
  /\ \A t, u \in Thread :
       step[t] \in ReadSteps /\ step[u] \in ReadSteps /\ conn[t] = conn[u] => t = u
  /\ \A c \in Conn : accepted < c => ~Reading(c) /\ \A t \in Thread : conn[t] # c
  /\ \A c \in Conn : conn[Accepter] = c => ~Reading(c)
  /\ \A c \in 1 .. accepted : handleInfo[c] \in Block
  /\ \A c \in Conn : Reading(c) \/ conn[Accepter] = c =>
       holds[handleInfo[c]] = c

(* Under ReadsInv, READs are counted by who has them.                      *)
LEMMA ReadsCount ==
  ASSUME TypeOK, ReadsInv, NEW c \in Conn
  PROVE  /\ Reads(c) \in {0, 1}
         /\ Reads(c) > 0 <=> Reading(c)
<1> DEFINE S == At(ReadSteps, c)
<1>1. reads[c] \in {0, 1} /\ (reads[c] = 1 => S = {})
  BY DEF ReadsInv
<1>2. CASE S = {}
  BY <1>1, <1>2, FS_EmptySet DEF Reads, Reading
<1>3. CASE S # {}
  <2>1. PICK t : t \in S
    BY <1>3
  <2>2. S = {t}
    BY <2>1 DEF At, ReadsInv
  <2>3. Cardinality(S) = 1
    BY <2>2, FS_Singleton
  <2> QED
    BY <1>1, <1>3, <2>3 DEF Reads, Reading
<1> QED
  BY <1>2, <1>3

(* Accept takes memory that holds nobody, so nobody's handleInfo but the   *)
(* new connection's changes; the first receive is posted when there is no  *)
(* other.                                                                  *)
LEMMA AcceptReads ==
  ASSUME TypeOK, ThreadInv, ReadsInv, Accept \/ JoinStep
  PROVE  ReadsInv'
<1> USE Constants DEF TypeOK, ThreadInv, ReadsInv, Reading, At, Thread,
                      JoinSteps, ReadSteps, Idle, Block
<1>1. CASE Accept
  <2> DEFINE c == accepted + 1
  <2>1. /\ c \in Conn /\ c \in Nat /\ accepted \in Nat /\ accepted < c
        /\ \A d \in 1 .. accepted : d \in Conn
        /\ \A d \in Conn : d \in Nat
    <3>1. accepted \in Nat /\ accepted < NumConns
      BY <1>1 DEF Accept
    <3> QED
      BY <3>1 DEF Conn
  <2>2. PICK b \in {c} \cup {handleInfo[d] : d \in 1 .. accepted} :
          /\ holds[b] = Nobody
          /\ handleInfo' = [handleInfo EXCEPT ![c] = b]
          /\ holds' = [holds EXCEPT ![b] = c]
    BY <1>1 DEF Accept
  <2>3. b \in Block
    BY <2>1, <2>2
  <2>4. /\ step' = [step EXCEPT ![Accepter] = "informing"]
        /\ conn' = [conn EXCEPT ![Accepter] = c]
        /\ step[Accepter] = "accepting"
        /\ accepted' = c /\ reads' = reads
    BY <1>1 DEF Accept
  <2>5. \A d \in Conn : Reading(d)' <=> Reading(d)
    BY <2>4
  <2>6. ~Reading(c) /\ \A t \in Thread : conn[t] # c
    BY <2>1
  <2>7. \A d \in Conn : c < d => ~Reading(d) /\ \A t \in Thread : conn'[t] # d
    BY <2>1, <2>4
  <2>8. \A d \in 1 .. c : handleInfo'[d] \in Block
    BY <2>1, <2>2, <2>3
  <2>9. \A d \in Conn : Reading(d) \/ conn'[Accepter] = d =>
          holds'[handleInfo'[d]] = d
    <3>1. holds'[handleInfo'[c]] = c
      BY <2>1, <2>2, <2>3
    <3>2. ASSUME NEW d \in Conn, Reading(d) PROVE holds'[handleInfo'[d]] = d
      <4>1. d # c /\ holds[handleInfo[d]] = d /\ handleInfo[d] # b
        BY <2>2, <2>6, <3>2
      <4> QED
        BY <2>2, <2>3, <4>1
    <3> QED
      BY <2>4, <3>1, <3>2
  <2>10. \A t \in Thread : step'[t] \in ReadSteps =>
           step[t] \in ReadSteps /\ conn'[t] = conn[t]
    BY <2>4
  <2>11. /\ \A d \in Conn : reads'[d] \in {0, 1}
         /\ \A d \in Conn : reads'[d] = 1 => At(ReadSteps, d)' = {}
    BY <2>4, <2>10
  <2>12. \A t, u \in Thread :
          step'[t] \in ReadSteps /\ step'[u] \in ReadSteps /\ conn'[t] = conn'[u]
            => t = u
    BY <2>10
  <2>13. \A d \in Conn : conn'[Accepter] = d => ~Reading(d)
    BY <2>4, <2>6
  <2> HIDE DEF Reading, At
  <2> QED
    BY <2>4, <2>5, <2>7, <2>8, <2>9, <2>11, <2>12, <2>13
<1>2. CASE SendInfo \/ Connect \/ \E r \in Conn : SendNext(Accepter, r)
  BY <1>2 DEF SendInfo, Connect, SendNext, Goto, socketVars
<1>3. CASE PostFirstRecv
  BY <1>3 DEF PostFirstRecv, Goto, socketVars
<1> QED
  BY <1>1, <1>2, <1>3 DEF JoinStep

(* A worker that takes a READ has it instead of the port.                  *)
LEMMA TakeReads ==
  ASSUME TypeOK, ThreadInv, ReadsInv, NEW w \in Worker, NEW c \in Conn,
         TakeData(w, c) \/ TakeNothing(w, c) \/ TakeWrite(w, c)
  PROVE  ReadsInv'
<1> USE Constants DEF TypeOK, ThreadInv, Thread, JoinSteps, ReadSteps, Idle
<1>1. CASE TakeWrite(w, c)
  BY <1>1 DEF TakeWrite, ReadsInv, Reading, At, threadVars, socketVars
<1>2. ASSUME NEW to \in ReadSteps, TakeRead(w, c, to)
      PROVE  ReadsInv'
  <2>0. reads[c] = 1
    BY <1>2 DEF TakeRead, ReadsInv
  <2>1. /\ reads[c] = 1 /\ reads' = [reads EXCEPT ![c] = 0]
        /\ step' = [step EXCEPT ![w] = to] /\ conn' = [conn EXCEPT ![w] = c]
        /\ step[w] = "waiting" /\ conn[w] = Nobody
        /\ UNCHANGED <<accepted, handleInfo, holds>>
    BY <1>2, <2>0 DEF TakeRead, socketVars
  <2>2. At(ReadSteps, c) = {} /\ conn[Accepter] # c /\ ~(accepted < c)
    BY <2>1 DEF ReadsInv, Reading
  <2>3. At(ReadSteps, c)' = {w}
    BY <2>1, <2>2 DEF At
  <2>4. \A d \in Conn \ {c} : At(ReadSteps, d)' = At(ReadSteps, d)
    BY <2>1 DEF At
  <2>5. \A d \in Conn : Reading(d)' <=> Reading(d)
    BY <2>1, <2>3, <2>4 DEF Reading
  <2>6. /\ \A d \in Conn : reads'[d] \in {0, 1}
        /\ \A d \in Conn : reads'[d] = 1 => At(ReadSteps, d)' = {}
    BY <2>1, <2>3, <2>4 DEF ReadsInv
  <2>7. \A t, u \in Thread :
          step'[t] \in ReadSteps /\ step'[u] \in ReadSteps /\ conn'[t] = conn'[u]
            => t = u
    BY <2>0, <2>1, <2>2 DEF ReadsInv, At
  <2>8. /\ \A d \in Conn : accepted < d => \A t \in Thread : conn'[t] # d
        /\ conn'[Accepter] = conn[Accepter]
    BY <2>1, <2>2 DEF ReadsInv
  <2> QED
    BY <2>1, <2>5, <2>6, <2>7, <2>8 DEF ReadsInv
<1> QED
  BY <1>1, <1>2 DEF TakeData, TakeNothing

(* A worker hands its READ back to the port or frees it with the handle,   *)
(* which no other READ has.                                                *)
LEMMA WorkerReads ==
  ASSUME TypeOK, ThreadInv, ReadsInv, NEW w \in Worker, WorkerStep(w)
  PROVE  ReadsInv'
<1> USE Constants DEF TypeOK, ThreadInv, Thread, JoinSteps, ReadSteps, Idle,
                      Goto, socketVars
<1>1. CASE (\E r \in Conn : SendNext(w, r)) \/ PostRecvFails(w)
  BY <1>1 DEF SendNext, PostRecvFails, ReadsInv, Reading, At
<1>2. CASE PostRecv(w)
  <2>0. PICK c \in Conn : c = conn[w]
    BY <1>2 DEF PostRecv
  <2>1. /\ c \in Conn /\ step[w] = "relaying"
        /\ step' = [step EXCEPT ![w] = "waiting"]
        /\ conn' = [conn EXCEPT ![w] = Nobody]
        /\ reads' = [reads EXCEPT ![c] = @ + 1]
        /\ UNCHANGED <<accepted, handleInfo, holds>>
    BY <1>2, <2>0 DEF PostRecv
  <2>2. w \in At(ReadSteps, c)
    BY <2>0, <2>1 DEF At
  <2>3. reads[c] = 0 /\ Reading(c)
    BY <2>1, <2>2 DEF ReadsInv, Reading
  <2>4. At(ReadSteps, c)' = {}
    BY <2>0, <2>1, <2>2 DEF ReadsInv, At
  <2>5. \A d \in Conn \ {c} : At(ReadSteps, d)' = At(ReadSteps, d)
    BY <2>0, <2>1 DEF At
  <2>6. reads'[c] = 1 /\ \A d \in Conn \ {c} : reads'[d] = reads[d]
    BY <2>1, <2>3
  <2>7. \A d \in Conn : Reading(d)' <=> Reading(d)
    BY <2>3, <2>5, <2>6 DEF Reading
  <2>8. ASSUME NEW d \in Conn
        PROVE  reads'[d] \in {0, 1} /\ (reads'[d] = 1 => At(ReadSteps, d)' = {})
    <3>1. CASE d = c
      BY <2>4, <2>6, <3>1
    <3>2. CASE d # c
      BY <2>5, <2>6, <3>2 DEF ReadsInv
    <3> QED
      BY <3>1, <3>2
  <2>9. \A t \in Thread :
          /\ step'[t] \in ReadSteps => step[t] \in ReadSteps /\ conn'[t] = conn[t]
          /\ conn'[t] \in {conn[t], Nobody}
    BY <2>1
  <2>10. conn'[Accepter] = conn[Accepter]
    BY <2>1
  <2> QED
    BY <2>1, <2>7, <2>8, <2>9, <2>10 DEF ReadsInv
<1>3. CASE FreeHandle(w)
  <2> DEFINE c == conn[w]
  <2>1. /\ c \in Conn /\ step[w] = "freeing"
        /\ step' = [step EXCEPT ![w] = "removing"]
        /\ holds' = [holds EXCEPT ![handleInfo[c]] = Nobody]
        /\ UNCHANGED <<accepted, handleInfo, reads, conn>>
    BY <1>3 DEF FreeHandle
  <2>2. w \in At(ReadSteps, c) /\ Reading(c) /\ holds[handleInfo[c]] = c
    BY <2>1 DEF ReadsInv, Reading, At
  <2>3. ~Reading(c)'
    BY <2>1, <2>2 DEF ReadsInv, Reading, At
  <2>4. \A d \in Conn : At(ReadSteps, d)' \subseteq At(ReadSteps, d)
    BY <2>1 DEF At
  <2>5. \A d \in Conn : Reading(d)' => Reading(d) /\ d # c
    BY <2>1, <2>3, <2>4 DEF Reading
  <2>6. conn[Accepter] # c
    BY <2>1, <2>2 DEF ReadsInv
  <2>7. \A d \in Conn : Reading(d)' \/ conn[Accepter] = d =>
          holds'[handleInfo[d]] = d
    <3> SUFFICES ASSUME NEW d \in Conn, Reading(d)' \/ conn[Accepter] = d
                 PROVE  holds'[handleInfo[d]] = d
      OBVIOUS
    <3>1. d # c /\ holds[handleInfo[d]] = d
      BY <2>5, <2>6 DEF ReadsInv
    <3>2. handleInfo[d] # handleInfo[c]
      BY <2>2, <3>1
    <3> QED
      BY <2>1, <3>1, <3>2
  <2>8. \A t \in Thread : step'[t] \in ReadSteps => step[t] \in ReadSteps
    BY <2>1
  <2> QED
    BY <2>1, <2>4, <2>5, <2>7, <2>8 DEF ReadsInv
<1>4. CASE RemovePlayer(w) \/ EndAnnounce(w)
  <2>1. /\ UNCHANGED <<accepted, handleInfo, holds, reads>>
        /\ step[w] \in {"removing", "announcing", "electing"}
        /\ \A t \in Thread \ {w} : step'[t] = step[t] /\ conn'[t] = conn[t]
        /\ step'[w] \notin ReadSteps /\ conn'[w] \in {conn[w], Nobody}
    BY <1>4 DEF RemovePlayer, EndAnnounce
  <2>2. \A d \in Conn : At(ReadSteps, d)' = At(ReadSteps, d)
    BY <2>1 DEF At
  <2>3. \A d \in Conn : Reading(d)' <=> Reading(d)
    BY <2>1, <2>2 DEF Reading
  <2> QED
    BY <2>1, <2>2, <2>3 DEF ReadsInv
<1> QED
  BY <1>1, <1>2, <1>3, <1>4 DEF WorkerStep

LEMMA FaultReads ==
  ASSUME TypeOK, ThreadInv, ReadsInv, NEW t \in Thread, Fault(t)
  PROVE  ReadsInv'
<1>1. /\ UNCHANGED <<accepted, handleInfo, holds, reads>>
      /\ \A u \in Thread : step'[u] = "ended" /\ conn'[u] = Nobody
  BY DEF Fault, socketVars
<1>2. \A d \in Conn : At(ReadSteps, d)' = {}
  BY <1>1 DEF At, ReadSteps
<1>3. \A d \in Conn : Reading(d)' => Reading(d)
  BY <1>1, <1>2 DEF Reading
<1>4. /\ \A u \in Thread : step'[u] \notin ReadSteps /\ conn'[u] = Nobody
      /\ Accepter \in Thread
  BY <1>1 DEF ReadSteps, Thread
<1>5. \A d \in Conn : \A u \in Thread : conn'[u] # d
  BY <1>4, Constants
<1>6. /\ \A d \in Conn : reads'[d] \in {0, 1}
      /\ \A d \in 1 .. accepted' : handleInfo'[d] \in Block
  BY <1>1 DEF ReadsInv
<1>7. \A d \in Conn : accepted' < d => ~Reading(d)'
  BY <1>1, <1>3 DEF ReadsInv
<1>8. \A d \in Conn : Reading(d)' => holds'[handleInfo'[d]] = d
  BY <1>1, <1>3 DEF ReadsInv
<1> QED
  BY <1>2, <1>4, <1>5, <1>6, <1>7, <1>8 DEF ReadsInv

(* The receives' invariant.                                                *)
THEOREM ReadsInvariant == Spec => []ReadsInv
<1>1. Init => ReadsInv
  <2> SUFFICES ASSUME Init PROVE ReadsInv
    OBVIOUS
  <2>1. /\ \A t \in Thread : step[t] \notin ReadSteps /\ conn[t] = Nobody
        /\ Accepter \in Thread
    BY DEF Init, ReadSteps, Thread
  <2>2. \A c \in Conn : reads[c] = 0 /\ At(ReadSteps, c) = {}
    BY <2>1 DEF Init, At
  <2>3. \A c \in Conn : ~Reading(c) /\ \A t \in Thread : conn[t] # c
    BY <2>1, <2>2, Constants DEF Reading
  <2>4. accepted = 0 /\ 1 .. accepted = {}
    BY DEF Init
  <2> QED
    BY <2>1, <2>2, <2>3, <2>4 DEF ReadsInv
<1>2. TypeOK /\ ThreadInv /\ ReadsInv /\ [Next]_vars => ReadsInv'
  <2>1. UNCHANGED vars /\ ReadsInv => ReadsInv'
    BY DEF vars, socketVars, threadVars, ReadsInv, Reading, At
  <2> QED
    BY <2>1, AcceptReads, TakeReads, WorkerReads, FaultReads DEF Next
<1> QED
  BY <1>1, <1>2, TypesCorrect, PTL DEF Spec

(* No two workers ever handle one connection: whatever fails, at most one  *)
(* receive of it is posted or in a worker's hands.                         *)
THEOREM OneReadEach == Spec => []OneRead
<1>1. TypeOK /\ ReadsInv => OneRead
  BY ReadsCount DEF OneRead
<1> QED
  BY <1>1, TypesCorrect, ReadsInvariant, PTL

(* A receive that completes finds its own handleInfo alive, although the   *)
(* memory of others has been freed and taken again.                        *)
THEOREM ReadsStayAlive == Spec => []ReadsAlive
<1>1. TypeOK /\ ReadsInv => ReadsAlive
  BY ReadsCount DEF ReadsAlive, ReadsInv
<1> QED
  BY <1>1, TypesCorrect, ReadsInvariant, PTL
---------------------------------------------------------------------------
(* The leavers.                                                            *)

Watching == ReadSteps \cup JoinSteps \cup {"removing"}

(* A READ of c is posted, or a thread is joining, handling or removing c.  *)
Watched(c) ==
  reads[c] > 0 \/ \E t \in Thread : step[t] \in Watching /\ conn[t] = c

(* Whoever is in the table can be found gone.                              *)
ReachInv == Ended \/ \A c \in playerHash \ orphaned : Watched(c)

LEMMA JoinReach ==
  ASSUME TypeOK, ThreadInv, ReachInv, Accept \/ JoinStep
  PROVE  ReachInv'
<1> USE Constants DEF TypeOK, ThreadInv, ReachInv, Watched, Watching, Ended,
                      Thread, JoinSteps, ReadSteps, Idle, Goto, socketVars,
                      playerVars, historyVars
<1>1. CASE Accept
  <2>1. /\ step[Accepter] = "accepting" /\ accepted + 1 \in Conn
        /\ step' = [step EXCEPT ![Accepter] = "informing"]
        /\ conn' = [conn EXCEPT ![Accepter] = accepted + 1]
        /\ playerHash' \subseteq playerHash \cup {accepted + 1}
        /\ UNCHANGED <<reads, orphaned>>
    BY <1>1 DEF Accept, CreatePlayer, Conn
  <2> QED
    BY <2>1
<1>2. CASE SendInfo \/ Connect
  BY <1>2 DEF SendInfo, Connect
<1>3. CASE \E r \in Conn : SendNext(Accepter, r)
  BY <1>3 DEF SendNext
<1>4. CASE PostFirstRecv
  <2>1. PICK c \in Conn : c = conn[Accepter]
    BY <1>4 DEF PostFirstRecv
  <2>2. /\ step' = [step EXCEPT ![Accepter] = "accepting"]
        /\ conn' = [conn EXCEPT ![Accepter] = Nobody]
        /\ \/ reads' = [reads EXCEPT ![c] = @ + 1] /\ orphaned' = orphaned
           \/ orphaned' = orphaned \cup {c} /\ reads' = reads
        /\ playerHash' = playerHash /\ step[Accepter] = "notifying"
    BY <1>4, <2>1 DEF PostFirstRecv
  <2> QED
    BY <2>1, <2>2
<1> QED
  BY <1>1, <1>2, <1>3, <1>4 DEF JoinStep

LEMMA TakeReach ==
  ASSUME TypeOK, ThreadInv, ReachInv, NEW w \in Worker, NEW c \in Conn,
         TakeData(w, c) \/ TakeNothing(w, c) \/ TakeWrite(w, c)
  PROVE  ReachInv'
<1> USE Constants DEF TypeOK, ThreadInv, ReachInv, Watched, Watching, Ended,
                      Thread, JoinSteps, ReadSteps, Idle, socketVars,
                      playerVars, historyVars
<1>1. CASE TakeWrite(w, c)
  BY <1>1 DEF TakeWrite, threadVars
<1>2. ASSUME NEW to \in ReadSteps, TakeRead(w, c, to)
      PROVE  ReachInv'
  BY <1>2 DEF TakeRead
<1> QED
  BY <1>1, <1>2 DEF TakeData, TakeNothing

LEMMA WorkerReach ==
  ASSUME TypeOK, ThreadInv, ReachInv, NEW w \in Worker, WorkerStep(w)
  PROVE  ReachInv'
<1> USE Constants DEF TypeOK, ThreadInv, ReachInv, Watched, Watching, Ended,
                      Thread, JoinSteps, ReadSteps, Idle, Goto, socketVars,
                      playerVars, historyVars
<1>1. CASE (\E r \in Conn : SendNext(w, r)) \/ PostRecvFails(w) \/ FreeHandle(w)
  BY <1>1 DEF SendNext, PostRecvFails, FreeHandle
<1>2. CASE PostRecv(w)
  <2>1. PICK c \in Conn : c = conn[w]
    BY <1>2 DEF PostRecv
  <2>2. /\ step' = [step EXCEPT ![w] = "waiting"]
        /\ conn' = [conn EXCEPT ![w] = Nobody]
        /\ reads' = [reads EXCEPT ![c] = @ + 1]
        /\ UNCHANGED <<playerHash, orphaned>>
    BY <1>2, <2>1 DEF PostRecv
  <2> QED
    BY <2>1, <2>2
<1>3. CASE RemovePlayer(w)
  <2>1. PICK c \in Conn : c = conn[w]
    BY <1>3 DEF RemovePlayer
  <2>2. /\ step' = [step EXCEPT ![w] = "announcing"]
        /\ playerHash' \subseteq playerHash \ {c}
        /\ UNCHANGED <<conn, reads, orphaned>>
    BY <1>3, <2>1 DEF RemovePlayer, Lookup
  <2> QED
    BY <2>1, <2>2
<1>4. CASE EndAnnounce(w)
  BY <1>4 DEF EndAnnounce
<1> QED
  BY <1>1, <1>2, <1>3, <1>4 DEF WorkerStep

(* A player whose client goes is always found out: for everyone in the     *)
(* table a receive is posted or a thread is at work, save for those whose  *)
(* first receive failed, until freed memory ends the process.              *)
THEOREM AlwaysReachable == Spec => []Reachable
<1>1. Init => ReachInv
  BY DEF Init, ReachInv
<1>2. TypeOK /\ ThreadInv /\ ReachInv /\ [Next]_vars => ReachInv'
  <2>1. UNCHANGED vars /\ ReachInv => ReachInv'
    BY DEF vars, socketVars, playerVars, threadVars, historyVars, ReachInv,
         Ended, Watched
  <2>2. ASSUME NEW t \in Thread, Fault(t)
        PROVE  ReachInv'
    BY <2>2 DEF Fault, ReachInv, Ended, Thread
  <2> QED
    BY <2>1, <2>2, JoinReach, TakeReach, WorkerReach DEF Next
<1>3. TypeOK /\ ReadsInv /\ ReachInv => Reachable
  <2> SUFFICES ASSUME TypeOK, ReadsInv, ReachInv, ~Ended,
                      NEW c \in playerHash \ orphaned
               PROVE  Reads(c) = 1 \/ At(JoinSteps \cup {"removing"}, c) # {}
    BY DEF Reachable
  <2>1. c \in Conn /\ Watched(c)
    BY DEF TypeOK, ReachInv
  <2>2. CASE Reading(c)
    <3>1. Reads(c) \in {0, 1} /\ Reads(c) > 0
      BY <2>1, <2>2, ReadsCount
    <3> QED
      BY <3>1
  <2>3. CASE ~Reading(c)
    BY <2>1, <2>3 DEF Watched, Watching, Reading, At
  <2> QED
    BY <2>2, <2>3
<1> QED
  BY <1>1, <1>2, <1>3, TypesCorrect, ReadsInvariant, PTL DEF Spec

---------------------------------------------------------------------------
(* The life of a connection.                                               *)

(* Each player has the number of its connection, and so it is in the table *)
(* until it is removed: until a number is given that somebody has.         *)
NumberInv ==
  ~clashed => /\ \A c \in 1 .. accepted : actorNumber[c] = c
              /\ \A c \in Conn : Watched(c) => c \in playerHash

(* One thread at most joins, handles or removes a connection, and none of  *)
(* them while its READ is posted.                                          *)
LifeInv ==
  /\ \A t, u \in Thread :
       step[t] \in Watching /\ step[u] \in Watching /\ conn[t] = conn[u] => t = u
  /\ \A c \in Conn : reads[c] > 0 =>
       \A t \in Thread : step[t] \in Watching => conn[t] # c
  /\ \A c \in Conn : Watched(c) => c \in (1 .. accepted) \ orphaned
  /\ orphaned \cup playerHash \subseteq 1 .. accepted
  /\ NumberInv

(* A join watches over a player before anyone can listen, and to its end.  *)
LEMMA JoinLife ==
  ASSUME TypeOK, ThreadInv, ReadsInv, LifeInv, Accept \/ JoinStep
  PROVE  LifeInv'
<1> USE Constants DEF TypeOK, ThreadInv, LifeInv, Watched, Watching, Thread,
                      JoinSteps, ReadSteps, Idle, Goto, socketVars, playerVars,
                      historyVars
<1>1. CASE Accept
  <2>0. PICK n \in {accepted + 1} \cup {actorNumber[d] : d \in Staying} :
          /\ actorNumber' = [actorNumber EXCEPT ![accepted + 1] = n]
          /\ playerHash' = playerHash \cup {p \in {accepted + 1} : Lookup(n) = {}}
          /\ clashed' = (clashed \/ n # accepted + 1)
    BY <1>1 DEF Accept, CreatePlayer
  <2>1. PICK c \in Conn :
          /\ c = accepted + 1 /\ accepted' = c
          /\ step' = [step EXCEPT ![Accepter] = "informing"]
          /\ conn' = [conn EXCEPT ![Accepter] = c]
          /\ step[Accepter] = "accepting"
          /\ UNCHANGED <<reads, orphaned>>
    <3>1. accepted + 1 \in Conn
      BY <1>1 DEF Accept, Conn
    <3> QED
      BY <1>1, <3>1 DEF Accept
  <2>2. /\ orphaned \cup playerHash \subseteq 1 .. accepted
        /\ 1 .. accepted' = 1 .. accepted \cup {c} /\ c \notin 1 .. accepted
    BY <2>1
  <2>3. ~Watched(c)
    BY <2>1, <2>2
  <2>4. /\ \A t, u \in Thread :
             step'[t] \in Watching /\ step'[u] \in Watching /\ conn'[t] = conn'[u]
               => t = u
        /\ \A d \in Conn : reads'[d] > 0 =>
             \A t \in Thread : step'[t] \in Watching => conn'[t] # d
    <3>1. \A t \in Thread \ {Accepter} : step'[t] = step[t] /\ conn'[t] = conn[t]
      BY <2>1
    <3>2. conn'[Accepter] = c /\ Accepter \in Thread
      BY <2>1
    <3>3. ~(reads[c] > 0) /\ \A t \in Thread : step[t] \in Watching => conn[t] # c
      BY <2>3
    <3> QED
      BY <2>1, <3>1, <3>2, <3>3
  <2>5. \A d \in Conn \ {c} : Watched(d)' => Watched(d)
    BY <2>1
  <2>6. \A d \in Conn : Watched(d)' => d \in (1 .. accepted') \ orphaned'
    <3>1. \A d \in Conn : Watched(d) => d \in (1 .. accepted) \ orphaned
      OBVIOUS
    <3> HIDE DEF Watched
    <3> QED
      BY <2>1, <2>2, <2>5, <3>1
  <2>7. orphaned' \cup playerHash' \subseteq 1 .. accepted'
    BY <2>0, <2>1, <2>2
  <2>8. NumberInv'
    <3> SUFFICES ASSUME ~clashed'
                 PROVE  /\ \A d \in 1 .. accepted' : actorNumber'[d] = d
                        /\ \A d \in Conn : Watched(d)' => d \in playerHash'
      BY DEF NumberInv
    <3>1. ~clashed /\ n = c
      BY <2>0, <2>1
    <3>2. /\ \A d \in 1 .. accepted : actorNumber[d] = d
          /\ \A d \in Conn : Watched(d) => d \in playerHash
      BY <3>1 DEF NumberInv
    <3>3. \A d \in 1 .. accepted' : actorNumber'[d] = d
      BY <2>0, <2>1, <2>2, <3>1, <3>2
    <3>4. ASSUME NEW p \in Lookup(n) PROVE FALSE
      <4>1. p \in playerHash /\ actorNumber[p] = c
        BY <3>1, <3>4 DEF Lookup
      <4>2. p \in 1 .. accepted
        BY <2>2, <4>1
      <4> QED
        BY <2>2, <3>2, <4>1, <4>2
    <3>5. playerHash' = playerHash \cup {c}
      BY <2>0, <2>1, <3>4
    <3> HIDE DEF Watched
    <3> QED
      BY <2>5, <3>2, <3>3, <3>5
  <2> QED
    BY <2>4, <2>6, <2>7, <2>8
<1>2. CASE SendInfo \/ Connect
  <2>1. /\ step[Accepter] \in JoinSteps
        /\ step' = [step EXCEPT ![Accepter] = step'[Accepter]]
        /\ step'[Accepter] \in JoinSteps
        /\ UNCHANGED <<conn, reads, playerHash, actorNumber, orphaned, clashed,
                       accepted>>
    BY <1>2 DEF SendInfo, Connect
  <2>2. \A t \in Thread : step'[t] \in Watching <=> step[t] \in Watching
    BY <2>1
  <2>3. \A d \in Conn : Watched(d)' <=> Watched(d)
    BY <2>1, <2>2
  <2>4. NumberInv'
    <3> HIDE DEF Watched
    <3> QED
      BY <2>1, <2>3 DEF NumberInv
  <2> QED
    BY <2>1, <2>2, <2>3, <2>4
<1>3. CASE \E r \in Conn : SendNext(Accepter, r)
  BY <1>3 DEF SendNext, NumberInv
<1>4. CASE PostFirstRecv
  <2>1. PICK c \in Conn : c = conn[Accepter]
    BY <1>4 DEF PostFirstRecv
  <2>2. /\ step' = [step EXCEPT ![Accepter] = "accepting"]
        /\ conn' = [conn EXCEPT ![Accepter] = Nobody]
        /\ \/ reads' = [reads EXCEPT ![c] = @ + 1] /\ orphaned' = orphaned
           \/ orphaned' = orphaned \cup {c} /\ reads' = reads
        /\ UNCHANGED <<playerHash, actorNumber, clashed, accepted>>
        /\ step[Accepter] = "notifying"
    BY <1>4, <2>1 DEF PostFirstRecv
  <2>3. Watched(c) /\ \A t \in Thread \ {Accepter} :
                        step[t] \in Watching => conn[t] # c
    BY <2>1, <2>2
  <2>4. \A d \in Conn \ {c} : Watched(d)' => Watched(d)
    BY <2>1, <2>2
  <2>5. reads[c] = 0
    BY <2>1 DEF ReadsInv, Reading
  <2>6. Watched(c)' => orphaned' = orphaned
    BY <2>1, <2>2, <2>3, <2>5
  <2>7. \A d \in Conn : Watched(d)' => d \in (1 .. accepted') \ orphaned'
    BY <2>2, <2>3, <2>4, <2>6
  <2>8. orphaned' \cup playerHash' \subseteq 1 .. accepted'
    BY <2>2, <2>3
  <2>9. /\ \A t, u \in Thread :
             step'[t] \in Watching /\ step'[u] \in Watching /\ conn'[t] = conn'[u]
               => t = u
        /\ \A d \in Conn : reads'[d] > 0 =>
             \A t \in Thread : step'[t] \in Watching => conn'[t] # d
    BY <2>1, <2>2, <2>3
  <2>10. NumberInv'
    <3> HIDE DEF Watched
    <3> QED
      BY <2>2, <2>3, <2>4 DEF NumberInv
  <2> QED
    BY <2>7, <2>8, <2>9, <2>10
<1> QED
  BY <1>1, <1>2, <1>3, <1>4 DEF JoinStep

(* A READ taken off the port is with one worker instead.                   *)
LEMMA TakeLife ==
  ASSUME TypeOK, ThreadInv, ReadsInv, LifeInv, NEW w \in Worker, NEW c \in Conn,
         TakeData(w, c) \/ TakeNothing(w, c) \/ TakeWrite(w, c)
  PROVE  LifeInv'
<1> USE Constants DEF TypeOK, ThreadInv, LifeInv, Watched, Watching, Thread,
                      JoinSteps, ReadSteps, Idle, socketVars, playerVars,
                      historyVars
<1>1. CASE TakeWrite(w, c)
  BY <1>1 DEF TakeWrite, threadVars, NumberInv
<1>2. ASSUME NEW to \in ReadSteps, TakeRead(w, c, to)
      PROVE  LifeInv'
  <2>1. /\ reads[c] = 1 /\ reads' = [reads EXCEPT ![c] = 0]
        /\ step' = [step EXCEPT ![w] = to] /\ conn' = [conn EXCEPT ![w] = c]
        /\ step[w] = "waiting" /\ conn[w] = Nobody
        /\ UNCHANGED <<accepted, playerHash, actorNumber, orphaned, clashed>>
    <3>1. reads[c] = 1
      BY <1>2 DEF TakeRead, ReadsInv
    <3> QED
      BY <1>2, <3>1 DEF TakeRead
  <2>2. \A d \in Conn : Watched(d)' => Watched(d)
    BY <2>1
  <2>3. /\ \A t, u \in Thread :
             step'[t] \in Watching /\ step'[u] \in Watching /\ conn'[t] = conn'[u]
               => t = u
        /\ \A d \in Conn : reads'[d] > 0 =>
             \A t \in Thread : step'[t] \in Watching => conn'[t] # d
    BY <2>1
  <2>4. NumberInv'
    <3> HIDE DEF Watched
    <3> QED
      BY <2>1, <2>2 DEF NumberInv
  <2> QED
    BY <2>1, <2>2, <2>3, <2>4
<1> QED
  BY <1>1, <1>2 DEF TakeData, TakeNothing

(* A worker stops watching when it posts the READ or removes the player.   *)
LEMMA WorkerLife ==
  ASSUME TypeOK, ThreadInv, ReadsInv, LifeInv, NEW w \in Worker, WorkerStep(w)
  PROVE  LifeInv'
<1> USE Constants DEF TypeOK, ThreadInv, LifeInv, Watched, Watching, Thread,
                      JoinSteps, ReadSteps, Idle, Goto, socketVars, playerVars,
                      historyVars
<1>1. CASE \E r \in Conn : SendNext(w, r)
  BY <1>1 DEF SendNext, NumberInv
<1>2. CASE PostRecvFails(w) \/ FreeHandle(w)
  <2>1. /\ step[w] \in ReadSteps /\ step' = [step EXCEPT ![w] = step'[w]]
        /\ step'[w] \in Watching
        /\ UNCHANGED <<conn, reads, playerHash, actorNumber, orphaned, clashed,
                       accepted>>
    BY <1>2 DEF PostRecvFails, FreeHandle
  <2>2. \A d \in Conn : Watched(d)' => Watched(d)
    BY <2>1
  <2>3. NumberInv'
    <3> HIDE DEF Watched
    <3> QED
      BY <2>1, <2>2 DEF NumberInv
  <2> QED
    BY <2>1, <2>2, <2>3
<1>3. CASE PostRecv(w)
  <2>1. PICK c \in Conn : c = conn[w]
    BY <1>3 DEF PostRecv
  <2>2. /\ step' = [step EXCEPT ![w] = "waiting"]
        /\ conn' = [conn EXCEPT ![w] = Nobody]
        /\ reads' = [reads EXCEPT ![c] = @ + 1] /\ step[w] = "relaying"
        /\ UNCHANGED <<playerHash, actorNumber, orphaned, clashed, accepted>>
    BY <1>3, <2>1 DEF PostRecv
  <2>3. \A d \in Conn : Watched(d)' => Watched(d)
    BY <2>1, <2>2
  <2>4. NumberInv'
    <3> HIDE DEF Watched
    <3> QED
      BY <2>2, <2>3 DEF NumberInv
  <2> QED
    BY <2>1, <2>2, <2>3, <2>4
<1>4. CASE RemovePlayer(w)
  <2>1. PICK c \in Conn : c = conn[w]
    BY <1>4 DEF RemovePlayer
  <2>2. /\ step' = [step EXCEPT ![w] = "announcing"]
        /\ playerHash' = playerHash \ Lookup(actorNumber[c])
        /\ step[w] = "removing"
        /\ UNCHANGED <<conn, reads, actorNumber, orphaned, clashed, accepted>>
    BY <1>4, <2>1 DEF RemovePlayer
  <2>3. Watched(c) /\ ~Watched(c)'
    BY <2>1, <2>2 DEF ReadsInv
  <2>4. \A d \in Conn : Watched(d)' => Watched(d) /\ d # c
    BY <2>2, <2>3
  <2>5. NumberInv'
    <3> SUFFICES ASSUME ~clashed PROVE NumberInv'
      BY <2>2 DEF NumberInv
    <3>1. /\ \A d \in 1 .. accepted : actorNumber[d] = d
          /\ \A d \in Conn : Watched(d) => d \in playerHash
      BY DEF NumberInv
    <3>2. c \in 1 .. accepted /\ playerHash \subseteq 1 .. accepted
      BY <2>3
    <3>3. Lookup(actorNumber[c]) \subseteq {c}
      BY <3>1, <3>2 DEF Lookup
    <3> HIDE DEF Watched
    <3> QED
      BY <2>2, <2>4, <3>1, <3>3 DEF NumberInv
  <2>6. playerHash' \subseteq playerHash
    BY <2>2
  <2> QED
    BY <2>2, <2>3, <2>4, <2>5, <2>6
<1>5. CASE EndAnnounce(w)
  BY <1>5 DEF EndAnnounce, NumberInv
<1> QED
  BY <1>1, <1>2, <1>3, <1>4, <1>5 DEF WorkerStep

(* The invariant of a connection's life: one thread at most joins, handles *)
(* or removes it, and none while its receive is posted.                    *)
THEOREM LifeInvariant == Spec => []LifeInv
<1>1. Init => LifeInv
  BY Constants DEF Init, LifeInv, Watched, Watching, ReadSteps, JoinSteps, Thread,
       NumberInv
<1>2. TypeOK /\ ThreadInv /\ ReadsInv /\ LifeInv /\ [Next]_vars => LifeInv'
  <2>1. UNCHANGED vars /\ LifeInv => LifeInv'
    BY DEF vars, socketVars, playerVars, threadVars, historyVars, LifeInv,
         Watched, NumberInv
  <2>2. ASSUME LifeInv, NEW t \in Thread, Fault(t)
        PROVE  LifeInv'
    BY <2>2 DEF Fault, LifeInv, Watched, Watching, ReadSteps, JoinSteps,
         socketVars, playerVars, historyVars, NumberInv
  <2> QED
    BY <2>1, <2>2, JoinLife, TakeLife, WorkerLife DEF Next
<1> QED
  BY <1>1, <1>2, TypesCorrect, ReadsInvariant, PTL DEF Spec

---------------------------------------------------------------------------
(* Completion implements Sessions.                                         *)

(* Stage, by the sets of threads at the connection.                        *)
ByAt(c) ==
  IF Ended THEN "over"
  ELSE IF accepted < c THEN "absent"
  ELSE IF reads[c] > 0 THEN "listening"
  ELSE IF At(JoinSteps, c) # {} THEN "joining"
  ELSE IF At({"relaying"}, c) # {} THEN "serving"
  ELSE IF At({"freeing"}, c) # {} THEN "freeing"
  ELSE IF At({"removing"}, c) # {} THEN "removing"
  ELSE IF c \in orphaned THEN "deaf" ELSE "gone"

(* Both say the same.                                                      *)
LEMMA StageByAt == \A c \in Conn : Stage(c) = ByAt(c)
<1> SUFFICES ASSUME NEW c \in Conn PROVE Stage(c) = ByAt(c)
  OBVIOUS
<1> DEFINE at == {step[t] : t \in {u \in Thread : conn[u] = c}}
<1>1. /\ at \cap JoinSteps # {} <=> At(JoinSteps, c) # {}
      /\ "relaying" \in at <=> At({"relaying"}, c) # {}
      /\ "freeing" \in at <=> At({"freeing"}, c) # {}
      /\ "removing" \in at <=> At({"removing"}, c) # {}
  BY DEF At
<1>2. Stage(c) =
        IF Ended THEN "over"
        ELSE IF accepted < c THEN "absent"
        ELSE IF reads[c] > 0 THEN "listening"
        ELSE IF at \cap JoinSteps # {} THEN "joining"
        ELSE IF "relaying" \in at THEN "serving"
        ELSE IF "freeing" \in at THEN "freeing"
        ELSE IF "removing" \in at THEN "removing"
        ELSE IF c \in orphaned THEN "deaf" ELSE "gone"
  BY DEF Stage
<1> HIDE DEF at, At
<1> QED
  BY <1>1, <1>2 DEF ByAt

(* The same after a step.                                                  *)
LEMMA StageByAtNext == (\A c \in Conn : Stage(c) = ByAt(c))'
  BY StageByAt, PTL

(* Whoever is at a connection tells how far it is, ...                     *)
LEMMA StageAt ==
  TypeOK /\ ThreadInv /\ LifeInv => \A t \in Thread, c \in Conn :
    conn[t] = c /\ step[t] \in Watching =>
      /\ step[t] \in JoinSteps => Stage(c) = "joining"
      /\ step[t] = "relaying" => Stage(c) = "serving"
      /\ step[t] = "freeing" => Stage(c) = "freeing"
      /\ step[t] = "removing" => Stage(c) = "removing"
<1> SUFFICES ASSUME TypeOK, ThreadInv, LifeInv, NEW t \in Thread, NEW c \in Conn,
                    conn[t] = c, step[t] \in Watching
             PROVE  /\ step[t] \in JoinSteps => Stage(c) = "joining"
                    /\ step[t] = "relaying" => Stage(c) = "serving"
                    /\ step[t] = "freeing" => Stage(c) = "freeing"
                    /\ step[t] = "removing" => Stage(c) = "removing"
  OBVIOUS
<1>1. ~(accepted < c) /\ ~(reads[c] > 0) /\ ~Ended
  <2>3. ~Ended
    BY DEF ThreadInv, Watching, ReadSteps, JoinSteps
  <2>1. c \in 1 .. accepted /\ accepted \in Nat
    BY DEF TypeOK, LifeInv, Watched
  <2>2. reads[c] \in Nat /\ ~(reads[c] > 0)
    BY DEF TypeOK, LifeInv
  <2> QED
    BY <2>1, <2>2, <2>3
<1>2. \A S \in SUBSET Watching : At(S, c) # {} <=> step[t] \in S
  BY DEF LifeInv, At
<1>3. /\ At(JoinSteps, c) # {} <=> step[t] \in JoinSteps
      /\ At({"relaying"}, c) # {} <=> step[t] = "relaying"
      /\ At({"freeing"}, c) # {} <=> step[t] = "freeing"
      /\ At({"removing"}, c) # {} <=> step[t] = "removing"
  BY <1>2 DEF Watching, ReadSteps
<1> HIDE DEF At
<1>4. CASE step[t] \in JoinSteps
  BY <1>1, <1>3, <1>4, StageByAt, StageByAtNext DEF ByAt, JoinSteps
<1>5. CASE step[t] = "relaying"
  BY <1>1, <1>3, <1>5, StageByAt, StageByAtNext DEF ByAt, JoinSteps
<1>6. CASE step[t] = "freeing"
  BY <1>1, <1>3, <1>6, StageByAt, StageByAtNext DEF ByAt, JoinSteps
<1>7. CASE step[t] = "removing"
  BY <1>1, <1>3, <1>7, StageByAt, StageByAtNext DEF ByAt, JoinSteps
<1> QED
  BY <1>4, <1>5, <1>6, <1>7

(* The same after a step.                                                  *)
LEMMA StageAtNext ==
  (TypeOK /\ ThreadInv /\ LifeInv => \A t \in Thread, c \in Conn :
     conn[t] = c /\ step[t] \in Watching =>
       /\ step[t] \in JoinSteps => Stage(c) = "joining"
       /\ step[t] = "relaying" => Stage(c) = "serving"
       /\ step[t] = "freeing" => Stage(c) = "freeing"
       /\ step[t] = "removing" => Stage(c) = "removing")'
  BY StageAt, PTL

(* ... and so does its READ while it is posted and the process runs.       *)
LEMMA StagePosted ==
  TypeOK /\ LifeInv /\ ~Ended =>
    \A c \in Conn : reads[c] > 0 => Stage(c) = "listening"
<1> SUFFICES ASSUME TypeOK, LifeInv, ~Ended, NEW c \in Conn, reads[c] > 0
             PROVE  Stage(c) = "listening"
  OBVIOUS
<1>1. c \in 1 .. accepted /\ accepted \in Nat
  BY DEF TypeOK, LifeInv, Watched
<1>2. ~(accepted < c)
  BY <1>1
<1> QED
  BY <1>2, StageByAt, StageByAtNext DEF ByAt

(* The same after a step.                                                  *)
LEMMA StagePostedNext ==
  (TypeOK /\ LifeInv /\ ~Ended =>
     \A c \in Conn : reads[c] > 0 => Stage(c) = "listening")'
  BY StagePosted, PTL

(* The steps that Stage tells apart.                                       *)
Groups == {JoinSteps, {"relaying"}, {"freeing"}, {"removing"}}

(* A connection stays as it is if no thread comes to it or goes, ...       *)
LEMMA Unmoved ==
  ASSUME NEW d \in Conn, Ended' <=> Ended,
         reads'[d] = reads[d], accepted' < d <=> accepted < d,
         d \in orphaned' <=> d \in orphaned,
         \A S \in Groups : At(S, d)' = At(S, d)
  PROVE  Stage(d)' = Stage(d)
<1>1. /\ At(JoinSteps, d)' = At(JoinSteps, d)
      /\ At({"relaying"}, d)' = At({"relaying"}, d)
      /\ At({"freeing"}, d)' = At({"freeing"}, d)
      /\ At({"removing"}, d)' = At({"removing"}, d)
  BY DEF Groups
<1> HIDE DEF At
<1> QED
  BY <1>1, StageByAt, StageByAtNext DEF ByAt

(* ... which is so if the thread that moves is at another.                 *)
LEMMA OthersAt ==
  ASSUME NEW t \in Thread, NEW c, NEW d \in Conn \ {c}, NEW S \in Groups,
         \A u \in Thread \ {t} : step'[u] = step[u] /\ conn'[u] = conn[u],
         conn[t] = c \/ step[t] \notin Watching,
         conn'[t] = c \/ step'[t] \notin Watching
  PROVE  At(S, d)' = At(S, d)
  BY DEF At, Groups, Watching, ReadSteps

(* When a thread moves only its connection does.                           *)
LEMMA OthersStay ==
  ASSUME NEW t \in Thread, NEW c, Ended' <=> Ended,
         \A u \in Thread \ {t} : step'[u] = step[u] /\ conn'[u] = conn[u],
         conn[t] = c \/ step[t] \notin Watching,
         conn'[t] = c \/ step'[t] \notin Watching,
         \A d \in Conn \ {c} :
           /\ reads'[d] = reads[d] /\ (accepted' < d <=> accepted < d)
           /\ d \in orphaned' <=> d \in orphaned
  PROVE  \A d \in Conn \ {c} : Stage(d)' = Stage(d)
<1> SUFFICES ASSUME NEW d \in Conn \ {c}
             PROVE  Stage(d)' = Stage(d)
  OBVIOUS
<1>1. \A S \in Groups : At(S, d)' = At(S, d)
  BY OthersAt
<1> HIDE DEF At
<1> QED
  BY <1>1, Unmoved

(* What it takes to be a move of Sessions.                                 *)
LEMMA Moved ==
  ASSUME NEW c \in Conn, NEW from, NEW to, Stage(c) \in from, Stage(c)' = to,
         \A d \in Conn \ {c} : Stage(d)' = Stage(d)
  PROVE  Lives!Move(c, from, to)
<1> DEFINE f == [d \in Conn |-> Stage(d)]
<1>1. f[c] \in from
  OBVIOUS
<1>2. f' = [f EXCEPT ![c] = to]
  <2>1. f' = [d \in Conn |-> Stage(d)']
    OBVIOUS
  <2> QED
    BY <2>1
<1> QED
  BY <1>1, <1>2 DEF Lives!Move

(* Each action of Sessions but Crash takes its connection on.              *)
LEMMA MovesOn ==
  ASSUME NEW c \in Conn,
         \/ Lives!Join(c) \/ Lives!Listen(c) \/ Lives!Deafen(c) \/ Lives!Serve(c)
         \/ Lives!GiveUp(c) \/ Lives!Free(c) \/ Lives!Remove(c)
  PROVE  Lives!Next
<1> DEFINE f == [d \in Conn |-> Stage(d)]
<1>1. ASSUME NEW from, NEW to, Lives!Move(c, from, to), to \notin from
      PROVE  f'[c] # f[c]
  <2>1. f[c] \in from /\ f' = [f EXCEPT ![c] = to]
    BY <1>1 DEF Lives!Move
  <2>2. [f EXCEPT ![c] = to][c] = to
    OBVIOUS
  <2> HIDE DEF f
  <2> QED
    BY <1>1, <2>1, <2>2
<1>2. f'[c] # f[c]
  <2>1. \/ Lives!Move(c, {"absent"}, "joining")
        \/ Lives!Move(c, {"joining", "serving"}, "listening")
        \/ Lives!Move(c, {"joining"}, "deaf")
        \/ Lives!Move(c, {"listening"}, "serving")
        \/ Lives!Move(c, {"listening", "serving"}, "freeing")
        \/ Lives!Move(c, {"freeing"}, "removing")
        \/ Lives!Move(c, {"removing"}, "gone")
    BY ZenonT(30) DEF Lives!Join, Lives!Listen, Lives!Deafen, Lives!Serve,
         Lives!GiveUp, Lives!Free, Lives!Remove
  <2> HIDE DEF f
  <2> QED
    BY <1>1, <2>1
<1> QED
  BY <1>2 DEF Lives!Next

(* Nobody's data are touched.                                              *)
LEMMA AliveKept ==
  ASSUME UNCHANGED <<accepted, handleInfo, holds>>
  PROVE  Alive' = Alive
  BY DEF Alive

(* A step that moves no connection.                                        *)
LEMMA Stutters ==
  ASSUME UNCHANGED <<accepted, handleInfo, holds, playerHash, reads, orphaned,
                     clashed>>,
         Ended' <=> Ended,
         \A S \in Groups, d \in Conn : At(S, d)' = At(S, d)
  PROVE  UNCHANGED Lives!sessionVars
<1>1. \A d \in Conn : Stage(d)' = Stage(d)
  BY Unmoved
<1>2. [d \in Conn |-> Stage(d)]' = [d \in Conn |-> Stage(d)]
  BY <1>1
<1> QED
  BY <1>2, AliveKept DEF Lives!sessionVars

(* Accept joins a connection, whose data may be where another's were.      *)
LEMMA AcceptJoins ==
  ASSUME TypeOK, ThreadInv, ReadsInv, LifeInv, (TypeOK /\ ThreadInv /\ LifeInv)', Accept
  PROVE  \E c \in Conn : Lives!Join(c)
<1>1. PICK c \in Conn :
        /\ c = accepted + 1 /\ accepted' = c
        /\ step' = [step EXCEPT ![Accepter] = "informing"]
        /\ conn' = [conn EXCEPT ![Accepter] = c]
        /\ step[Accepter] = "accepting"
        /\ UNCHANGED <<reads, orphaned>>
  <2>1. accepted + 1 \in Conn
    BY DEF Accept, TypeOK, Conn
  <2> QED
    BY <2>1 DEF Accept
<1>0. ~Ended /\ ~Ended'
  BY <1>1 DEF Ended, TypeOK, Thread
<1>10. \/ playerHash' = playerHash \cup {c} /\ clashed' \in {clashed, TRUE}
       \/ playerHash' = playerHash /\ clashed' = TRUE
  <2>1. PICK n \in {c} \cup {actorNumber[d] : d \in Staying} :
          /\ playerHash' = playerHash \cup {p \in {c} : Lookup(n) = {}}
          /\ clashed' <=> clashed \/ n # c
    BY <1>1 DEF Accept, CreatePlayer
  <2>2. clashed \in BOOLEAN /\ clashed' \in BOOLEAN
    BY DEF TypeOK
  <2>3. CASE Lookup(n) = {}
    <3>1. playerHash' = playerHash \cup {c}
      BY <2>1, <2>3
    <3>2. clashed' = TRUE \/ clashed' = clashed
      <4>1. CASE clashed \/ n # c
        BY <2>1, <4>1
      <4>2. CASE ~(clashed \/ n # c)
        <5>1. clashed = FALSE /\ clashed' = FALSE
          BY <2>1, <2>2, <4>2
        <5> QED
          BY <5>1
      <4> QED
        BY <4>1, <4>2
    <3>3. clashed' \in {clashed, TRUE}
      BY <3>2
    <3> QED
      BY <3>1, <3>3
  <2>4. CASE Lookup(n) # {}
    <3>1. clashed' = TRUE
      <4>1. CASE n # c
        BY <2>1, <4>1
      <4>2. CASE n = c /\ clashed
        BY <2>1, <4>2
      <4>3. CASE n = c /\ ~clashed
        <5>1. PICK p \in playerHash : actorNumber[p] = c
          BY <2>4, <4>3 DEF Lookup
        <5>2. p \in 1 .. accepted /\ actorNumber[p] = p
          BY <4>3, <5>1 DEF LifeInv, NumberInv
        <5> QED
          BY <1>1, <5>1, <5>2 DEF TypeOK
      <4> QED
        BY <4>1, <4>2, <4>3
    <3> QED
      BY <2>1, <2>4, <3>1
  <2> QED
    BY <2>3, <2>4
<1>2. PICK b \in {c} \cup {handleInfo[d] : d \in 1 .. accepted} :
        /\ holds[b] = Nobody
        /\ handleInfo' = [handleInfo EXCEPT ![c] = b]
        /\ holds' = [holds EXCEPT ![b] = c]
  BY <1>1 DEF Accept
<1>3. accepted \in Nat /\ c \in Nat /\ \A d \in Conn : d \in Nat
  BY DEF TypeOK, Conn
<1>4. Stage(c) = "absent"
  BY <1>0, <1>1, <1>3, StageByAt, StageByAtNext DEF ByAt
<1>5. Stage(c)' = "joining"
  <2>1. conn'[Accepter] = c /\ step'[Accepter] \in JoinSteps
    BY <1>1, Constants DEF TypeOK, Thread, JoinSteps
  <2>2. Accepter \in Thread /\ step'[Accepter] \in Watching
    BY <2>1 DEF Thread, Watching
  <2> QED
    BY <2>1, <2>2, StageAtNext
<1>6. \A d \in Conn \ {c} : Stage(d)' = Stage(d)
  <2>1. \A d \in Conn \ {c} : accepted' < d <=> accepted < d
    BY <1>1, <1>3
  <2>2. /\ \A u \in Thread \ {Accepter} : step'[u] = step[u] /\ conn'[u] = conn[u]
        /\ step[Accepter] \notin Watching /\ conn'[Accepter] = c
        /\ Accepter \in Thread
    BY <1>1 DEF TypeOK, Thread, Watching, ReadSteps, JoinSteps
  <2> QED
    BY <1>0, <1>1, <2>1, <2>2, OthersStay
<1>7. \A d \in Conn : Stage(d) # "joining"
  <2>1. \A t \in Thread : step[t] \notin JoinSteps
    BY <1>1 DEF ThreadInv, Thread, JoinSteps
  <2>2. \A d \in Conn : At(JoinSteps, d) = {}
    BY <2>1 DEF At
  <2> HIDE DEF At
  <2> QED
    BY <1>0, <2>2, StageByAt, StageByAtNext DEF ByAt
<1>8. Alive' = Alive \cup {c}
  <2>1. c \in 1 .. accepted' /\ 1 .. accepted' = 1 .. accepted \cup {c}
    BY <1>1, <1>3
  <2>2. b \in Block /\ c \notin 1 .. accepted /\ handleInfo'[c] = b /\ holds'[b] = c
    BY <1>1, <1>2, <1>3 DEF TypeOK, ReadsInv, Block
  <2>3. ASSUME NEW d \in 1 .. accepted
        PROVE  holds'[handleInfo'[d]] = d <=> holds[handleInfo[d]] = d
    <3>1. d # c /\ d # Nobody /\ handleInfo'[d] = handleInfo[d] /\ handleInfo[d] \in Block
      BY <1>2, <2>2 DEF ReadsInv, TypeOK, Nobody
    <3> QED
      BY <1>2, <2>2, <3>1 DEF TypeOK
  <2> QED
    BY <2>1, <2>2, <2>3 DEF Alive
<1>9. Lives!Move(c, {"absent"}, "joining")
  BY <1>4, <1>5, <1>6, Moved
<1> QED
  BY <1>7, <1>8, <1>9, <1>10 DEF Lives!Join

(* The steps of a join up to its end leave everyone where he is.           *)
LEMMA JoinGoesOn ==
  ASSUME TypeOK, ThreadInv, SendInfo \/ Connect \/ \E r \in Conn : SendNext(Accepter, r)
  PROVE  UNCHANGED Lives!sessionVars
<1>1. /\ UNCHANGED <<accepted, handleInfo, holds, playerHash, reads, orphaned,
                     clashed, conn>>
      /\ \/ step' = step
         \/ /\ step' = [step EXCEPT ![Accepter] = step'[Accepter]]
            /\ step[Accepter] \in JoinSteps /\ step'[Accepter] \in JoinSteps
  BY DEF SendInfo, Connect, SendNext, Goto, TypeOK, Idle, JoinSteps, socketVars, playerVars,
         historyVars, Thread
<1>2. ASSUME NEW S \in Groups, NEW d \in Conn
      PROVE  At(S, d)' = At(S, d)
  <2>1. \A t \in Thread : step'[t] \in S <=> step[t] \in S
    BY <1>1 DEF Groups, JoinSteps, TypeOK
  <2> QED
    BY <1>1, <2>1 DEF At
<1>3. Ended' <=> Ended
  BY <1>1 DEF Ended, JoinSteps, TypeOK, Thread
<1> HIDE DEF At
<1> QED
  BY <1>1, <1>2, <1>3, Stutters

(* The last one does not: the connection is listened to, or never.         *)
LEMMA JoinEnds ==
  ASSUME TypeOK, ThreadInv, ReadsInv, LifeInv, (TypeOK /\ ThreadInv /\ LifeInv)', PostFirstRecv
  PROVE  \E c \in Conn : Lives!Listen(c) \/ Lives!Deafen(c)
<1>1. PICK c \in Conn : c = conn[Accepter]
  BY DEF PostFirstRecv, TypeOK, ThreadInv, Goto, Thread, Idle, JoinSteps, Nobody
<1>2. /\ step' = [step EXCEPT ![Accepter] = "accepting"]
      /\ conn' = [conn EXCEPT ![Accepter] = Nobody]
      /\ \/ reads' = [reads EXCEPT ![c] = @ + 1] /\ orphaned' = orphaned
         \/ orphaned' = orphaned \cup {c} /\ reads' = reads
      /\ UNCHANGED <<playerHash, clashed, accepted, handleInfo, holds>>
      /\ step[Accepter] = "notifying"
  BY <1>1 DEF PostFirstRecv, Goto, Idle, socketVars, playerVars
<1>3. /\ step[Accepter] \in JoinSteps /\ step[Accepter] \in Watching
      /\ step'[Accepter] \notin Watching /\ Accepter \in Thread
  BY <1>2 DEF TypeOK, Thread, Watching, JoinSteps, ReadSteps
<1>0. ~Ended /\ ~Ended'
  BY <1>2 DEF Ended, TypeOK, Thread
<1>4. Stage(c) = "joining"
  BY <1>1, <1>3, StageAt
<1>5. \A d \in Conn \ {c} : Stage(d)' = Stage(d)
  <2>1. \A u \in Thread \ {Accepter} : step'[u] = step[u] /\ conn'[u] = conn[u]
    BY <1>2 DEF TypeOK
  <2>2. \A d \in Conn \ {c} : /\ reads'[d] = reads[d]
                              /\ d \in orphaned' <=> d \in orphaned
    BY <1>2 DEF TypeOK
  <2> QED
    BY <1>0, <1>1, <1>2, <1>3, <2>1, <2>2, OthersStay
<1>6. Alive' = Alive
  BY <1>2, AliveKept
<1>7. CASE reads' = [reads EXCEPT ![c] = @ + 1]
  <2>1. reads'[c] > 0
    BY <1>7 DEF TypeOK
  <2>2. Stage(c)' = "listening"
    BY <1>0, <2>1, StagePostedNext
  <2>3. Lives!Move(c, {"joining", "serving"}, "listening")
    BY <1>4, <1>5, <2>2, Moved
  <2> QED
    BY <1>2, <1>6, <2>3 DEF Lives!Listen
<1>8. CASE orphaned' = orphaned \cup {c} /\ reads' = reads
  <2>1. reads'[c] = 0
    <3>1. reads[c] = 0
      BY <1>1 DEF ReadsInv, Reading
    <3> QED
      BY <1>8, <3>1
  <2>2. ~(accepted' < c)
    <3>1. c \in 1 .. accepted /\ accepted \in Nat
      BY <1>1, <1>3 DEF LifeInv, Watched, TypeOK
    <3> QED
      BY <1>2, <3>1
  <2>3. \A S \in Groups : At(S, c)' = {}
    <3>1. \A t \in Thread : step'[t] \in Watching => conn'[t] # c
      BY <1>8 DEF LifeInv, Watched
    <3> QED
      BY <3>1 DEF At, Groups, Watching, ReadSteps
  <2>4. /\ At(JoinSteps, c)' = {} /\ At({"relaying"}, c)' = {}
        /\ At({"freeing"}, c)' = {} /\ At({"removing"}, c)' = {}
    BY <2>3 DEF Groups
  <2> HIDE DEF At
  <2>5. Stage(c)' = "deaf"
    BY <1>0, <1>8, <2>1, <2>2, <2>4, StageByAt, StageByAtNext DEF ByAt
  <2>6. Lives!Move(c, {"joining"}, "deaf")
    BY <1>4, <1>5, <2>5, Moved
  <2> QED
    BY <1>2, <1>6, <2>6 DEF Lives!Deafen
<1> QED
  BY <1>2, <1>7, <1>8

(* Taking the READ off the port begins a connection's service, or its end. *)
LEMMA TakeImplements ==
  ASSUME TypeOK, ThreadInv, ReadsInv, LifeInv, (TypeOK /\ ThreadInv /\ LifeInv)',
         NEW w \in Worker, NEW c \in Conn, TakeData(w, c) \/ TakeNothing(w, c)
  PROVE  Lives!Serve(c) \/ Lives!GiveUp(c)
<1>1. PICK to \in {"relaying", "freeing"} : TakeRead(w, c, to)
  BY DEF TakeData, TakeNothing
<1>2. /\ reads[c] > 0 /\ reads' = [reads EXCEPT ![c] = @ - 1]
      /\ step' = [step EXCEPT ![w] = to] /\ conn' = [conn EXCEPT ![w] = c]
      /\ step[w] = "waiting" /\ w \in Thread
      /\ UNCHANGED <<accepted, handleInfo, holds, playerHash, orphaned, clashed>>
  BY <1>1 DEF TakeRead, socketVars, playerVars,
         historyVars, Thread
<1>0. ~Ended /\ ~Ended'
  BY <1>2, Constants DEF Ended, ThreadInv, TypeOK, Thread
<1>3. Stage(c) = "listening"
  BY <1>0, <1>2, StagePosted
<1>4. /\ conn'[w] = c /\ step'[w] = to /\ step'[w] \in Watching
      /\ step[w] \notin Watching
  BY <1>2 DEF TypeOK, Watching, ReadSteps, JoinSteps
<1>5. /\ to = "relaying" => Stage(c)' = "serving"
      /\ to = "freeing" => Stage(c)' = "freeing"
  BY <1>2, <1>4, StageAtNext
<1>6. \A d \in Conn \ {c} : Stage(d)' = Stage(d)
  <2>1. \A u \in Thread \ {w} : step'[u] = step[u] /\ conn'[u] = conn[u]
    BY <1>2 DEF TypeOK
  <2>2. \A d \in Conn \ {c} : reads'[d] = reads[d]
    BY <1>2 DEF TypeOK
  <2> QED
    BY <1>0, <1>2, <1>4, <2>1, <2>2, OthersStay
<1>7. Alive' = Alive
  BY <1>2, AliveKept
<1>8. CASE to = "relaying"
  <2>1. Lives!Move(c, {"listening"}, "serving")
    BY <1>3, <1>5, <1>6, <1>8, Moved
  <2> QED
    BY <1>2, <1>7, <2>1 DEF Lives!Serve
<1>9. CASE to = "freeing"
  <2>1. Lives!Move(c, {"listening", "serving"}, "freeing")
    BY <1>3, <1>5, <1>6, <1>9, Moved
  <2> QED
    BY <1>2, <1>7, <2>1 DEF Lives!GiveUp
<1> QED
  BY <1>8, <1>9

(* A worker hands the READ back to the port, ...                           *)
LEMMA PostImplements ==
  ASSUME TypeOK, ThreadInv, LifeInv, (TypeOK /\ ThreadInv /\ LifeInv)', NEW w \in Worker, PostRecv(w)
  PROVE  \E c \in Conn : Lives!Listen(c)
<1>1. PICK c \in Conn : c = conn[w]
  BY DEF PostRecv, TypeOK
<1>2. /\ reads' = [reads EXCEPT ![c] = @ + 1]
      /\ step[w] = "relaying" /\ step' = [step EXCEPT ![w] = "waiting"]
      /\ conn' = [conn EXCEPT ![w] = Nobody] /\ w \in Thread
      /\ UNCHANGED <<accepted, handleInfo, holds, playerHash, orphaned, clashed>>
  BY <1>1 DEF PostRecv, Goto, Idle, socketVars, playerVars,
         historyVars, Thread
<1>0. ~Ended /\ ~Ended'
  BY <1>2, Constants DEF Ended, ThreadInv, TypeOK, Thread
<1>3. step[w] \in Watching /\ step'[w] \notin Watching
  BY <1>2 DEF TypeOK, Watching, ReadSteps, JoinSteps
<1>4. Stage(c) = "serving"
  BY <1>1, <1>2, <1>3, StageAt
<1>5. Stage(c)' = "listening"
  <2>1. reads'[c] > 0
    BY <1>2 DEF TypeOK
  <2> QED
    BY <1>0, <2>1, StagePostedNext
<1>6. \A d \in Conn \ {c} : Stage(d)' = Stage(d)
  <2>1. \A u \in Thread \ {w} : step'[u] = step[u] /\ conn'[u] = conn[u]
    BY <1>2 DEF TypeOK
  <2>2. \A d \in Conn \ {c} : reads'[d] = reads[d]
    BY <1>2 DEF TypeOK
  <2> QED
    BY <1>0, <1>1, <1>2, <1>3, <2>1, <2>2, OthersStay
<1>7. Lives!Move(c, {"joining", "serving"}, "listening")
  BY <1>4, <1>5, <1>6, Moved
<1> QED
  BY <1>2, <1>7, AliveKept DEF Lives!Listen

(* ... or gives the connection up, ...                                     *)
LEMMA GiveUpImplements ==
  ASSUME TypeOK, ThreadInv, LifeInv, (TypeOK /\ ThreadInv /\ LifeInv)',
         NEW w \in Worker, PostRecvFails(w)
  PROVE  \E c \in Conn : Lives!GiveUp(c)
<1>1. /\ step[w] = "relaying" /\ step' = [step EXCEPT ![w] = "freeing"]
      /\ conn' = conn /\ w \in Thread
      /\ UNCHANGED <<accepted, handleInfo, holds, playerHash, reads, orphaned, clashed>>
  BY DEF PostRecvFails, Goto, Idle, socketVars, playerVars,
         historyVars, Thread
<1>0. ~Ended /\ ~Ended'
  BY <1>1, Constants DEF Ended, ThreadInv, TypeOK, Thread
<1>2. /\ step[w] \in Watching
      /\ step'[w] = "freeing" /\ step'[w] \in Watching
  BY <1>1 DEF TypeOK, Watching, ReadSteps, JoinSteps
<1>3. PICK c \in Conn : c = conn[w]
  BY <1>1 DEF TypeOK, ThreadInv, Idle, Nobody
<1>4. Stage(c) = "serving"
  BY <1>1, <1>2, <1>3, StageAt
<1>5. Stage(c)' = "freeing"
  BY <1>1, <1>2, <1>3, StageAtNext
<1>6. \A d \in Conn \ {c} : Stage(d)' = Stage(d)
  <2>1. \A u \in Thread \ {w} : step'[u] = step[u] /\ conn'[u] = conn[u]
    BY <1>1 DEF TypeOK
  <2> QED
    BY <1>0, <1>1, <1>3, <2>1, OthersStay
<1>7. Lives!Move(c, {"listening", "serving"}, "freeing")
  BY <1>4, <1>5, <1>6, Moved
<1> QED
  BY <1>1, <1>7, AliveKept DEF Lives!GiveUp

(* ... frees its data, which are nobody else's, ...                        *)
LEMMA FreeImplements ==
  ASSUME TypeOK, ThreadInv, ReadsInv, LifeInv, (TypeOK /\ ThreadInv /\ LifeInv)',
         NEW w \in Worker, FreeHandle(w)
  PROVE  \E c \in Conn : Lives!Free(c)
<1>1. /\ step[w] = "freeing" /\ step' = [step EXCEPT ![w] = "removing"]
      /\ conn' = conn /\ w \in Thread
      /\ holds' = [holds EXCEPT ![handleInfo[conn[w]]] = Nobody]
      /\ UNCHANGED <<accepted, handleInfo, playerHash, reads, orphaned, clashed>>
  BY DEF FreeHandle, Goto, Idle, playerVars, historyVars, Thread
<1>0. ~Ended /\ ~Ended'
  BY <1>1, Constants DEF Ended, ThreadInv, TypeOK, Thread
<1>2. /\ step[w] \in ReadSteps /\ step[w] \in Watching
      /\ step'[w] = "removing" /\ step'[w] \in Watching
  BY <1>1 DEF TypeOK, Watching, ReadSteps, JoinSteps
<1>3. PICK c \in Conn : c = conn[w]
  BY <1>1 DEF TypeOK, ThreadInv, Idle, Nobody
<1>4. Stage(c) = "freeing"
  BY <1>1, <1>2, <1>3, StageAt
<1>5. Stage(c)' = "removing"
  BY <1>1, <1>2, <1>3, StageAtNext
<1>6. \A d \in Conn \ {c} : Stage(d)' = Stage(d)
  <2>1. \A u \in Thread \ {w} : step'[u] = step[u] /\ conn'[u] = conn[u]
    BY <1>1 DEF TypeOK
  <2> QED
    BY <1>0, <1>1, <1>3, <2>1, OthersStay
<1>7. c \in Alive /\ Alive' = Alive \ {c}
  <2>1. /\ c \in 1 .. accepted /\ holds[handleInfo[c]] = c
        /\ handleInfo[c] \in Block
    BY <1>1, <1>2, <1>3 DEF LifeInv, Watched, ReadsInv, Reading, At
  <2>2. holds'[handleInfo[c]] # c
    BY <1>1, <1>3, <2>1, Constants DEF TypeOK
  <2>3. ASSUME NEW d \in 1 .. accepted, d # c
        PROVE  holds'[handleInfo[d]] = d <=> holds[handleInfo[d]] = d
    <3>0. accepted \in 0 .. NumConns
      BY DEF TypeOK
    <3>1. d \in Conn /\ d # Nobody
      BY <3>0, Constants DEF Conn, Nobody
    <3>2. handleInfo[d] \in Block
      BY DEF ReadsInv
    <3> QED
      BY <1>1, <1>3, <2>1, <2>3, <3>1, <3>2 DEF TypeOK
  <2> QED
    BY <1>1, <2>1, <2>2, <2>3 DEF Alive
<1>8. Lives!Move(c, {"freeing"}, "removing")
  BY <1>4, <1>5, <1>6, Moved
<1> QED
  BY <1>1, <1>7, <1>8 DEF Lives!Free

(* ... and removes the player, alone until a number is given twice.        *)
LEMMA RemoveImplements ==
  ASSUME TypeOK, ThreadInv, LifeInv, (TypeOK /\ ThreadInv /\ LifeInv)',
         NEW w \in Worker, RemovePlayer(w)
  PROVE  \E c \in Conn : Lives!Remove(c)
<1>1. /\ step[w] = "removing" /\ step' = [step EXCEPT ![w] = "announcing"]
      /\ conn' = conn /\ w \in Thread
      /\ playerHash' = playerHash \ Lookup(actorNumber[conn[w]])
      /\ UNCHANGED <<accepted, handleInfo, holds, reads, orphaned, clashed>>
  BY DEF RemovePlayer, Goto, Idle, Thread, historyVars
<1>0. ~Ended /\ ~Ended'
  BY <1>1, Constants DEF Ended, ThreadInv, TypeOK, Thread
<1>2. step[w] \in Watching /\ step'[w] \notin Watching
  BY <1>1 DEF TypeOK, Watching, ReadSteps, JoinSteps
<1>3. PICK c \in Conn : c = conn[w]
  BY <1>1 DEF TypeOK, ThreadInv, Idle, Nobody
<1>4. Stage(c) = "removing"
  BY <1>1, <1>2, <1>3, StageAt
<1>5. /\ Watched(c) /\ c \notin orphaned /\ c \in 1 .. accepted
      /\ ~(reads[c] > 0)
  BY <1>1, <1>2, <1>3 DEF LifeInv, Watched
<1>6. Stage(c)' = "gone"
  <2>1. \A t \in Thread : step'[t] \in Watching => conn'[t] # c
    BY <1>1, <1>2, <1>3 DEF LifeInv, TypeOK
  <2>2. \A S \in Groups : At(S, c)' = {}
    BY <2>1 DEF At, Groups, Watching, ReadSteps
  <2>3. /\ At(JoinSteps, c)' = {} /\ At({"relaying"}, c)' = {}
        /\ At({"freeing"}, c)' = {} /\ At({"removing"}, c)' = {}
    BY <2>2 DEF Groups
  <2>4. ~(accepted' < c) /\ ~(reads'[c] > 0)
    BY <1>1, <1>5 DEF TypeOK
  <2> HIDE DEF At
  <2> QED
    BY <1>0, <1>1, <1>3, <1>5, <2>3, <2>4, StageByAt, StageByAtNext DEF ByAt
<1>7. \A d \in Conn \ {c} : Stage(d)' = Stage(d)
  <2>1. \A u \in Thread \ {w} : step'[u] = step[u] /\ conn'[u] = conn[u]
    BY <1>1 DEF TypeOK
  <2> QED
    BY <1>0, <1>1, <1>2, <1>3, <2>1, OthersStay
<1>8. Lives!Move(c, {"removing"}, "gone")
  BY <1>4, <1>6, <1>7, Moved
<1>9. playerHash' \subseteq playerHash \ {c}
  BY <1>1, <1>3 DEF Lookup
<1>10. ASSUME ~clashed
       PROVE  c \in playerHash /\ playerHash' = playerHash \ {c}
  <2>1. c \in playerHash /\ actorNumber[c] = c
    BY <1>5, <1>10 DEF LifeInv, NumberInv
  <2>2. \A p \in playerHash : actorNumber[p] = p
    BY <1>10 DEF LifeInv, NumberInv
  <2>3. Lookup(actorNumber[c]) = {c}
    BY <2>1, <2>2 DEF Lookup
  <2> QED
    BY <1>1, <1>3, <2>1, <2>3
<1>11. UNCHANGED <<Alive, clashed>>
  BY <1>1, AliveKept
<1> QED
  BY <1>8, <1>9, <1>10, <1>11 DEF Lives!Remove

(* What else a worker does moves no connection.                            *)
LEMMA WorkerGoesOn ==
  ASSUME TypeOK, ThreadInv, NEW w \in Worker,
         \/ \E r \in Conn : SendNext(w, r)
         \/ EndAnnounce(w)
         \/ \E c \in Conn : TakeWrite(w, c)
  PROVE  UNCHANGED Lives!sessionVars
<1>1. /\ UNCHANGED <<accepted, handleInfo, holds, playerHash, reads, orphaned,
                     clashed>>
      /\ \/ UNCHANGED <<step, conn>>
         \/ /\ step[w] \in {"announcing", "electing"}
            /\ step'[w] \in {"waiting", "electing"}
            /\ \A u \in Thread \ {w} : step'[u] = step[u] /\ conn'[u] = conn[u]
  <2>1. CASE \E r \in Conn : SendNext(w, r)
    BY <2>1 DEF SendNext, socketVars, playerVars,
         historyVars
  <2>2. CASE EndAnnounce(w)
    BY <2>2 DEF EndAnnounce, Goto, TypeOK, Thread, Idle, socketVars, playerVars,
         historyVars
  <2>3. CASE \E c \in Conn : TakeWrite(w, c)
    BY <2>3 DEF TakeWrite, threadVars, socketVars, playerVars,
         historyVars
  <2> QED
    BY <2>1, <2>2, <2>3
<1>2. ASSUME NEW S \in Groups, NEW d \in Conn
      PROVE  At(S, d)' = At(S, d)
  BY <1>1 DEF At, Groups, JoinSteps, Thread
<1>3. Ended' <=> Ended
  BY <1>1, Constants DEF Ended, Thread
<1> HIDE DEF At
<1> QED
  BY <1>1, <1>2, <1>3, Stutters

(* The process ends, and every connection with it.                         *)
LEMMA FaultCrashes ==
  ASSUME NEW t \in Thread, Fault(t)
  PROVE  Lives!Crash
<1>1. /\ UNCHANGED <<accepted, handleInfo, holds, playerHash, clashed>>
      /\ \A u \in Thread : step'[u] = "ended"
  BY DEF Fault, socketVars, playerVars, historyVars
<1>2. Ended'
  BY <1>1 DEF Ended, Thread
<1>3. \A d \in Conn : Stage(d)' = "over"
  BY <1>2, StageByAtNext DEF ByAt
<1>4. [d \in Conn |-> Stage(d)]' = [d \in Conn |-> "over"]
  BY <1>3
<1> QED
  BY <1>1, <1>4, AliveKept DEF Lives!Crash

(* Connections live as Sessions has it, whatever freed handleInfos the     *)
(* threads read: their data are freed once, by the thread that served them *)
(* last, and nothing that is done to one connection moves another; until a *)
(* number in use is given, nothing takes another's player out of the table.*)
THEOREM CompletionImplementsSessions == Spec => ImplementsSessions
<1>1. Init => Lives!Init
  <2> SUFFICES ASSUME Init PROVE Lives!Init
    OBVIOUS
  <2>1. \A c \in Conn : Stage(c) = "absent"
    <3>1. ~Ended /\ \A c \in Conn : accepted < c
      BY DEF Init, Ended, Conn, Thread
    <3> QED
      BY <3>1, StageByAt DEF ByAt
  <2>2. Alive = {}
    BY DEF Init, Alive
  <2> QED
    BY <2>1, <2>2 DEF Init, Lives!Init
<1>2. /\ TypeOK /\ ThreadInv /\ ReadsInv /\ LifeInv
      /\ (TypeOK /\ ThreadInv /\ LifeInv)' /\ [Next]_vars
      => [Lives!Next]_Lives!sessionVars
  <2> SUFFICES ASSUME TypeOK, ThreadInv, ReadsInv, LifeInv,
                      (TypeOK /\ ThreadInv /\ LifeInv)', [Next]_vars
               PROVE  Lives!Next \/ UNCHANGED Lives!sessionVars
    BY DEF Lives!sessionVars
  <2>1. CASE UNCHANGED vars
    <3>1. /\ UNCHANGED <<accepted, handleInfo, holds, playerHash, reads, orphaned,
                         clashed>>
          /\ UNCHANGED <<step, conn>> /\ (Ended' <=> Ended)
      BY <2>1 DEF vars, socketVars, playerVars, threadVars, historyVars, Ended
    <3>2. \A S \in Groups, d \in Conn : At(S, d)' = At(S, d)
      BY <3>1 DEF At
    <3> HIDE DEF At
    <3> QED
      BY <3>1, <3>2, Stutters
  <2>2. CASE Accept
    BY <2>2, AcceptJoins, MovesOn
  <2>3. CASE JoinStep
    BY <2>3, JoinGoesOn, JoinEnds, MovesOn DEF JoinStep
  <2>4. ASSUME NEW w \in Worker, NEW c \in Conn,
               TakeData(w, c) \/ TakeNothing(w, c) \/ TakeWrite(w, c)
        PROVE  Lives!Next \/ UNCHANGED Lives!sessionVars
    BY <2>4, TakeImplements, WorkerGoesOn, MovesOn
  <2>5. ASSUME NEW w \in Worker, WorkerStep(w)
        PROVE  Lives!Next \/ UNCHANGED Lives!sessionVars
    BY <2>5, PostImplements, GiveUpImplements, FreeImplements, RemoveImplements,
       WorkerGoesOn, MovesOn DEF WorkerStep
  <2>6. ASSUME NEW t \in Thread, Fault(t)
        PROVE  Lives!Next
    BY <2>6, FaultCrashes DEF Lives!Next
  <2> QED
    BY <2>1, <2>2, <2>3, <2>4, <2>5, <2>6 DEF Next
<1> QED
  BY <1>1, <1>2, TypesCorrect, ReadsInvariant, LifeInvariant, PTL
     DEF Spec, ImplementsSessions, Lives!Spec
=============================================================================
