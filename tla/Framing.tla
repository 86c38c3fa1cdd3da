------------------------------ MODULE Framing ------------------------------
(***************************************************************************)
(* How one connection's stream is cut into messages: the READ branch of    *)
(* EchoThreadMain and RecycleIO.  The client sends messages, TCP hands the *)
(* stream over in pieces cut anywhere, and each receive leaves in the      *)
(* buffer what the next one is to complete.  The worker's part is one      *)
(* action, as a connection has one receive outstanding at most.            *)
(***************************************************************************)
EXTENDS NetworkMessage

CONSTANTS
  Buffer,        \* BUFFER
  MaxMessages,   \* bound: messages the client sends
  Sizes          \* the numbers of tokens a message may have

ASSUME FramingAssumption ==
  /\ Buffer \in Nat \ {0}
  /\ MaxMessages \in Nat
  /\ Sizes \subseteq Nat \ {0, 1}

VARIABLES
  size,       \* the numbers of tokens of the messages sent, in order
  ends,       \* where in the stream each of them ends
  stream,     \* what is sent and not yet received
  arrived,    \* the number of characters received
  buffer,     \* the buffer's text: up to its first NUL, or all of it
  offset,     \* wsaBuf.buf - buffer, where the next receive is to start
  worker,     \* what the worker has come to: see Workers
  handled,    \* the messages HandleMessage has handled, in order
  cuts        \* history: the kinds of bad cuts below that have occurred

vars == <<size, ends, stream, arrived, buffer, offset, worker, handled, cuts>>

(* A receive ended inside a message, and "short": it did not fill the      *)
(* buffer; "first": the message began where the buffer begins; "header":   *)
(* the message's signature and length had not both come.                   *)
Cuts == {"short", "first", "header"}

(* It waits for the next completion, is stuck in Split, was aborted by the *)
(* assertion of RecycleIO, or took a '#' behind a full buffer for the      *)
(* client's: what follows from that is undefined and not modelled.         *)
Workers == {"waiting", "stuck", "aborted", "overread"}

Note(e, cond) == IF cond THEN {e} ELSE {}

Init ==
  /\ size = <<>>
  /\ ends = <<>>
  /\ stream = <<>>
  /\ arrived = 0
  /\ buffer = <<>>
  /\ offset = 0
  /\ worker = "waiting"
  /\ handled = <<>>
  /\ cuts = {}

(* The client's message m of s tokens, each with its '#'.                  *)
Encoded(m, s) ==
  [i \in 1 .. 2 * s |-> IF i % 2 = 0 THEN Delim ELSE Text(m, (i + 1) \div 2)]

(* One of its tokens may have no text, as a chat line or a property's      *)
(* value: at most one is followed.                                         *)
Messages(m, s) ==
  {Encoded(m, s)} \cup {RemoveAt(Encoded(m, s), 2 * t - 1) : t \in 3 .. s}

Send(s) ==
  /\ Len(size) < MaxMessages
  /\ size' = Append(size, s)
  /\ \E e \in Messages(Len(size) + 1, s) : stream' = stream \o e
  /\ ends' = Append(ends, arrived + Len(stream'))
  /\ UNCHANGED <<arrived, buffer, offset, worker, handled, cuts>>

---------------------------------------------------------------------------

(* The C string at the buffer's start after `piece` was put at offset.     *)
(* When the buffer is not full a NUL is put behind the piece; a piece that *)
(* does not continue what was kept lies behind the NUL of that.            *)
TextAfter(piece) ==
  IF offset = Len(buffer) THEN buffer \o piece ELSE buffer

(* Where message m begins, and the message the stream is cut in at n, if   *)
(* it is.                                                                  *)
BeginOf(m) == IF m = 1 THEN 0 ELSE ends[m - 1]
CutAt(n) == {m \in DOMAIN ends : BeginOf(m) < n /\ n < ends[m]}

BadCuts(n, text) ==
  LET cut == CutAt(n) IN
  Note("short", cut # {} /\ Len(text) < Buffer)
    \cup Note("first", \E m \in cut : n - BeginOf(m) >= Len(text))
    \cup Note("header", \E m \in cut : n - BeginOf(m) < 4)

LengthOrBoth(resume, endWithDelim) ==   \* mutant: "and" for "or"
  IF resume > 0 /\ ~endWithDelim THEN Buffer - resume ELSE 0

LengthUnlessDelim(resume, endWithDelim) ==   \* mutant: a resume point overlooked
  IF ~endWithDelim THEN Buffer - resume ELSE 0

LengthPastEnd(resume, endWithDelim) ==   \* mutant: one off
  IF resume > 0 \/ ~endWithDelim THEN Buffer - resume + 1 ELSE 0

(* The length moved to the front of the buffer, all that lies behind the   *)
(* resume point, which is also the offset of the next receive.             *)
LengthToMove(resume, endWithDelim) ==
  IF resume > 0 \/ ~endWithDelim THEN Buffer - resume ELSE 0

NotMoved(text, resume) ==   \* mutant: copied from the buffer's start
  text

Moved(text, resume) == SubSeq(text, resume + 1, Len(text))

(* A READ completion of n characters: split the text, handle the messages, *)
(* move what is left to the front of the buffer and recycle it.  With a    *)
(* full buffer nothing ends the string, and it runs on into other memory.  *)
Receive(n) ==
  LET piece == SubSeq(stream, 1, n)
      text == TextAfter(piece)
      endWithDelim == piece[n] = Delim
      h == HandleMessage(Split(text), size)
      length == LengthToMove(h.resume, endWithDelim)
  IN
  /\ worker = "waiting"
  /\ n <= Len(stream) /\ n <= Buffer - offset
  /\ stream' = SubSeq(stream, n + 1, Len(stream))
  /\ arrived' = arrived + n
  /\ cuts' = cuts \cup BadCuts(arrived', text)
  /\ \/ /\ SplitEnds(text)
        /\ handled' = handled \o h.handled
        /\ buffer' = IF length > 0 THEN Moved(text, h.resume) ELSE <<>>
        /\ offset' = length
        /\ worker' = IF length = Buffer THEN "aborted" ELSE "waiting"
     \/ /\ \/ ~SplitEnds(text) /\ worker' = "stuck"
           \/ Len(text) = Buffer /\ worker' = "overread"
        /\ UNCHANGED <<handled, buffer, offset>>
  /\ UNCHANGED <<size, ends>>

Next ==
  \/ \E s \in Sizes : Send(s)
  \/ \E n \in 1 .. Buffer : Receive(n)

Spec == Init /\ [][Next]_vars

---------------------------------------------------------------------------

Char == [msg : 0 .. MaxMessages, tok : Nat]

TypeOK ==
  /\ size \in Seq(Sizes)
  /\ ends \in Seq(Nat)
  /\ stream \in Seq(Char)
  /\ arrived \in Nat
  /\ buffer \in Seq(Char)
  /\ offset \in 0 .. Buffer
  /\ worker \in Workers
  /\ handled \in Seq([msg : 0 .. MaxMessages, whole : BOOLEAN])
  /\ cuts \in SUBSET Cuts

(* However TCP cuts the stream and whatever is lost by it, no message is   *)
(* handled twice, out of order, or with the tokens of another one in it    *)
(* (the leftover that lines 226-232 of EchoThreadMain move).               *)
InOrder ==
  /\ \A i \in DOMAIN handled : handled[i].whole
  /\ \A i, j \in DOMAIN handled : i < j => handled[i].msg < handled[j].msg

(* The messages that have arrived in full.                                 *)
Here == {m \in DOMAIN ends : ends[m] <= arrived}

(* What the resume logic achieves: as long as a receive that ends inside a *)
(* message fills the buffer, and that message is neither the buffer's      *)
(* first nor without its length yet, every message that has arrived in     *)
(* full has been handled, and what the buffer keeps is exactly the rest.   *)
Reassembled ==
  cuts = {} /\ worker = "waiting" =>
    /\ {handled[i].msg : i \in DOMAIN handled} = Here
    /\ Len(buffer) = arrived - Max({0} \cup {ends[m] : m \in Here})

(* The connection delivers its messages as Delivery has it: a message is   *)
(* taken up by HandleMessage, and the connection is intact as long as no   *)
(* receive has ended where the resume logic cannot go on (MessageHandler   *)
(* lines 28-70, IOCP_Server.cpp:226-233).                                  *)
Connection == INSTANCE Delivery WITH
  sent <- Len(size),
  here <- Here,
  delivered <- [i \in DOMAIN handled |-> handled[i].msg],
  intact <- cuts = {} /\ worker = "waiting"

ImplementsDelivery == Connection!Spec

(* RecycleIO's assertion wsaBuf.len != 0 (IOCP_Server.h:89).               *)
RoomToReceive == worker # "aborted"

(* Split passes over an empty token ("skip", NetworkMessage.h:42).         *)
SplitReturns == worker # "stuck"
=============================================================================
