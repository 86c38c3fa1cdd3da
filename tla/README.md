# HamangServer: specifications and proofs

HamangServer (`src/Multithread1`) is a C++ relay server for one game room on
Windows I/O completion ports. These TLA+ modules describe what its threads do
to the state they share, TLC checks them on small instances, and TLAPS proves
some of the results for every instance. Paths below are relative to
`src/Multithread1` unless they begin with `src/`.

## The system

One **accept thread** (`OpenServer`) accepts a connection, runs
`HandlePlayerJoin` for it to the end and posts the first `WSARecv`. As many
**worker threads** as there are processors (`EchoThreadMain`) take completions:
a read with data is split into messages, handled and broadcast, and the next
`WSARecv` is posted; a read without data is a disconnect; a write only frees
its buffer. A connection never has two reads outstanding, so its own packets
and its disconnect follow one another; everything else interleaves.

| component | state | operations | correct when | hard because |
|---|---|---|---|---|
| player table (`PlayerManager`, `Player`) | `playerHash`, `masterPlayer`, `nextActorNumber`; per player `actorNumber`, `isMasterClient`, `isConnected` | `CreatePlayer`, `RemovePlayer`, `SetMasterClient`, `ChangeMasterClientOnDisconnect`, `Reset`, broadcasts | numbers are unique, there is one master, clients are told who is there | broadcasts, counts and `Reset` take no mutex; facts are read early and used late |
| server threads (`IOCP_Server`) | `PER_HANDLE_DATA`, `PER_IO_DATA`, room properties | join, read loop, disconnect, reset | every handler ends; joins and leaves are seen by all; nothing is freed while a receive uses it | handlers overlap; the last leaver resets a room somebody may be joining; handles are freed before their last use |
| buffered messages (`BufferedMessages`) | `messageQueue` | `EnqueueMessage`, four removals, `SendBufferedMessages` | who joins late gets what the others got | buffering and broadcasting are not one step; `isConnected` is set before the lock |
| framing (`NetworkMessage`, `HandleMessage`, `RecycleIO`) | the receive buffer, `incompleteResumePoint` | `Split`, `HandleMessage`, leftover and recycle | messages come out whole, once, in order | TCP cuts anywhere |
| property tables (`HashTable`) | keys and values of the room and of each player | `SetProperty`, `RemoveAllProperties`, encode | server and clients agree on values | update and broadcast are separate; encoding takes no mutex; a joiner is told values that may have changed |
| time (`PingManager`) | `serverTime`, `pingRecords` | `GetTimeNow`, `RecordPing`, `TimeSynch_Receive` | time does not go back | shared by all threads without a lock |
| database (`DBMS_NI`) | `rc`, statement handle | `sqlexec`, `HandleRequest`, callbacks | an answer belongs to its request | shared by all workers without a lock |
| SQLite predecessor (`DBManager`), test programs (`src/Client`, `src/SQLtest`), vendored SQLite | | | | not part of the running server |

The components meet in `HandlePlayerJoin` (player table, room properties, time,
buffered messages, broadcast), in `HandleMessage` (everything a client can ask
for) and in `HandlePlayerDisconnect` (player table, broadcast, then either
`ResetServer` or an election and `RemovePlayerNr`).

At this commit `main` shows a database table and returns before it opens the
server (`main.cpp:54`). The modules describe the server that `OpenServer` runs.

## The modules

**PlayerManager** holds the table's state and one operator per method of
`PlayerManager.cpp`. A connection names its player, as a `Player` is never
deleted while the server runs. `playerHash` is the set of the mapped players; a
player's key is the number it was created with. `CreatePlayer` is two steps
because `Reset` writes the counter without the mutex.

**Room** adds the threads. `pc[c]` is the point that the handler of connection
`c` has reached; a step is one locked method or one access of shared state
outside the lock; a loop over the table makes one step per entry (`todo`,
`cursor`). `Accept`, `FinishCreate`, `EncodePlayer`, `Connect`, `NotifyJoined`
and `PostFirstRecv` are a join; `ReceiveRelay`, `ReceiveChangeMaster`, `Relay`,
`TellMaster` and `PostRecv` a packet; `BeginClose`, `Remove`, `AnnounceLeft`,
`CountPlayers` and then `ResetServerMaster`, `ResetServerNumber` or `Elect`,
`FinishElection` a disconnect. `roster[c]` and `toldMaster[c]` are what the
messages sent to `c` say so far; the texts themselves are left out. `known[c]`
is everybody `c` has been told of, leavers too: a request was sent at any time
before it is handled, so it may name any of them.

Four things end the process, and `fault` says which did. A request that names a
player who is gone dereferences a null `Player` (`ReceiveForMissing`): the fault
is `"missing"` if the messages sent to the client still have that player in the
room, `"late"` if the client has been told of the departure, by a message that
its request crossed. An election in an empty table is `"empty"` (`ElectNobody`),
a loop that steps on from an erased entry `"erased"` (`IteratorFault`; it may
also go on). `handleInfo` is freed before `RemovePlayer` reads it, on every
disconnect, and broadcasts and completions may read it later: `"freed"`
(`FreedFault`; Completion has what else may come of it). One packet holds one
message here. Requests that touch neither the table nor the master (time,
removal of buffered messages, database) would add nothing to this module.

The history variable `happened` records overlaps the code does not guard
against, and the properties say until which of them they hold. This is a
statement about the code: OneMaster, for example, really fails once two
disconnects overlap, because `isMaster` is read before `RemovePlayer` and used
after it.

**BufferedMessages** holds the queue and one operator per method. The list only
grows at its end, so it is kept as a set of messages with ascending ids.
`Packs` is what the nested loops of `SendBufferedMessages` come to: the whole
list goes out as one text, or the inner loop never ends. All messages have the
same length, so the limit counts messages.

**CatchUp** puts a join between packets and disconnects: `MarkConnected`,
`BeginSendBuffered`, `SendBuffered` on the accept thread, against `HandleRPC`,
`HandleRemove`, `EndPacket`, `Deliver`, `EndBroadcast` and the disconnect's
`CountPlayers`, `Wipe`, `ForgetPlayer`. A packet holds any number of messages
and is broadcast when all are handled, as in `EchoThreadMain`. `received[c]` is
the sequence of texts sent to `c`, each a set of messages. There are workers
enough for every connection; Room bounds them. Everything goes by number, as in
the code: a message bears the connection that sent it, and `playerActorNr` is
that player's number, by which `RemovePlayerNr`, `RemoveRPC` and the broadcasts
find or skip it. `Renumber` is `Reset`: a player who joins after it may get the
number of one who is still there, and is then not inserted, or of a leaver whose
`ForgetPlayer` is still to come, which then removes the newcomer's messages. The
history variable `clashed` records that one of these has happened.

**RoomLog** is what the server promises of the messages it buffers and relays,
without threads, locks or texts: the room has one log, a player is let in with
the whole of it in hand, and a message counts as published only once everybody
who is in has it. Messages of a player who is there go only on request, unless
the log is `lost`. CatchUp implements it with `present` its `Members`, `let` its
`CaughtUp`, `log` its `messageQueue`, `got` what has been sent to each client
and `lost` its `wiped \/ clashed` (`ImplementsLog`). A join is `Enter` and
`LetIn`, a packet `Say` or `Retract`, then `Relay` for each receiver and
`Publish` at the end, a disconnect `Leave` and then `Forget` or `ThrowAway`; all
other steps leave the log alone.

**HashTable** holds the property tables and one operator per method. A value is
the number of the update that set it. `EncodeToNetwork` takes no mutex: its walk
has the keys that its count was taken of (`due`) and those it has come upon
(`seen`); a key set meanwhile may or may not be seen, and a walk over a table
that is cleared meanwhile ends or crashes.

**Properties** puts the room information of a join (`CreatePlayer`,
`EncodeTable`, `EncodeEntry`, `EndTable`, `SendInfo`, `MarkConnected`) between
SetHash messages (`ReceiveSetHash`, one `SetHash` per key, `BeginBroadcast`,
`Deliver`, `EndBroadcast`), disconnects, `Wipe` and `Renumber`. A message names
a player by number, and `SetHash` sets the property of whoever is found under it
(`Found`); `CreatePlayer` inserts nobody whose number is taken, `RemovePlayer`
takes out whoever has the number, and broadcasts skip everybody who has the
sender's. `view[c]` is what was last sent to, or received from, client `c`: a
client that sets a property has it set already and is left out of the broadcast.
Messages that cross on the wire are the clients' matter. A player's table is
followed only if it is in `Table`, which keeps the runs small. The history
variables `contested` and `raced` say, per property, what the code does not
guard against; `wiped`, that the room was reset with somebody in it, which may
clear its properties or its numbers.

**Completion** is about memory and operations, not about messages: who posts,
dequeues and frees receives and sends, and which block of the heap each
`handleInfo` points to. `holds[b]` is the connection whose `PER_HANDLE_DATA` is
in block `b`; `FreeHandle` empties it, `Accept` may take it again, and
`ClientSocket(c)` is what reading `handleInfo->clientSocket` may then give.
`TakeData`, `TakeNothing` and `TakeWrite` are the branches of `EchoThreadMain`,
`PostRecv` and `PostRecvFails` its last call; `FreeHandle`, `RemovePlayer` and
`EndAnnounce` are `HandlePlayerDisconnect`. How numbers come to be used twice is
Room's matter: here `CreatePlayer` gives a number that is new or, once somebody
has left, one in use (`clashed`). The table then keeps its entry, and
`RemovePlayer` erases and closes whoever has the number, or does nothing if
nobody has. Any receive or send may fail. `Fault` is the other outcome of using
freed memory: the process ends. **Sessions** is what Completion implements: a
connection is joined, then listened to and served in turn, never both; when it
is given up its data are freed, once, and then its player is removed; and no
step moves two connections. Its one exception is `mixed`: once a player has been
taken for another, and has not come into the room, a removal may take out
others. `Stage(c)` maps a state to it, by which thread has the connection's one
READ.

**PingManager** holds `serverTime` and `pingRecords`, **DBMS_NI** the return
code and the statement handle; **Requests** has the threads that share them: the
time of a join, Ping, Receive_modifiedTime and DBReference requests. A step is
one access: `UpdateTime` samples the clock and stores later, `GetTimeNow` may
return what was stored or what is there now, `rc` is assigned after
`SQLExecDirect` returns and may be read again at the check. What ODBC answers is
external: any return code, but an error on a handle with an open cursor or on
one that was freed. A `long long` is written and read whole, as in the x64
build.

**NetworkMessage** has `Split` and `HandleMessage` as operators on a sequence of
characters, in which each token's text is one character; `find(k)` is the place
of the k-th `#`. A message that a client sends has all its tokens or, as a chat
line may, one without text (`Messages`). **Framing** is the read branch of
`EchoThreadMain` with `RecycleIO`: `Receive(n)` appends a piece of the stream,
takes the text apart, and moves the rest as the code does: to the front, with
the next receive at `BUFFER - startPoint`. `buffer` is the C string at the
buffer's start, so a piece put behind a NUL is not part of it, which is what the
code reads. When a full buffer has no NUL behind it the string runs on into
other memory; the outcome in which a `#` is found there is undefined and not
followed (`overread`). `memcpy` on overlapping ranges is taken to behave as
`memmove`, as it does in the x64 runtime the project builds with. The assertion
is modelled as in the Debug build, the only one the project's build logs show.
**Delivery** is what Framing implements: a queue that takes messages up in
order, none twice and none before it has come in full, and loses none as long as
it is `intact`. In Framing that is: the worker waits for the next completion and
no receive has ended where the resume logic cannot go on.

## The runs

| run | instance | what it shows |
|---|---|---|
| `room` | 3 connections, 2 workers, 1 request | types, unique numbers, one master, no stranger, agreeing views, what may crash when |
| `room_requests` | 2 connections, 2 workers, 3 requests | the same for several master changes in a row, and every handler ends |
| `room_join` | 3 connections, 2 workers | violation: a player is created and not added to the table |
| `catchup` | 3 connections, 1 view, 3 messages, pack limit 3 | nothing is missed, twice at most, the later message wins, nothing left behind; RoomLog is implemented |
| `catchup_threads` | 3 connections in a fixed order, 2 messages, pack limit 3 | joins, packets and disconnects end while the buffer packs |
| `catchup_full` | the same with pack limit 2 | violation: the packing loop never ends |
| `properties` | 3 connections, 2 keys of the room's table and of one player's, 2 SetHash messages of 1 or 2 keys | server and clients agree at rest, values never go back, an emptied room starts over |
| `completion` | 3 connections, 2 workers, 1 receive with data | one receive per connection, receives never meet freed data, everybody in the table can be found gone; closed players leave, buffers are freed; Sessions is implemented |
| `requests` | 3 connections, 3 requests, clock 0..2 | how stale a time may be, when a ping is negative, what ends the server |
| `framing` | 4 messages of 2 or 3 tokens, 10 characters | order and wholeness always; completeness for the cuts the code can resume from; Delivery is implemented |
| `framing_cut` | the same | violation: `assert(wsaBuf.len != 0)` fails |
| `framing_empty` | the same | violation: an empty token stops the worker |

Bounds. Three connections give every pair of overlapping handlers a third client
that watches, joins or leaves; every property compares at most two players. Two
workers and the accept thread are the smallest number that lets two disconnects
and a join overlap. `MaxRequests` and `MaxMessages` bound what the clients do,
not how the threads interleave. Three buffered messages are the fewest that let
one be sent early, one late and one be removed; they have one view, so that a
removal by view takes the messages of all and one by player and view those of
the player. In the liveness runs, where symmetry is not sound, the connections
arrive in one order (`InOrderFairSpec`): they are alike. In Framing the buffer
holds two short messages and the start of a third, and the messages together are
longer than two buffers, so full buffers, moved leftovers and all the kinds of
cuts occur. Two SetHash messages are the fewest that can overlap, and a third
client joins beside them. Properties begins in a new room or, for numbers that
are given twice, in one where two have come and gone already and the second
reset is still to come (`SecondReset`): with three connections from the start
there would be nobody left to be mixed up. In Completion three connections let
one be accepted into memory that another has freed while a third watches; the
number of sends of one connection does not matter, as none of them touches what
another thread uses. In Requests two ticks and three handlers let a thread fall
behind two others. The runs do not check deadlock: a room whose clients have all
come and gone is at rest, and so is a process that has ended.

Fairness. Weak fairness on the steps of a handler that has begun, per
connection: the operating system runs every thread that can go on, and a wait
for a mutex ends when nobody keeps it, as connections are accepted finitely
often. Nothing is assumed of clients: no arrival is fair, and neither is
`PostRecvFails`. `EndPacket` is fair, because a packet has finitely many
messages. Completion assumes less, weak fairness of `Progress` as a whole:
as long as any thread can go on, one does; a send that was taken on completes in
the end and so does a receive on a closed socket. No client is assumed to close
its connection, no receive with data to come. The two liveness properties need
no more, because connections and requests are bounded.

Findings. `room_join`: between `GetPlayerCount() == 0` and `Reset()` somebody
may join; the counter then restarts in a room that is not empty, and a number is
given twice. `catchup_full`, `framing_cut` and `framing_empty` are sequential
errors in loops and lengths; `PROJECT.json` has the lines.

## The proofs

`RoomProofs` proves, for every set of connections (`NoPlayer` not among them),
every number of workers and every bound on requests:

* `TypeCorrect`: `Spec => []TypeOK`. Four lemmas, one per group of actions.
* `NumbersInvariant`: `Spec => []NumbersInv`, and from it
  `NumbersAreUnique`: `Spec => []UniqueNumbers`.

UniqueNumbers is not inductive: that a fresh number is unused follows only from
what the counter is. `NumbersInv` adds that every number in use is below
`nextActorNumber`, except that of a player whose `CreatePlayer` still holds the
mutex, which equals it. `Accept` keeps this because no other creation is under
way (one accept thread), so the counter is above every number and the insertion
succeeds; `FinishCreate` because the increment's load cannot see another value;
`Remove` because the number finds exactly its player; `ResetServerNumber`
because either nobody is present or `staleReset` is recorded. Every other step
leaves the table alone and moves its player between steps of the same kind
(`SameTable`, `QuietStep`). The proof shows that the race with `ResetServer` is
the only way in which numbers can collide.

`RoomViewProofs`, on top of it and for the same constants, proves the other four
invariants of Room:

* `ServerSurvives`: `Spec => []Survives`.
* `MasterIsOne`: `Spec => []OneMaster`.
* `NoStrangers`: `Spec => []NoStranger`.
* `ViewsAreRight`: `Spec => []ViewsAgree`.

None of them is inductive, and each speaks of a room in which a certain overlap
has not happened; `RoomInv` has, for each, what then holds in the middle of a
handler.

* Survives has nothing to say of late requests and of freed memory, which the
  code lets end the process at any time. Of the rest: `AloneInv` says that a
  disconnect is alone, that an election finds somebody, and that no loop's
  iterator is on an erased entry; `KnownInv`, that the messages sent to a client
  have nobody in the room who has left, but for those whose departure the one
  disconnect has still to announce to it. `ElectNobody`, `IteratorFault` and the
  `"missing"` case of `ReceiveForMissing` are then disabled.
* OneMaster: `MasterInv` follows the one disconnect that may be under way: until
  it has elected, the room has no master exactly if the player who left was it
  (`wasMaster`, read before `RemovePlayer`), and a room it has emptied loses its
  `masterPlayer` before the next player comes.
* NoStranger: `KnowAllInv` says that whoever is connected has been told of a
  player, or that the player's own loop has still to come to it, and that the
  loop of the room information holds the rest. It needs `NeverEmptyInv`: as long
  as the counter does not start over no number is used twice, not even one of a
  player who has left, so that hearing of a departure makes nobody forget a
  player who is there.
* ViewsAgree: `OneAtATime` says that one handler is under way; `RosterInv`, that
  what a client has been told is the table without those of whom it has yet to
  hear (`Unheard`), with those of whose departure it has (`Untold`);
  `MasterToldInv`, that it knows the master or that a loop has still to tell it.

The proof has a lemma per conjunct and action kind. `Step` and `Fault` split
`Next` into what a handler does and what ends the process.

`CatchUpProofs` proves, for every set of connections and views, every pack
limit and every number of messages:

* `TypeCorrect`: `Spec => []TypeOK`.
* `LeavesNothing`: `Spec => []NoneLeftBehind`. A player's own removal finds its
  messages, as it still has the number it sent them with, and it sends no more.
* `CatchUpInvariant`: `Spec => []CatchUpInv`, and from it `NothingIsMissed`:
  `Spec => []NothingMissed`.

NothingMissed speaks of finished broadcasts only and says nothing of players who
have not had the buffer yet. `CatchUpInv` adds, first, that the table holds the
players who are there and that a number is nobody else's, neither a player's nor
that of a leaver who has `RemovePlayerNr` to do (`PlayersInv`), as long as
nothing has `clashed`; then what carries a message to them: every message that a
player in the room sent, and nobody had removed, is still in `messageQueue`
(`KeptStep`: only the player's own disconnect, a RemoveRPC request and
`RemoveAll` take it out, and the first two are excluded), and a broadcast under
way has sent it to, or has still to visit, everybody who has had the buffer
(`ComingStep`: `EndPacket` starts with all of them, `Deliver` reaches a
connected player, `SendBuffered` hands over the whole queue at once). The
invariant needs `isConnected` from `MarkConnected` on: had the flag been set
after the buffer is sent, a broadcast could skip a player who has had it.

`LogProofs` proves, for the same constants, `CatchUpImplementsLog`:
`Spec => ImplementsLog`. Each step of CatchUp is one step of RoomLog or leaves
the log alone (`StutterStep`, `JoinInLog`, `PacketInLog`, `DeliverInLog`,
`CloseInLog`). The steps where this says something are `SendBuffered`, which
hands over the whole log although other handlers run beside it; `EndBroadcast`,
where `ReachInv` shows that everybody who is in has got the message or has to be
visited still, and nobody is left to visit; and `Deliver`, which never brings a
player his own message (`TodoInvariant`, with `OutgoingInv`).

`LogProofs` also proves what a player gets of the texts that carry the log:

* `SentTwiceAtMost`: `Spec => []TwiceAtMost`.
* `LaterMessageWins`: `Spec => []LaterWins`.

Both follow from `CopiesInv`. TwiceAtMost counts the copies that a player has;
its inductive form `DueInv` adds those that are still due, one if the player has
not had the buffer yet and one if the sender's broadcast has yet to come by, and
says that together they are never more than two. A message is new, with nobody
having a copy (`FreshInv`), and the buffer comes once, after everything a player
is sent before (`EarlyInv`). LaterWins speaks of players who have caught up;
`OrderInv` says it of everybody, and needs that the messages of a player's
current packet are its latest (`PacketInv`): a broadcast then delivers nothing
older than what somebody already has from the buffer. `OwnInv` has that a
player is not sent its own messages, because it joins before it sends.

`CompletionProofs` proves, for every set of workers and every number of
connections and of receives with data:

* `TypeCorrect`: `Spec => []TypeOK`, with `ThreadInv`: a thread is at a
  connection exactly while it handles it.
* `ReadsInvariant`: `Spec => []ReadsInv`, and from it `OneReadEach`
  (`[]OneRead`) and `ReadsStayAlive` (`[]ReadsAlive`).
* `AlwaysReachable`: `Spec => []Reachable`.
* `LifeInvariant`: `Spec => []LifeInv`, and with it
  `CompletionImplementsSessions`: `Spec => ImplementsSessions`.

OneRead is not inductive: `PostFirstRecv` posts a receive whatever there is, so
one must know that there is none while the player joins; and `FreeHandle`
empties a block, so ReadsAlive needs that no other receive's connection has that
block. `ReadsInv` says both, and that a connection not yet accepted is at no
thread. `Accept` keeps it because it takes a block that holds nobody. Sockets do
not occur in it: a socket closed by mistake through freed memory ends its
connection, but cannot make a second receive. `ReachInv` follows the one receive
or the one thread that will find the player gone. `LifeInv` adds that this
thread is the only one, from the join until the player is removed, which makes
`Stage` say all there is to say: a thread that is at a connection determines its
stage (`StageAt`), a step leaves the stages of all others alone (`OthersStay`),
and, with `NumberInv`, that until a number in use is given each player is in the
table under its own, so that `RemovePlayer` finds its own player and nobody
else. Each action is then one move of Sessions or none. That a freed block may
be another's by now matters in two places: `Accept` gives nobody but the new
connection life (`AcceptJoins`), and `FreeHandle` takes it from nobody but its
own (`FreeImplements`).

`RequestsProofs` proves, for every set of connections and every bound, the four
invariants of Requests. `FailureInv` gives `ExitsAreFailures`: no failure is
seen that no statement had. Whose failure it was is left open, and rightly so:
any handler's code may be in `rc` at the check. `ClockInv` gives `TimesNotStale`
and `PingsNotNegative`: whatever may still be stored is at least as new as
`oldest`, and a GetTimeNow that overlapped no other returns its own sample,
which is not older than the player's record. Types need `SampledInv`, as a time
that was never sampled is not a number.

`PropertiesProofs` proves, for every set of connections, tables and keys and
every number of messages:

* `TypeCorrect`: `Spec => []TypeOK`.
* `EmptyRoomsStartOver`: `Spec => []StartsOver`. A room without players that is
  not clear has a handler left that will clear it (`EmptyInv`), because only who
  has not begun to leave can set a property. This holds whomever numbers find.
* `NeverTakenBack`: `Spec => NeverBackwards`, from `ToldInvariant`. A message
  under way about an uncontested property carries the newest value that anybody
  has (`CarryInv`), so delivering it takes nothing back; the room information is
  sent to a client who has been told nothing (`StageInv`), because `isConnected`
  is set only afterwards. `NumberInv` has that until a reset with somebody in
  the room every number finds its own player.

The second half of the module proves what the room agrees on:

* `CopiesConverge`: `Spec => []Converged`.

Converged speaks of a room at rest. `AgreeInv` says what holds at any time of a
property that none of the three exceptions concerns: a connected client that
differs from the server has a message about it still to come (`Coming`: one that
it has sent itself and the server has not set yet, or one that the server has
set and not yet broadcast to it). At rest there is none. For this the message
must carry the value that its sender has and, once set, the server's
(`CarriedInv`), and a client that joins must come to the server's values through
the room information (`JoinerInv`): until its walk has passed a key, the key is
in `due`; once the information is sent it agrees with the server in everything.
`SendersInv` has that a broadcast skips only those whose information is yet to
be sent, `FreshInv` that nobody has heard of the properties of a player who has
not come, and `OneJoins` that one walk is under way. `WalkInv` says that a walk
that nothing raced finds neither more nor fewer keys than were counted. Until
the reset that is excepted, each step is one on its own player (`PlainSteps`),
as `NumberInv` shows: only then can one argue by connection.

`FramingProofs` proves, for every buffer length, every number of messages and
every set of message sizes of two tokens or more:

* `TypeCorrect`: `Spec => []TypeOK`.
* `FramingInvariant`: `Spec => []FramingInv`, and from it `HandledOnce`
  (`[]InOrder`) and `LosesNothing` (`[]Reassembled`).
* `FramingImplementsDelivery`: `Spec => ImplementsDelivery`.

The first half is about one text. The loops of `Split` and `HandleMessage` are
inductions over the text, and the library's induction theorems cannot be used;
`Least` takes their place: a set of numbers has a least element, so if a loop
failed to do its work from some token on there would be a last such token, and
there it does not fail. `Least` itself follows from two theorems of the library
that take no operator, that proper inclusion of finite sets is well founded and
that a well-founded relation has minimal elements. With it, `HandleMessageLoops`
shows that the recursive function of `HandleMessage` has a value at every token
as long as every signature's length is positive; `SplitEndsAlternates` that
`Split` comes to an end only on a text in which texts and `#` alternate;
`SplitAlternating` what its tokens then are; and `PieceHandled` what
`HandleMessage` makes of a text that is any piece of a stream of messages: it
handles exactly the messages that lie in the piece, whole and in order, and
resumes at one that begins in it and goes on behind it (`Handles`).

The second half is about the buffer. None of the properties is inductive, as the
state has forgotten what arrived before. `FramingInv` says that it can be
explained: there is a stream `T` of whole messages, `stream` is what of it has
not arrived (`Sent`), and the buffer's text is what lies behind some position of
it that no handled message reaches beyond (`Kept`). When the offset of the next
receive is the length of that text the next piece continues it; otherwise there
is a gap, and the C string is not as long as the buffer, so that a later move
cannot close the gap by accident. Without a bad cut there is no gap, and the
position is the end of a message, before which everything has been handled
(`Complete`). `FramingInv` has a stream in it that is no part of the state, so
TLC cannot evaluate it; the three invariants it implies are checked.

With this every safety invariant, every action property and every refinement
that the passing runs check is proved. Only model-checked are the liveness
properties HandlersFinish (Room), JoinsFinish and WorkersFinish (CatchUp),
ClosedLeave and WritesFreed (Completion), which are beyond the prover, and the
four violations, which are counterexamples.

Left to prove, if the project goes on: that Properties implements an abstract
specification of its own, as CatchUp does RoomLog, Framing does Delivery and
Completion does Sessions.

## Not modelled

`OpenServer`'s socket calls before its loop, console output, and the wording of
messages. What a database statement says, whether it parses and what the
database answers. `sqldisconn`, `ShowAll` and `ShowID` of `DBMS_NI`, `TimeCheck`
of `PingManager` and all of `DBManager`, which the running server does not call.
The test programs in `src/Client` and `src/SQLtest`, which have no part in it,
and the vendored SQLite. The length of a text matters only to the buffered
messages and is abstracted elsewhere.
