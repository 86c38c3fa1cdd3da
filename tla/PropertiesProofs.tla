-------------------------- MODULE PropertiesProofs --------------------------
(***************************************************************************)
(* Proofs about Properties, for every set of connections, of tables and of *)
(* keys, and every number of messages.                                     *)
(***************************************************************************)
EXTENDS Properties, TLAPS

USE DEF numberVars

JoinStep(c) ==
  \/ CreatePlayer(c)
  \/ \E t \in Table : EncodeTable(c, t)
  \/ \E k \in Key : EncodeEntry(c, k)
  \/ EndTable(c)
  \/ SendInfo(c)
  \/ MarkConnected(c)

PacketStep(c) ==
  \/ \E t \in Table, keys \in SUBSET Key : ReceiveSetHash(c, t, keys)
  \/ \E k \in Key : SetHash(c, k)
  \/ BeginBroadcast(c)
  \/ \E r \in Conn : Deliver(c, r)
  \/ EndBroadcast(c)

CloseStep(c) ==
  RemovePlayer(c) \/ CountPlayers(c) \/ Wipe(c) \/ Renumber(c)

LEMMA StepKinds ==
  ASSUME Next
  PROVE  \/ \E c \in Conn : JoinStep(c) /\ UNCHANGED up
         \/ \E c \in Conn : PacketStep(c) /\ UNCHANGED up
         \/ \E c \in Conn : CloseStep(c) /\ UNCHANGED up
         \/ \E c \in Conn : Crash(c)
  BY DEF Next, Step, JoinStep, PacketStep, CloseStep

Values == [Table -> [Key -> Nat]]

(* What nested updates come to.                                            *)
LEMMA NestedEntry ==
  ASSUME NEW f \in [Conn -> Values], NEW c \in Conn, NEW t \in Table,
         NEW k \in Key, NEW v \in Nat
  PROVE  [f EXCEPT ![c][t][k] = v] \in [Conn -> Values]
<1>1. f[c] \in Values /\ f[c][t] \in [Key -> Nat]
  BY DEF Values
<1>2. [f[c][t] EXCEPT ![k] = v] \in [Key -> Nat]
  BY <1>1
<1>3. [f[c] EXCEPT ![t] = [f[c][t] EXCEPT ![k] = v]] \in Values
  BY <1>1, <1>2 DEF Values
<1> QED
  BY <1>3

LEMMA NestedTable ==
  ASSUME NEW f \in [Conn -> Values], NEW c \in Conn, NEW t \in Table,
         NEW g \in [Key -> Nat]
  PROVE  [f EXCEPT ![c][t] = g] \in [Conn -> Values]
<1>1. [f[c] EXCEPT ![t] = g] \in Values
  BY DEF Values
<1> QED
  BY <1>1

LEMMA NestedFields ==
  ASSUME NEW c \in Conn, NEW k \in Key
  PROVE  /\ walk \in [Conn -> Walk \cup {NoWalk}] /\ walk[c] # NoWalk =>
              [walk EXCEPT ![c].seen = @ \cup {k}] \in [Conn -> Walk \cup {NoWalk}]
         /\ packet \in [Conn -> Packet] =>
              [packet EXCEPT ![c].left = @ \ {k}] \in [Conn -> Packet]
<1>1. ASSUME walk \in [Conn -> Walk \cup {NoWalk}], walk[c] # NoWalk
      PROVE  [walk EXCEPT ![c].seen = @ \cup {k}] \in [Conn -> Walk \cup {NoWalk}]
  <2>1. walk[c] \in Walk
    BY <1>1
  <2>2. [walk[c] EXCEPT !.seen = @ \cup {k}] \in Walk
    BY <2>1 DEF Walk
  <2> QED
    BY <1>1, <2>2
<1>2. ASSUME packet \in [Conn -> Packet]
      PROVE  [packet EXCEPT ![c].left = @ \ {k}] \in [Conn -> Packet]
  <2>1. packet[c] \in Packet
    BY <1>2
  <2>2. [packet[c] EXCEPT !.left = @ \ {k}] \in Packet
    BY <2>1 DEF Packet
  <2> QED
    BY <1>2, <2>2
<1> QED
  BY <1>1, <1>2

---------------------------------------------------------------------------
(* Types.                                                                  *)

LEMMA JoinTypes ==
  ASSUME TypeOK, NEW c \in Conn, JoinStep(c), UNCHANGED up
  PROVE  TypeOK'
<1> USE PropertiesAssumption
    DEF TypeOK, TableTypeOK, packetVars, historyVars, Steps, Goto
<1>1. CASE CreatePlayer(c)
  <2>1. TablesFor(c)' \subseteq Table
    BY DEF TablesFor
  <2>2. PICK seen \in SUBSET Conn :
          todo' = [w \in Conn |-> IF w \in seen THEN todo[w] \cup {c} ELSE todo[w]]
    BY <1>1 DEF CreatePlayer
  <2>3. todo' \in [Conn -> SUBSET Conn]
    BY <2>2
  <2>4. /\ tables' = [tables EXCEPT ![c] = TablesFor(c)']
        /\ pc' = [pc EXCEPT ![c] = "encoding"]
        /\ UNCHANGED <<customProperty, view, isConnected, walk, info, packet,
                       updates, contested, raced, wiped>>
    BY <1>1 DEF CreatePlayer
  <2>5. tables' \in [Conn -> SUBSET Table]
    BY <2>1, <2>4
  <2>6. /\ playerHash' \in SUBSET Conn /\ nextActorNumber' \in Nat
        /\ actorNumber' \in [Conn -> Nat]
    BY <1>1 DEF CreatePlayer, TakeNumber
  <2> QED
    BY <2>3, <2>4, <2>5, <2>6
<1>2. ASSUME NEW t \in Table, EncodeTable(c, t)
      PROVE  TypeOK'
  <2>1. BeginWalk(t) \in Walk
    BY DEF BeginWalk, Walk, KeysOf
  <2> QED
    BY <1>2, <2>1 DEF EncodeTable
<1>3. ASSUME NEW k \in Key, EncodeEntry(c, k)
      PROVE  TypeOK'
  <2>1. walk[c] \in Walk /\ walk[c].table \in Table
    BY <1>3 DEF EncodeEntry, Walk
  <2>2. /\ walk' = [walk EXCEPT ![c].seen = @ \cup {k}]
        /\ info' = [info EXCEPT ![c][walk[c].table][k] =
                      customProperty[walk[c].table][k]]
    BY <1>3 DEF EncodeEntry
  <2>3. walk' \in [Conn -> Walk \cup {NoWalk}]
    <3>1. walk \in [Conn -> Walk \cup {NoWalk}] /\ walk[c] # NoWalk
      BY <1>3 DEF EncodeEntry
    <3> HIDE DEF TypeOK
    <3> QED
      BY <2>2, <3>1, NestedFields
  <2>4. info' \in [Conn -> Values]
    <3>1. customProperty[walk[c].table][k] \in Nat /\ info \in [Conn -> Values]
      BY <2>1 DEF Values
    <3> HIDE DEF TypeOK
    <3> QED
      BY <2>1, <2>2, <3>1, NestedEntry
  <2> QED
    BY <1>3, <2>3, <2>4 DEF EncodeEntry, Values
<1>4. CASE EndTable(c)
  BY <1>4 DEF EndTable
<1>5. CASE SendInfo(c)
  <2>1. NoProperties \in [Table -> [Key -> Nat]]
    BY DEF NoProperties, Unset
  <2> QED
    BY <1>5, <2>1 DEF SendInfo
<1>6. CASE MarkConnected(c)
  BY <1>6 DEF MarkConnected
<1> QED
  BY <1>1, <1>2, <1>3, <1>4, <1>5, <1>6 DEF JoinStep

LEMMA PacketTypes ==
  ASSUME TypeOK, NEW c \in Conn, PacketStep(c), UNCHANGED up
  PROVE  TypeOK'
<1> USE PropertiesAssumption
    DEF TypeOK, TableTypeOK, joinVars, historyVars, Steps, Goto
<1>0. /\ packet[c].table \in Table /\ packet[c].value \in Nat
      /\ packet[c].keys \in SUBSET Key
  BY DEF Packet
<1>1. ASSUME NEW t \in Table, NEW keys \in SUBSET Key, ReceiveSetHash(c, t, keys)
      PROVE  TypeOK'
  <2>1. updates' \in 0 .. MaxUpdates /\ updates' \in Nat
    BY <1>1 DEF ReceiveSetHash
  <2>2. packet' \in [Conn -> Packet]
    BY <1>1, <2>1 DEF ReceiveSetHash, Packet
  <2>3. [k \in Key |-> IF k \in keys THEN updates' ELSE view[c][t][k]]
          \in [Key -> Nat]
    BY <2>1
  <2>4. view' \in [Conn -> Values]
    BY <1>1, <2>3, NestedTable DEF ReceiveSetHash, Values
  <2>5. contested' \in SUBSET Slot
    BY <1>1 DEF ReceiveSetHash, Slot
  <2> QED
    BY <1>1, <2>1, <2>2, <2>4, <2>5 DEF ReceiveSetHash, Values
<1>2. ASSUME NEW k \in Key, SetHash(c, k)
      PROVE  TypeOK'
  <2>2. packet' \in [Conn -> Packet]
    BY <1>2, NestedFields DEF SetHash
  <2>1. PICK t \in Found(packet[c].table) :
          /\ \/ t \in Table /\ SetProperty(t, k, packet[c].value)
             \/ customProperty' = customProperty
          /\ raced' = raced \cup {s \in {<<t, k>>} : t \in Table /\ Joining # {}}
    BY <1>2 DEF SetHash
  <2>3. customProperty' \in [Table -> [Key -> Nat]]
    <3>1. CASE t \in Table /\ SetProperty(t, k, packet[c].value)
      <4>1. [customProperty[t] EXCEPT ![k] = packet[c].value] \in [Key -> Nat]
        BY <1>0, <3>1
      <4> QED
        BY <3>1, <4>1 DEF SetProperty
    <3> QED
      BY <2>1, <3>1
  <2>4. raced' \in SUBSET Slot
    BY <2>1 DEF Slot
  <2> QED
    BY <1>2, <2>2, <2>3, <2>4 DEF SetHash
<1>3. CASE BeginBroadcast(c)
  BY <1>3 DEF BeginBroadcast, OthersOf
<1>4. ASSUME NEW r \in Conn, Deliver(c, r)
      PROVE  TypeOK'
  <2> DEFINE told == [k \in Key |-> IF k \in packet[c].keys
                        THEN packet[c].value ELSE view[r][packet[c].table][k]]
  <2>1. told \in [Key -> Nat]
    BY <1>0
  <2>2. [view EXCEPT ![r][packet[c].table] = told] \in [Conn -> Values]
    BY <1>0, <2>1, NestedTable DEF Values
  <2>3. view' \in [Conn -> Values]
    BY <1>4, <2>2 DEF Deliver, Values
  <2>4. todo' \in [Conn -> SUBSET Conn]
    BY <1>4 DEF Deliver
  <2> QED
    BY <1>4, <2>3, <2>4 DEF Deliver, Values
<1>5. CASE EndBroadcast(c)
  <2>1. NoPacket \in Packet
    BY DEF NoPacket, Packet, Unset
  <2> QED
    BY <1>5, <2>1 DEF EndBroadcast
<1> QED
  BY <1>1, <1>2, <1>3, <1>4, <1>5 DEF PacketStep

LEMMA CloseTypes ==
  ASSUME TypeOK, NEW c \in Conn, CloseStep(c), UNCHANGED up
  PROVE  TypeOK'
<1> USE PropertiesAssumption
    DEF TypeOK, TableTypeOK, joinVars, packetVars, historyVars, Steps, Goto
<1>1. CASE RemovePlayer(c)
  <2>1. NoProperties \in [Table -> [Key -> Nat]]
    BY DEF NoProperties, Unset
  <2> QED
    BY <1>1, <2>1 DEF RemovePlayer
<1>2. CASE CountPlayers(c)
  BY <1>2 DEF CountPlayers
<1>3. CASE Wipe(c)
  BY <1>3 DEF Wipe, RemoveAllProperties, Unset
<1>4. CASE Renumber(c)
  BY <1>4 DEF Renumber
<1> QED
  BY <1>1, <1>2, <1>3, <1>4 DEF CloseStep

(* Every variable keeps its type, whatever walks and updates meet.         *)
THEOREM TypeCorrect == Spec => []TypeOK
<1>1. Init => TypeOK
  <2> SUFFICES ASSUME Init PROVE TypeOK
    OBVIOUS
  <2>1. NoProperties \in [Table -> [Key -> Nat]] /\ NoPacket \in Packet
    BY PropertiesAssumption DEF NoProperties, NoPacket, Packet, Unset
  <2>2. TableTypeOK
    BY DEF Init, EmptyRoom, TableInit, TableTypeOK, Unset
  <2>3. updates \in 0 .. MaxUpdates
    BY PropertiesAssumption DEF Init, EmptyRoom
  <2> QED
    BY <2>1, <2>2, <2>3 DEF Init, EmptyRoom, TypeOK, Steps
<1>2. TypeOK /\ [Next]_vars => TypeOK'
  <2>1. TypeOK /\ UNCHANGED vars => TypeOK'
    BY DEF vars, joinVars, packetVars, historyVars, TypeOK, TableTypeOK
  <2>2. ASSUME TypeOK, NEW c \in Conn, Crash(c)
        PROVE  TypeOK'
    BY <2>2 DEF Crash, joinVars, packetVars, historyVars, TypeOK, TableTypeOK
  <2> QED
    BY <2>1, <2>2, JoinTypes, PacketTypes, CloseTypes, StepKinds
<1> QED
  BY <1>1, <1>2, PTL DEF Spec

---------------------------------------------------------------------------
(* Numbers.                                                                *)

(* Until the room is reset with somebody in it everybody in it is in the   *)
(* table under a number of its own, and whom a message names no newer      *)
(* player is found in place of.                                            *)
NamedInv ==
  \A c \in Members : pc[c] = "setting" /\ packet[c].table \in Conn =>
    /\ pc[packet[c].table] # "outside"
    /\ actorNumber[packet[c].table] < nextActorNumber
    /\ \A d \in Members : actorNumber[d] = actorNumber[packet[c].table] =>
         d = packet[c].table

NumbersInv ==
  /\ playerHash = Members
  /\ \A c \in Members : actorNumber[c] < nextActorNumber
  /\ \A c, d \in Members : actorNumber[c] = actorNumber[d] => c = d
  /\ NamedInv

NumberInv == playerHash \subseteq Members /\ (~wiped => NumbersInv)

(* A step that leaves the numbers alone, and who is in the room.           *)
LEMMA NumberKept ==
  ASSUME TypeOK, NumberInv, Members' = Members, UNCHANGED numberVars,
         wiped => wiped',
         \A c \in Conn : pc'[c] = "setting" =>
           pc[c] = "setting" /\ packet'[c].table = packet[c].table,
         \A c \in Conn : pc[c] # "outside" => pc'[c] # "outside"
  PROVE  NumberInv'
<1>1. Members \subseteq Conn
  BY DEF Members
<1> QED
  BY <1>1 DEF NumberInv, NumbersInv, NamedInv

(* A join takes a number that nobody has.                                  *)
LEMMA JoinNumbers ==
  ASSUME TypeOK, NumberInv, NEW c \in Conn, JoinStep(c), UNCHANGED up
  PROVE  NumberInv'
<1> USE DEF Goto, packetVars, historyVars
<1>0. pc \in [Conn -> Steps]
  BY DEF TypeOK
<1>1. CASE CreatePlayer(c)
  <2>1. /\ pc[c] = "outside" /\ pc' = [pc EXCEPT ![c] = "encoding"]
        /\ UNCHANGED <<packet, wiped>> /\ TakeNumber(c)
    BY <1>1 DEF CreatePlayer
  <2>2. Members' = Members \cup {c} /\ c \notin Members
    BY <1>0, <2>1 DEF Members
  <2>3. playerHash' \subseteq Members'
    BY <2>1, <2>2 DEF NumberInv, TakeNumber
  <2>4. ASSUME ~wiped
        PROVE  NumbersInv'
    <3>1. /\ actorNumber'[c] = nextActorNumber
          /\ \A d \in Conn \ {c} : actorNumber'[d] = actorNumber[d]
          /\ nextActorNumber' = nextActorNumber + 1 /\ nextActorNumber \in Nat
          /\ \A d \in Conn : actorNumber[d] \in Nat
      BY <2>1 DEF TakeNumber, TypeOK
    <3>2. NumbersInv /\ Members \subseteq Conn
      BY <2>4 DEF NumberInv, Members
    <3>3. Lookup(nextActorNumber) = {}
      BY <3>1, <3>2 DEF Lookup, NumbersInv
    <3>4. playerHash' = Members'
      BY <2>1, <2>2, <3>2, <3>3 DEF TakeNumber, NumbersInv
    <3>5. \A d \in Members' : actorNumber'[d] < nextActorNumber'
      BY <2>2, <3>1, <3>2 DEF NumbersInv
    <3>6. \A d, e \in Members' : actorNumber'[d] = actorNumber'[e] => d = e
      BY <2>2, <3>1, <3>2 DEF NumbersInv
    <3>7. NamedInv'
      <4> SUFFICES ASSUME NEW d \in Members', pc'[d] = "setting",
                          packet'[d].table \in Conn
                   PROVE  /\ pc'[packet'[d].table] # "outside"
                          /\ actorNumber'[packet'[d].table] < nextActorNumber'
                          /\ \A e \in Members' :
                               actorNumber'[e] = actorNumber'[packet'[d].table] =>
                                 e = packet'[d].table
        BY DEF NamedInv
      <4>1. d \in Members /\ pc[d] = "setting" /\ packet'[d] = packet[d]
        BY <1>0, <2>1, <2>2
      <4>2. /\ pc[packet[d].table] # "outside"
            /\ actorNumber[packet[d].table] < nextActorNumber
            /\ \A e \in Members : actorNumber[e] = actorNumber[packet[d].table] =>
                 e = packet[d].table
        BY <3>2, <4>1 DEF NumbersInv, NamedInv
      <4>3. packet[d].table # c
        BY <2>1, <4>2
      <4> QED
        BY <1>0, <2>1, <2>2, <3>1, <3>2, <4>1, <4>2, <4>3
    <3> QED
      BY <3>4, <3>5, <3>6, <3>7 DEF NumbersInv
  <2> QED
    BY <2>1, <2>3, <2>4 DEF NumberInv
<1>2. CASE ~CreatePlayer(c)
  <2>1. /\ UNCHANGED <<playerHash, actorNumber, nextActorNumber, packet, wiped>>
        /\ \A d \in Conn \ {c} : pc'[d] = pc[d]
        /\ \/ pc'[c] = pc[c]
           \/ pc[c] \in {"encoding", "sent"} /\ pc'[c] \in {"sent", "reading"}
    BY <1>0, <1>2 DEF JoinStep, EncodeTable, EncodeEntry, EndTable, SendInfo,
       MarkConnected
  <2>2. Members' = Members
    BY <2>1 DEF Members
  <2> QED
    BY <2>1, <2>2, NumberKept
<1> QED
  BY <1>1, <1>2

(* A message changes no number.                                            *)
LEMMA PacketNumbers ==
  ASSUME TypeOK, NumberInv, NEW c \in Conn, PacketStep(c), UNCHANGED up
  PROVE  NumberInv'
<1> USE DEF Goto, joinVars, historyVars
<1>0. pc \in [Conn -> Steps] /\ packet \in [Conn -> Packet]
  BY DEF TypeOK
<1>1. ASSUME NEW t \in Table, NEW keys \in SUBSET Key, ReceiveSetHash(c, t, keys)
      PROVE  NumberInv'
  <2>1. /\ pc[c] = "reading" /\ pc' = [pc EXCEPT ![c] = "setting"]
        /\ UNCHANGED <<playerHash, actorNumber, nextActorNumber, wiped>>
        /\ packet'[c].table = t
        /\ \A d \in Conn \ {c} : packet'[d] = packet[d]
        /\ t \in Held \cup {c}
    BY <1>0, <1>1 DEF ReceiveSetHash
  <2>2. Members' = Members /\ c \in Members /\ Members \subseteq Conn
    BY <1>0, <2>1 DEF Members
  <2>3. ASSUME ~wiped
        PROVE  NamedInv'
    <3>1. NumbersInv
      BY <2>3 DEF NumberInv
    <3>2. t \in Conn => t \in Members
      BY <2>1, <2>2, <3>1, PropertiesAssumption DEF Held, NumbersInv
    <3>3. \A d \in Members : pc[d] # "outside"
      BY DEF Members
    <3> SUFFICES ASSUME NEW d \in Members, pc'[d] = "setting",
                        packet'[d].table \in Conn
                 PROVE  /\ pc'[packet'[d].table] # "outside"
                        /\ actorNumber'[packet'[d].table] < nextActorNumber'
                        /\ \A e \in Members :
                             actorNumber'[e] = actorNumber'[packet'[d].table] =>
                               e = packet'[d].table
      BY <2>2 DEF NamedInv
    <3>4. CASE d = c
      BY <1>0, <2>1, <3>1, <3>2, <3>3, <3>4 DEF NumbersInv
    <3>5. CASE d # c
      BY <1>0, <2>1, <2>2, <3>1, <3>5 DEF NumbersInv, NamedInv
    <3> QED
      BY <3>4, <3>5
  <2> QED
    BY <2>1, <2>2, <2>3 DEF NumberInv, NumbersInv
<1>2. CASE ~\E t \in Table, keys \in SUBSET Key : ReceiveSetHash(c, t, keys)
  <2>1. UNCHANGED <<playerHash, actorNumber, nextActorNumber, wiped>>
    BY <1>2 DEF PacketStep, SetHash, BeginBroadcast, Deliver, EndBroadcast
  <2>2. \A d \in Conn \ {c} : packet'[d] = packet[d] /\ pc'[d] = pc[d]
    BY <1>0, <1>2 DEF PacketStep, SetHash, BeginBroadcast, Deliver, EndBroadcast
  <2>3. \/ /\ pc'[c] = "setting" /\ pc[c] = "setting"
           /\ packet'[c].table = packet[c].table
        \/ /\ pc[c] \in {"setting", "broadcasting"}
           /\ pc'[c] \in {"broadcasting", "reading"}
    <3>1. ASSUME NEW k \in Key, SetHash(c, k)
          PROVE  packet'[c].table = packet[c].table /\ pc' = pc
                 /\ pc[c] = "setting"
      BY <1>0, <3>1 DEF SetHash, Packet
    <3>2. CASE ~\E k \in Key : SetHash(c, k)
      BY <1>0, <1>2, <3>2 DEF PacketStep, BeginBroadcast, Deliver, EndBroadcast
    <3> QED
      BY <3>1, <3>2
  <2>4. Members' = Members
    BY <2>2, <2>3 DEF Members
  <2> QED
    BY <2>1, <2>2, <2>3, <2>4, NumberKept
<1> QED
  BY <1>1, <1>2

(* A departure leaves the others their numbers.                            *)
LEMMA CloseNumbers ==
  ASSUME TypeOK, NumberInv, NEW c \in Conn, CloseStep(c), UNCHANGED up
  PROVE  NumberInv'
<1> USE DEF Goto, joinVars, packetVars, historyVars
<1>0. pc \in [Conn -> Steps]
  BY DEF TypeOK
<1>1. CASE RemovePlayer(c)
  <2>1. /\ pc[c] = "reading" /\ pc' = [pc EXCEPT ![c] = "counting"]
        /\ UNCHANGED <<actorNumber, nextActorNumber, packet, wiped>>
        /\ playerHash' = playerHash \ Lookup(actorNumber[c])
    BY <1>1 DEF RemovePlayer
  <2>2. Members' = Members \ {c} /\ c \in Members /\ Members \subseteq Conn
    BY <1>0, <2>1 DEF Members
  <2>3. playerHash' \subseteq Members'
    BY <2>1, <2>2 DEF NumberInv, Lookup
  <2>4. ASSUME ~wiped
        PROVE  NumbersInv'
    <3>1. NumbersInv
      BY <2>4 DEF NumberInv
    <3>2. playerHash' = Members'
      BY <2>1, <2>2, <3>1 DEF NumbersInv, Lookup
    <3>3. NamedInv'
      BY <1>0, <2>1, <2>2, <3>1 DEF NumbersInv, NamedInv
    <3> QED
      BY <2>1, <2>2, <3>1, <3>2, <3>3 DEF NumbersInv
  <2> QED
    BY <2>1, <2>3, <2>4 DEF NumberInv
<1>2. CASE CountPlayers(c) \/ Wipe(c)
  <2>1. /\ UNCHANGED <<playerHash, actorNumber, nextActorNumber, packet>>
        /\ \A d \in Conn \ {c} : pc'[d] = pc[d]
        /\ pc[c] \in {"counting", "wiping"}
        /\ pc'[c] \in {"wiping", "renumbering", "gone"}
    BY <1>0, <1>2 DEF CountPlayers, Wipe
  <2>2. Members' = Members
    BY <2>1 DEF Members
  <2>3. wiped => wiped'
    BY <1>2 DEF CountPlayers, Wipe
  <2> QED
    BY <2>1, <2>2, <2>3, NumberKept
<1>3. CASE Renumber(c)
  <2>1. /\ pc[c] = "renumbering" /\ pc' = [pc EXCEPT ![c] = "gone"]
        /\ playerHash' = playerHash /\ (wiped \/ Members # {} => wiped')
    BY <1>3 DEF Renumber
  <2>2. Members' = Members
    BY <1>0, <2>1 DEF Members
  <2>3. ~wiped' => Members' = {} /\ playerHash' = {}
    BY <2>1, <2>2 DEF NumberInv
  <2> QED
    BY <2>1, <2>2, <2>3 DEF NumberInv, NumbersInv, NamedInv
<1> QED
  BY <1>1, <1>2, <1>3 DEF CloseStep

LEMMA NumberInvariant == Spec => []NumberInv
<1>1. Init => NumberInv
  BY DEF Init, EmptyRoom, NumberInv, NumbersInv, NamedInv, Members
<1>2. TypeOK /\ NumberInv /\ [Next]_vars => NumberInv'
  <2>1. ASSUME TypeOK, NumberInv, UNCHANGED vars
        PROVE  NumberInv'
    BY <2>1, NumberKept DEF vars, packetVars, historyVars, Members
  <2>2. ASSUME TypeOK, NumberInv, NEW c \in Conn, Crash(c)
        PROVE  NumberInv'
    BY <2>2, NumberKept DEF Crash, packetVars, historyVars, Members
  <2> QED
    BY <2>1, <2>2, JoinNumbers, PacketNumbers, CloseNumbers, StepKinds
<1> QED
  BY <1>1, <1>2, TypeCorrect, PTL DEF Spec

---------------------------------------------------------------------------
(* The room that empties.                                                  *)

(* A room that nobody is in and that is not clear has somebody left who    *)
(* will clear it.                                                          *)
EmptyInv == Members = {} => Closing # {} \/ KeysOf(Room) = {}

(* The last to leave finds the room empty and wipes it; a room in which    *)
(* somebody can set a property is not empty.                               *)
LEMMA EmptyStep ==
  ASSUME TypeOK, NumberInv, EmptyInv, NEW c \in Conn,
         JoinStep(c) \/ PacketStep(c) \/ CloseStep(c)
  PROVE  EmptyInv'
<1> SUFFICES ASSUME Members' = {}
             PROVE  Closing' # {} \/ KeysOf(Room)' = {}
  BY DEF EmptyInv
<1> USE DEF Goto
<1>0. pc \in [Conn -> Steps]
  BY DEF TypeOK
<1>1. CASE RemovePlayer(c)
  BY <1>0, <1>1 DEF RemovePlayer, Closing
<1>2. CASE CountPlayers(c)
  <2>1. /\ pc[c] = "counting" /\ pc' = [pc EXCEPT ![c] = "wiping"]
        \/ playerHash # {}
    BY <1>2 DEF CountPlayers
  <2>2. Members \subseteq Members'
    BY <1>0, <1>2 DEF CountPlayers, Members
  <2> QED
    BY <1>0, <2>1, <2>2 DEF NumberInv, Closing
<1>3. CASE Wipe(c)
  <2>1. \A k \in Key : customProperty'[Room][k] = Unset
    BY <1>3, PropertiesAssumption DEF Wipe, RemoveAllProperties, TypeOK,
       TableTypeOK
  <2> QED
    BY <2>1 DEF KeysOf
<1>4. CASE Renumber(c)
  <2>1. customProperty' = customProperty
    BY <1>4 DEF Renumber
  <2>2. Members' = Members /\ Closing' = Closing
    BY <1>0, <1>4 DEF Renumber, Members, Closing
  <2> QED
    BY <2>1, <2>2 DEF EmptyInv, KeysOf
<1>5. CASE JoinStep(c) \/ PacketStep(c)
  <2>1. /\ UNCHANGED <<customProperty, pc>>
        \/ c \in Members'
    BY <1>0, <1>5 DEF JoinStep, CreatePlayer, EncodeTable, EncodeEntry,
       EndTable, SendInfo, MarkConnected, PacketStep, ReceiveSetHash, SetHash,
       BeginBroadcast, Deliver, EndBroadcast, Members
  <2> QED
    BY <2>1 DEF EmptyInv, KeysOf, Members, Closing
<1> QED
  BY <1>1, <1>2, <1>3, <1>4, <1>5 DEF CloseStep

LEMMA EmptyInvariant == Spec => []EmptyInv
<1>1. Init => EmptyInv
  BY PropertiesAssumption DEF Init, EmptyRoom, TableInit, EmptyInv, KeysOf
<1>2. TypeOK /\ NumberInv /\ EmptyInv /\ [Next]_vars => EmptyInv'
  <2>1. EmptyInv /\ UNCHANGED vars => EmptyInv'
    BY DEF vars, EmptyInv, Members, Closing, KeysOf
  <2>2. ASSUME EmptyInv, NEW c \in Conn, Crash(c)
        PROVE  EmptyInv'
    BY <2>2 DEF Crash, EmptyInv, Members, Closing, KeysOf
  <2> QED
    BY <2>1, <2>2, EmptyStep, StepKinds
<1> QED
  BY <1>1, <1>2, TypeCorrect, NumberInvariant, PTL DEF Spec

(* Once the last departure is done an empty room's table is clear, however *)
(* departures and joins overlapped and whomever the numbers found.         *)
THEOREM EmptyRoomsStartOver == Spec => []StartsOver
<1>1. EmptyInv => StartsOver
  BY DEF EmptyInv, StartsOver
<1> QED
  BY <1>1, EmptyInvariant, PTL

---------------------------------------------------------------------------
(* What clients are told.                                                  *)

Carries(c, t, k) == packet[c].table = t /\ k \in packet[c].keys

(* Nobody, the server included, has a later value of a property than v.    *)
AtMost(t, k, v) ==
  /\ customProperty[t][k] <= v
  /\ \A c \in Conn : info[c][t][k] <= v /\ view[c][t][k] <= v

(* Updates are numbered as they come.                                      *)
NewestInv ==
  /\ \A c \in Conn : packet[c].value <= updates
  /\ \A t \in Table, k \in Key : AtMost(t, k, updates)

(* A property whose messages are told apart: those about a player's name   *)
(* that player until the room is reset with somebody in it.                *)
Distinct(t) == t = Room \/ ~wiped

(* A message under way about an uncontested property is the only one, and  *)
(* the newest.                                                             *)
CarryInv ==
  \A t \in Table, k \in Key, c \in Conn :
    Carries(c, t, k) /\ Distinct(t) /\ <<t, k>> \notin contested =>
      /\ AtMost(t, k, packet[c].value)
      /\ \A d \in Conn : Carries(d, t, k) => d = c

(* A message is under way while its handler is at it, and nothing has been *)
(* sent to those who have not been sent the room information.              *)
StageInv ==
  \A c \in Conn :
    /\ packet[c].left \subseteq packet[c].keys
    /\ pc[c] \notin {"setting", "broadcasting"} => packet[c].keys = {}
    /\ isConnected[c] => pc[c] \in {"reading", "setting", "broadcasting"}
    /\ pc[c] \in {"outside", "encoding"} => view[c] = NoProperties

ToldInv == NewestInv /\ CarryInv /\ StageInv

(* The action property's formula.                                          *)
Forward ==
  \A r \in playerHash' : \A s \in Slot \ contested :
    s[1] = Room \/ ~wiped' =>
      view'[r][s[1]][s[2]] >= view[r][s[1]][s[2]]

LEMMA ValuesAreNat ==
  ASSUME TypeOK, NEW t \in Table, NEW k \in Key, NEW c \in Conn
  PROVE  /\ customProperty[t][k] \in Nat
         /\ info[c][t][k] \in Nat /\ view[c][t][k] \in Nat
         /\ packet[c].value \in Nat /\ updates \in Nat
         /\ packet[c].table \in Table /\ packet[c].keys \subseteq Key
  BY PropertiesAssumption DEF TypeOK, TableTypeOK, Packet

(* If no value but the server's or a client's is copied and no message     *)
(* begins, the values keep below those of the messages.                    *)
LEMMA CopyStep ==
  ASSUME TypeOK, TypeOK', NewestInv, CarryInv,
         updates' = updates, contested' = contested, wiped => wiped',
         \A c \in Conn : \/ /\ packet'[c].table = packet[c].table
                            /\ packet'[c].keys = packet[c].keys
                            /\ packet'[c].value = packet[c].value
                         \/ packet'[c] = NoPacket,
         \A t \in Table, k \in Key :
           AtMost(t, k, updates) => AtMost(t, k, updates)',
         \A t \in Table, k \in Key, v \in Nat :
           Distinct(t) /\ AtMost(t, k, v) =>
             AtMost(t, k, v)' \/ \E c \in Conn :
                                  Carries(c, t, k) /\ ~(packet[c].value <= v)
  PROVE  NewestInv' /\ CarryInv'
<1>1. updates \in Nat /\ \A c \in Conn : packet[c].value \in Nat
  BY PropertiesAssumption DEF TypeOK, Packet
<1>2. \A c \in Conn : packet'[c].value <= updates
  BY <1>1 DEF NewestInv, NoPacket, Unset
<1>3. \A t \in Table, k \in Key : AtMost(t, k, updates)'
  BY DEF NewestInv
<1>4. ASSUME NEW t \in Table, NEW k \in Key, NEW c \in Conn,
             Carries(c, t, k)', Distinct(t)', <<t, k>> \notin contested
      PROVE  /\ AtMost(t, k, packet[c].value)' 
             /\ \A d \in Conn : Carries(d, t, k)' => d = c
  <2>1. \A d \in Conn : Carries(d, t, k)' =>
          Carries(d, t, k) /\ packet'[d].value = packet[d].value
    BY DEF Carries, NoPacket
  <2>0. Distinct(t)
    BY <1>4 DEF Distinct
  <2>2. /\ AtMost(t, k, packet[c].value)
        /\ \A d \in Conn : Carries(d, t, k) => d = c
    BY <1>4, <2>0, <2>1 DEF CarryInv
  <2>3. ~ \E d \in Conn : Carries(d, t, k) /\ ~(packet[d].value <= packet[c].value)
    BY <1>1, <2>2
  <2>5. packet'[c].value = packet[c].value
    BY <1>4, <2>1
  <2>6. PICK v \in Nat : v = packet[c].value
    BY <1>1
  <2>7. AtMost(t, k, v)'
    BY <2>0, <2>2, <2>3, <2>6
  <2> QED
    BY <2>1, <2>2, <2>5, <2>6, <2>7 DEF AtMost
<1> QED
  BY <1>2, <1>3, <1>4 DEF NewestInv, CarryInv

(* No step of a join makes a value later, and the room information comes   *)
(* to a client who has been told nothing.                                  *)
LEMMA JoinTold ==
  ASSUME TypeOK, TypeOK', ToldInv, NEW c \in Conn, JoinStep(c)
  PROVE  ToldInv' /\ Forward
<1> USE DEF ToldInv, packetVars, historyVars, Goto
<1>1. UNCHANGED <<customProperty, packet, updates, contested, wiped>>
  BY DEF JoinStep, CreatePlayer, EncodeTable, EncodeEntry, EndTable, SendInfo,
         MarkConnected
<1>2. CASE UNCHANGED <<info, view>>
  <2>1. NewestInv' /\ CarryInv'
    BY <1>1, <1>2, CopyStep DEF AtMost
  <2>2. \/ pc' = pc /\ isConnected' = isConnected
        \/ /\ pc[c] = "outside" /\ pc' = [pc EXCEPT ![c] = "encoding"]
           /\ isConnected' = isConnected
        \/ /\ pc[c] = "sent" /\ pc' = [pc EXCEPT ![c] = "reading"]
           /\ isConnected' = [isConnected EXCEPT ![c] = TRUE]
        \/ pc[c] = "encoding" /\ pc' = [pc EXCEPT ![c] = "sent"]
           /\ isConnected' = isConnected
    BY DEF JoinStep, CreatePlayer, EncodeTable, EncodeEntry, EndTable, SendInfo,
           MarkConnected
  <2>3. StageInv'
    BY <1>1, <1>2, <2>2 DEF StageInv, TypeOK
  <2>4. Forward
    BY <1>2, ValuesAreNat DEF Forward, Slot, TypeOK
  <2> QED
    BY <2>1, <2>3, <2>4
<1>3. ASSUME NEW k \in Key, EncodeEntry(c, k)
      PROVE  ToldInv' /\ Forward
  <2>1. /\ walk[c].table \in Table /\ UNCHANGED <<view, pc, isConnected>>
        /\ info' = [info EXCEPT ![c][walk[c].table][k] =
                      customProperty[walk[c].table][k]]
    BY <1>3 DEF EncodeEntry, TypeOK, Walk
  <2>2. \A d \in Conn, t \in Table, l \in Key :
          info'[d][t][l] \in {info[d][t][l], customProperty[t][l]}
    BY <2>1 DEF TypeOK
  <2>3. NewestInv' /\ CarryInv'
    BY <1>1, <2>1, <2>2, CopyStep DEF AtMost
  <2>4. StageInv'
    BY <1>1, <2>1 DEF StageInv
  <2>5. Forward
    BY <2>1, ValuesAreNat DEF Forward, Slot, TypeOK
  <2> QED
    BY <2>3, <2>4, <2>5
<1>4. CASE SendInfo(c)
  <2>1. /\ pc[c] = "encoding" /\ pc' = [pc EXCEPT ![c] = "sent"]
        /\ view' = [view EXCEPT ![c] = info[c]]
        /\ info' = [info EXCEPT ![c] = NoProperties]
        /\ UNCHANGED <<isConnected, playerHash>>
    BY <1>4 DEF SendInfo
  <2>2. \A d \in Conn, t \in Table, k \in Key :
          /\ view'[d][t][k] \in {view[d][t][k], info[d][t][k]}
          /\ info'[d][t][k] \in {info[d][t][k], 0}
    BY <2>1 DEF TypeOK, NoProperties, Unset
  <2>3. NewestInv' /\ CarryInv'
    <3>1. updates \in Nat
      BY PropertiesAssumption DEF TypeOK
    <3> QED
      BY <1>1, <2>2, <3>1, CopyStep DEF AtMost
  <2>4. StageInv'
    BY <1>1, <2>1 DEF StageInv, TypeOK
  <2>5. \A d \in Conn, t \in Table, k \in Key :
          view'[d][t][k] >= view[d][t][k]
    <3>1. \A t \in Table, k \in Key : view[c][t][k] = 0
      BY <2>1 DEF StageInv, NoProperties, Unset
    <3>2. \A d \in Conn \ {c} : view'[d] = view[d]
      BY <2>1 DEF TypeOK
    <3>3. \A t \in Table, k \in Key : view'[c][t][k] = info[c][t][k]
      BY <2>1 DEF TypeOK
    <3> QED
      BY <3>1, <3>2, <3>3, ValuesAreNat
  <2>6. Forward
    BY <2>1, <2>5 DEF Forward, Slot, TypeOK
  <2> QED
    BY <2>3, <2>4, <2>6
<1> QED
  BY <1>2, <1>3, <1>4 DEF JoinStep, CreatePlayer, EncodeTable, EndTable,
     MarkConnected, joinVars

LEMMA CloseTold ==
  ASSUME TypeOK, TypeOK', ToldInv, NEW c \in Conn, CloseStep(c)
  PROVE  ToldInv' /\ Forward
<1> USE DEF ToldInv, joinVars, packetVars, historyVars, Goto
<1>1. UNCHANGED <<info, packet, updates, contested>>
  BY DEF CloseStep, RemovePlayer, CountPlayers, Wipe, Renumber
<1>0. wiped => wiped'
  BY DEF CloseStep, RemovePlayer, CountPlayers, Wipe, Renumber
<1>2. \/ /\ UNCHANGED <<customProperty, view, isConnected>>
         /\ pc[c] \in {"counting", "renumbering"} /\ pc'[c] \in {"wiping", "gone"}
      \/ /\ UNCHANGED <<view, isConnected>>
         /\ pc[c] = "wiping" /\ pc'[c] = "renumbering"
         /\ customProperty' = [customProperty EXCEPT ![Room] =
                                [k \in Key |-> Unset]]
      \/ /\ UNCHANGED customProperty /\ pc[c] = "reading" /\ pc'[c] = "counting"
         /\ view' = [view EXCEPT ![c] = NoProperties] /\ c \notin playerHash'
         /\ isConnected' = [isConnected EXCEPT ![c] = FALSE]
  BY DEF CloseStep, RemovePlayer, CountPlayers, Wipe, RemoveAllProperties,
     Renumber, Lookup, TypeOK
<1>3. \A d \in Conn \ {c} : pc'[d] = pc[d]
  BY DEF CloseStep, RemovePlayer, CountPlayers, Wipe, Renumber, TypeOK
<1>4. \A t \in Table, k \in Key :
        /\ customProperty'[t][k] \in {customProperty[t][k], 0}
        /\ \A d \in Conn : view'[d][t][k] \in {view[d][t][k], 0}
  BY <1>2 DEF TypeOK, TableTypeOK, NoProperties, Unset
<1>5. NewestInv' /\ CarryInv'
  <2>1. updates \in Nat
    BY PropertiesAssumption DEF TypeOK
  <2> QED
    BY <1>0, <1>1, <1>4, <2>1, CopyStep DEF AtMost
<1>6. StageInv'
  BY <1>1, <1>2, <1>3 DEF StageInv, TypeOK
<1>7. \A r \in playerHash' : view'[r] = view[r]
  BY <1>2 DEF TypeOK
<1>8. Forward
  BY <1>7, ValuesAreNat DEF Forward, Slot, TypeOK
<1> QED
  BY <1>5, <1>6, <1>8

(* A message is newer than all others when it comes; what it sets and      *)
(* sends is its own value.                                                 *)
LEMMA PacketTold ==
  ASSUME TypeOK, TypeOK', NumberInv, ToldInv, NEW c \in Conn, PacketStep(c)
  PROVE  ToldInv' /\ Forward
<1> USE DEF ToldInv, joinVars, historyVars, Goto
<1>1. ASSUME NEW t \in Table, NEW keys \in SUBSET Key, ReceiveSetHash(c, t, keys)
      PROVE  ToldInv' /\ Forward
  <2>1. /\ updates' = updates + 1 /\ pc[c] = "reading"
        /\ pc' = [pc EXCEPT ![c] = "setting"]
        /\ packet' = [packet EXCEPT ![c] = [table |-> t, keys |-> keys,
                                            left |-> keys, value |-> updates']]
        /\ view' = [view EXCEPT ![c][t] =
                      [k \in Key |-> IF k \in keys THEN updates' ELSE @[k]]]
        /\ UNCHANGED <<customProperty, info, isConnected, wiped>>
    BY <1>1 DEF ReceiveSetHash
  <2>2. \A u \in Table, k \in Key :
          /\ <<u, k>> \in contested' <=>
               \/ <<u, k>> \in contested
               \/ u = t /\ k \in keys /\ \E d \in Conn : Carries(d, u, k)
    BY <1>1 DEF ReceiveSetHash, Carries
  <2>3. \A u \in Table, k \in Key :
          /\ u = t /\ k \in keys => view'[c][u][k] = updates + 1
          /\ ~(u = t /\ k \in keys) => view'[c][u][k] = view[c][u][k]
          /\ \A d \in Conn \ {c} : view'[d][u][k] = view[d][u][k]
    BY <2>1 DEF TypeOK
  <2>4. /\ packet'[c].table = t /\ packet'[c].keys = keys
        /\ packet'[c].left = keys /\ packet'[c].value = updates + 1
        /\ \A d \in Conn \ {c} : packet'[d] = packet[d]
    BY <2>1 DEF TypeOK
  <2>5. \A u \in Table, k \in Key :
          AtMost(u, k, updates) /\ AtMost(u, k, updates)'
    <3> SUFFICES ASSUME NEW u \in Table, NEW k \in Key
                 PROVE  AtMost(u, k, updates) /\ AtMost(u, k, updates)'
      OBVIOUS
    <3>1. AtMost(u, k, updates)
      BY DEF NewestInv
    <3>2. /\ updates \in Nat /\ customProperty[u][k] \in Nat
          /\ \A d \in Conn : info[d][u][k] \in Nat /\ view[d][u][k] \in Nat
      BY ValuesAreNat
    <3>3. \A d \in Conn : view'[d][u][k] \in {view[d][u][k], updates + 1}
      BY <2>3
    <3> QED
      BY <2>1, <3>1, <3>2, <3>3 DEF AtMost
  <2>6. NewestInv'
    <3>1. updates \in Nat /\ \A d \in Conn : packet[d].value \in Nat
      BY PropertiesAssumption DEF TypeOK, Packet
    <3>2. \A d \in Conn : packet'[d].value <= updates'
      BY <2>1, <2>4, <3>1 DEF NewestInv
    <3> QED
      BY <2>5, <3>2 DEF NewestInv
  <2>7. packet[c].keys = {}
    BY <2>1 DEF StageInv
  <2>8. CarryInv'
    <3> SUFFICES ASSUME NEW u \in Table, NEW k \in Key, NEW d \in Conn,
                        Carries(d, u, k)', Distinct(u)', <<u, k>> \notin contested'
                 PROVE  /\ AtMost(u, k, packet[d].value)'
                        /\ \A e \in Conn : Carries(e, u, k)' => e = d
      BY DEF CarryInv
    <3>1. CASE u = t /\ k \in keys
      <4>1. \A e \in Conn : ~Carries(e, u, k)
        BY <2>2, <3>1
      <4>2. \A e \in Conn : Carries(e, u, k)' => e = c
        BY <2>4, <4>1 DEF Carries
      <4>3. d = c /\ packet'[d].value = updates'
        BY <2>1, <2>4, <4>2
      <4> QED
        BY <2>5, <4>2, <4>3 DEF AtMost
    <3>2. CASE ~(u = t /\ k \in keys)
      <4>1. \A e \in Conn : Carries(e, u, k)' =>
              e # c /\ Carries(e, u, k) /\ packet'[e] = packet[e]
        BY <2>4, <3>2 DEF Carries
      <4>2. AtMost(u, k, packet[d].value)
            /\ \A e \in Conn : Carries(e, u, k) => e = d
        BY <2>1, <2>2, <4>1 DEF CarryInv, Distinct
      <4> QED
        BY <2>1, <2>3, <3>2, <4>1, <4>2 DEF AtMost
    <3> QED
      BY <3>1, <3>2
  <2>9. StageInv'
    BY <2>1, <2>4 DEF StageInv, TypeOK
  <2>10. Forward
    <3>1. ASSUME NEW r \in Conn, NEW u \in Table, NEW k \in Key
          PROVE  view'[r][u][k] >= view[r][u][k]
      <4>1. view[r][u][k] <= updates /\ updates \in Nat /\ view[r][u][k] \in Nat
        BY <2>5, ValuesAreNat DEF AtMost
      <4> QED
        BY <2>3, <4>1
    <3> QED
      BY <3>1 DEF Forward, Slot, TypeOK
  <2> QED
    BY <2>6, <2>8, <2>9, <2>10
<1>2. ASSUME NEW k \in Key, SetHash(c, k)
      PROVE  ToldInv' /\ Forward
  <2>1. PICK t \in Found(packet[c].table) :
          \/ t \in Table /\ SetProperty(t, k, packet[c].value)
          \/ customProperty' = customProperty
    BY <1>2 DEF SetHash
  <2>2. /\ pc[c] = "setting" /\ k \in packet[c].left
        /\ packet' = [packet EXCEPT ![c].left = @ \ {k}]
        /\ UNCHANGED <<pc, view, info, isConnected, updates, contested, wiped>>
    BY <1>2 DEF SetHash
  <2>3. /\ \A d \in Conn \ {c} : packet'[d] = packet[d]
        /\ packet'[c] = [packet[c] EXCEPT !.left = @ \ {k}]
    BY <2>2 DEF TypeOK
  <2>4. /\ packet'[c].table = packet[c].table
        /\ packet'[c].keys = packet[c].keys
        /\ packet'[c].value = packet[c].value
        /\ packet'[c].left \subseteq packet[c].left
    BY <2>3 DEF TypeOK, Packet
  <2>5. Distinct(t) => t = packet[c].table
    <3>1. CASE packet[c].table = Room
      BY <2>1, <3>1 DEF Found
    <3>2. CASE packet[c].table # Room
      <4>1. t \in playerHash /\ actorNumber[t] = actorNumber[packet[c].table]
        BY <2>1, <3>2 DEF Found, Lookup
      <4>2. t # Room /\ packet[c].table \in Conn
        BY <3>2, <4>1, PropertiesAssumption DEF TypeOK, Packet
      <4>3. c \in Members
        BY <2>2 DEF Members
      <4> QED
        BY <2>2, <4>1, <4>2, <4>3 DEF Distinct, NumberInv, NumbersInv, NamedInv
    <3> QED
      BY <3>1, <3>2
  <2>6. \A u \in Table, l \in Key :
          \/ customProperty'[u][l] = customProperty[u][l]
          \/ u = t /\ l = k /\ customProperty'[u][l] = packet[c].value
    BY <2>1 DEF SetProperty, TypeOK, TableTypeOK
  <2>7. t \in Table /\ Distinct(t) => Carries(c, t, k)
    BY <2>2, <2>5 DEF StageInv, Carries
  <2>8. NewestInv' /\ CarryInv'
    <3>1. packet[c].value <= updates
      BY DEF NewestInv
    <3> QED
      BY <2>2, <2>3, <2>4, <2>6, <2>7, <3>1, CopyStep DEF AtMost
  <2>9. StageInv'
    BY <2>2, <2>3, <2>4 DEF StageInv
  <2>10. Forward
    BY <2>2, ValuesAreNat DEF Forward, Slot, TypeOK
  <2> QED
    BY <2>8, <2>9, <2>10
<1>3. ASSUME NEW r \in Conn, Deliver(c, r)
      PROVE  ToldInv' /\ Forward
  <2>1. PICK t \in Table : t = packet[c].table
    BY DEF TypeOK, Packet
  <2>2. /\ UNCHANGED <<pc, customProperty, packet, info, isConnected, updates,
                       contested, wiped>>
        /\ \/ view' = view
           \/ isConnected[r] /\
              view' = [view EXCEPT ![r][t] =
                        [k \in Key |-> IF k \in packet[c].keys
                                       THEN packet[c].value ELSE @[k]]]
    BY <1>3, <2>1 DEF Deliver
  <2>3. \A d \in Conn, u \in Table, k \in Key :
          \/ view'[d][u][k] = view[d][u][k]
          \/ /\ Carries(c, u, k) /\ view'[d][u][k] = packet[c].value
    <3> SUFFICES ASSUME NEW d \in Conn, NEW u \in Table, NEW k \in Key,
                        view'[d][u][k] # view[d][u][k]
                 PROVE  Carries(c, u, k) /\ view'[d][u][k] = packet[c].value
      OBVIOUS
    <3>1. d = r /\ u = t
      BY <2>2 DEF TypeOK
    <3>2. view'[r][t] = [l \in Key |-> IF l \in packet[c].keys
                         THEN packet[c].value ELSE view[r][t][l]]
      <4>1. view' # view
        BY <3>1
      <4>2. view' = [view EXCEPT ![r][t] = [l \in Key |->
                       IF l \in packet[c].keys THEN packet[c].value ELSE @[l]]]
        BY <2>2, <4>1
      <4>3. view \in [Conn -> [Table -> [Key -> Nat]]]
        BY DEF TypeOK
      <4> QED
        BY <4>2, <4>3
    <3> QED
      BY <2>1, <3>1, <3>2 DEF Carries
  <2>4. NewestInv' /\ CarryInv'
    <3>1. packet[c].value <= updates
      BY DEF NewestInv
    <3> QED
      BY <2>2, <2>3, <3>1, CopyStep DEF AtMost
  <2>5. StageInv'
    <3>1. \A d \in Conn : view'[d] = view[d] \/ (d = r /\ isConnected[r])
      BY <2>2 DEF TypeOK
    <3> QED
      BY <2>2, <3>1 DEF StageInv
  <2>6. ASSUME NEW d \in Conn, NEW u \in Table, NEW k \in Key,
               <<u, k>> \notin contested, Distinct(u)
        PROVE  view'[d][u][k] >= view[d][u][k]
    <3>1. view[d][u][k] \in Nat /\ packet[c].value \in Nat
      BY ValuesAreNat
    <3>2. Carries(c, u, k) => view[d][u][k] <= packet[c].value
      BY <2>6 DEF CarryInv, AtMost
    <3> QED
      BY <2>3, <3>1, <3>2
  <2>7. Forward
    BY <2>2, <2>6 DEF Forward, Distinct, Slot, TypeOK
  <2> QED
    BY <2>4, <2>5, <2>7
<1>4. CASE BeginBroadcast(c) \/ EndBroadcast(c)
  <2>1. /\ UNCHANGED <<customProperty, info, view, isConnected, updates,
                       contested, wiped>>
        /\ \A d \in Conn \ {c} : packet'[d] = packet[d] /\ pc'[d] = pc[d]
        /\ \/ packet'[c] = packet[c] /\ pc[c] = "setting"
              /\ pc'[c] = "broadcasting"
           \/ packet'[c] = NoPacket /\ pc'[c] = "reading"
              /\ pc[c] = "broadcasting"
    BY <1>4 DEF BeginBroadcast, EndBroadcast, TypeOK
  <2>2. NewestInv' /\ CarryInv'
    BY <2>1, CopyStep DEF AtMost
  <2>3. StageInv'
    BY <2>1 DEF StageInv, NoPacket
  <2>4. Forward
    BY <2>1, ValuesAreNat DEF Forward, Slot, TypeOK
  <2> QED
    BY <2>2, <2>3, <2>4
<1> QED
  BY <1>1, <1>2, <1>3, <1>4 DEF PacketStep

(* The invariant of what is told.                                          *)
THEOREM ToldInvariant == Spec => []ToldInv
<1>1. Init => ToldInv
  <2> SUFFICES ASSUME Init PROVE ToldInv
    OBVIOUS
  <2>1. /\ \A c \in Conn : packet[c].value = 0 /\ packet[c].keys = {}
        /\ \A c \in Conn : packet[c].left = {}
        /\ updates = 0
    BY DEF Init, EmptyRoom, NoPacket, Unset
  <2>2. \A t \in Table, k \in Key : AtMost(t, k, 0)
    BY DEF Init, EmptyRoom, TableInit, NoProperties, AtMost, Unset
  <2> QED
    BY <2>1, <2>2 DEF Init, EmptyRoom, ToldInv, NewestInv, CarryInv, Carries,
                         StageInv
<1>2. TypeOK /\ TypeOK' /\ NumberInv /\ ToldInv /\ [Next]_vars => ToldInv'
  <2>1. ToldInv /\ UNCHANGED vars => ToldInv'
    BY DEF vars, joinVars, packetVars, historyVars, ToldInv, NewestInv,
           CarryInv, Carries, Distinct, AtMost, StageInv
  <2>2. ASSUME ToldInv, NEW c \in Conn, Crash(c)
        PROVE  ToldInv'
    BY <2>2 DEF Crash, joinVars, packetVars, historyVars, ToldInv, NewestInv,
         CarryInv, Carries, Distinct, AtMost, StageInv
  <2> QED
    BY <2>1, <2>2, JoinTold, PacketTold, CloseTold, StepKinds
<1> QED
  BY <1>1, <1>2, TypeCorrect, NumberInvariant, PTL DEF Spec

(* What a client is told of an uncontested property never goes back, and   *)
(* no broadcast is overtaken by the room information; of players'          *)
(* properties until the room is reset with somebody in it.                 *)
THEOREM NeverTakenBack == Spec => NeverBackwards
<1>1. TypeOK /\ TypeOK' /\ NumberInv /\ ToldInv /\ [Next]_vars => [Forward]_vars
  <2>1. ASSUME TypeOK, NEW c \in Conn, Crash(c)
        PROVE  Forward
    BY <2>1, ValuesAreNat DEF Crash, Forward, Slot, TypeOK
  <2> QED
    BY <2>1, JoinTold, PacketTold, CloseTold, StepKinds
<1> QED
  BY <1>1, TypeCorrect, NumberInvariant, ToldInvariant, PTL
     DEF Spec, NeverBackwards, Forward

---------------------------------------------------------------------------
(* Why the copies of the properties agree once everything has come to      *)
(* rest.                                                                   *)

(* The players whom broadcasts are sent to.                                *)
Connected(r) == pc[r] \in {"reading", "setting", "broadcasting"}

(* The room information is made for one player at a time.                  *)
OneJoins ==
  /\ \A c, d \in Joining : c = d
  /\ \A c \in Conn : pc[c] # "encoding" =>
       tables[c] = {} /\ walk[c] = NoWalk /\ info[c] = NoProperties
  /\ \A c \in Conn : \A t \in tables[c] : info[c][t] = [k \in Key |-> Unset]
  /\ \A c \in Conn : walk[c] # NoWalk =>
       /\ walk[c].table \notin tables[c]
       /\ \A k \in Key \ walk[c].seen : info[c][walk[c].table][k] = Unset

(* A message has a value, and keys left only while they are being set.     *)
SendersInv ==
  \A c \in Conn :
    /\ isConnected[c] <=> Connected(c)
    /\ pc[c] = "broadcasting" => packet[c].left = {}
    /\ packet[c].keys # {} => packet[c].value # Unset

(* Nobody has heard of the properties of a player who has not come yet.    *)
FreshInv ==
  \A t \in Table : t \in Conn /\ pc[t] = "outside" =>
    \A k \in Key : AtMost(t, k, Unset) /\ \A c \in Conn : ~Carries(c, t, k)

(* A walk loses none of its keys.                                          *)
WalkInv ==
  \A c \in Conn : walk[c] # NoWalk => walk[c].due \subseteq KeysOf(walk[c].table)

(* A property about which nothing has run that the claim excepts.          *)
Quiet(t, k) == ~wiped /\ t \in Held /\ <<t, k>> \notin contested \cup raced

(* A message still to come by: k is left and r has sent it, or it is set   *)
(* or being sent and r is another.                                         *)
Coming(c, r, t, k) ==
  /\ Carries(c, t, k)
  /\ \/ k \in packet[c].left /\ r = c
     \/ k \notin packet[c].left /\ pc[c] = "setting" /\ r # c
     \/ pc[c] = "broadcasting" /\ r \in todo[c] /\ r # c

(* Whoever is connected has the server's value, or the message that        *)
(* carries the property has still to come by.                              *)
AgreeInv ==
  \A t \in Table, k \in Key : Quiet(t, k) =>
    \A r \in Conn : Connected(r) /\ view[r][t][k] # customProperty[t][k] =>
      \E c \in Conn : Coming(c, r, t, k)

(* The value a message carries is its sender's at once, and the server's   *)
(* once set.                                                               *)
CarriedInv ==
  \A t \in Table, k \in Key, c \in Conn : Quiet(t, k) /\ Carries(c, t, k) =>
    /\ view[c][t][k] = packet[c].value
    /\ k \notin packet[c].left => customProperty[t][k] = packet[c].value

(* The room information is the server's, where it has been taken in.       *)
JoinerInv ==
  \A t \in Table, k \in Key : Quiet(t, k) =>
    \A r \in Conn :
      /\ pc[r] = "sent" => view[r][t][k] = customProperty[t][k]
      /\ pc[r] = "encoding" /\ info[r][t][k] # customProperty[t][k] =>
           \/ t \in tables[r]
           \/ /\ walk[r] # NoWalk /\ walk[r].table = t
              /\ k \in walk[r].due \ walk[r].seen

ConvergeInv ==
  ~wiped => /\ OneJoins /\ SendersInv /\ FreshInv /\ WalkInv /\ AgreeInv
            /\ CarriedInv /\ JoinerInv

---------------------------------------------------------------------------
(* Until the room is reset with somebody in it, what a step finds under a  *)
(* number is the player that was given it.                                 *)

PlainCreate(c) ==
  /\ Goto(c, "outside", "encoding")
  /\ Joining = {}
  /\ playerHash' = playerHash \cup {c}
  /\ tables' = [tables EXCEPT ![c] = Held']
  /\ \E seen \in SUBSET {w \in Conn : todo[w] # {}} :
       todo' = [w \in Conn |-> IF w \in seen THEN todo[w] \cup {c}
                                             ELSE todo[w]]
  /\ UNCHANGED <<customProperty, view, isConnected, walk, info, packet,
                 updates, historyVars>>

PlainSet(c, k) ==
  LET t == packet[c].table IN
  /\ pc[c] = "setting" /\ k \in packet[c].left
  /\ t \in Held
  /\ SetProperty(t, k, packet[c].value)
  /\ packet' = [packet EXCEPT ![c].left = @ \ {k}]
  /\ raced' = raced \cup {s \in {<<t, k>>} : Joining # {}}
  /\ UNCHANGED <<pc, playerHash, view, joinVars, todo, updates, contested,
                 wiped>>

PlainBegin(c) ==
  /\ packet[c].left = {}
  /\ Goto(c, "setting", "broadcasting")
  /\ todo' = [todo EXCEPT ![c] = playerHash \ {c}]
  /\ UNCHANGED <<customProperty, playerHash, view, joinVars, packet, updates,
                 historyVars>>

PlainRemove(c) ==
  /\ Goto(c, "reading", "counting")
  /\ playerHash' = playerHash \ {c}
  /\ tables' = [w \in Conn |-> tables[w] \ ({c} \ {w})]
  /\ todo' = [w \in Conn |-> todo[w] \ {c}]
  /\ view' = [view EXCEPT ![c] = NoProperties]
  /\ isConnected' = [isConnected EXCEPT ![c] = FALSE]
  /\ UNCHANGED <<customProperty, walk, info, packet, updates, historyVars>>

PlainJoin(c) ==
  \/ PlainCreate(c)
  \/ \E t \in Table : EncodeTable(c, t)
  \/ \E k \in Key : EncodeEntry(c, k)
  \/ EndTable(c)
  \/ SendInfo(c)
  \/ MarkConnected(c)

PlainPacket(c) ==
  \/ \E t \in Table, keys \in SUBSET Key : ReceiveSetHash(c, t, keys)
  \/ \E k \in Key : PlainSet(c, k)
  \/ PlainBegin(c)
  \/ \E r \in Conn : Deliver(c, r)
  \/ EndBroadcast(c)

PlainClose(c) ==
  PlainRemove(c) \/ CountPlayers(c) \/ Wipe(c) \/ Renumber(c)

(* Everybody who is in the room is in the table.                           *)
AllIn ==
  \A c \in Conn : c \in playerHash <=>
    pc[c] \in {"encoding", "sent", "reading", "setting", "broadcasting"}

(* Until a reset with somebody in it, each step is one on its own player.  *)
LEMMA PlainSteps ==
  ASSUME TypeOK, NumberInv, ~wiped, NEW c \in Conn
  PROVE  /\ AllIn
         /\ JoinStep(c) => PlainJoin(c)
         /\ PacketStep(c) => PlainPacket(c)
         /\ CloseStep(c) => PlainClose(c)
<1> USE DEF Goto
<1>0. /\ NumbersInv /\ Members \subseteq Conn /\ pc \in [Conn -> Steps]
      /\ actorNumber \in [Conn -> Nat] /\ nextActorNumber \in Nat
      /\ packet \in [Conn -> Packet]
  BY DEF NumberInv, Members, TypeOK
<1>1. AllIn
  BY <1>0 DEF AllIn, NumbersInv, Members
<1>2. ASSUME CreatePlayer(c)
      PROVE  PlainCreate(c)
  <2>1. /\ actorNumber'[c] = nextActorNumber
        /\ \A d \in Conn \ {c} : actorNumber'[d] = actorNumber[d]
        /\ pc[c] = "outside"
    BY <1>0, <1>2 DEF CreatePlayer, TakeNumber
  <2>2. \A d \in playerHash : actorNumber[d] < nextActorNumber /\ d # c
    BY <1>0, <2>1 DEF NumbersInv, Members
  <2>3. Lookup(nextActorNumber) = {}
    BY <1>0, <2>2 DEF Lookup, NumbersInv
  <2>4. playerHash' = playerHash \cup {c}
    BY <1>2, <2>3 DEF CreatePlayer, TakeNumber
  <2>5. \A d \in playerHash : actorNumber'[d] # nextActorNumber
    BY <1>0, <2>1, <2>2 DEF NumbersInv
  <2>6. OthersOf(c)' = playerHash
    BY <2>1, <2>4, <2>5 DEF OthersOf
  <2>7. TablesFor(c)' = Held'
    BY <2>4, <2>6 DEF TablesFor, Held
  <2>8. PICK seen \in SUBSET {w \in Conn : todo[w] # {} /\ c \in OthersOf(w)'} :
          todo' = [w \in Conn |-> IF w \in seen THEN todo[w] \cup {c}
                                                ELSE todo[w]]
    BY <1>2 DEF CreatePlayer
  <2>9. seen \in SUBSET {w \in Conn : todo[w] # {}}
    OBVIOUS
  <2> QED
    BY <1>2, <2>4, <2>7, <2>8, <2>9 DEF CreatePlayer, PlainCreate
<1>3. ASSUME NEW k \in Key, SetHash(c, k)
      PROVE  PlainSet(c, k)
  <2>1. PICK t \in Found(packet[c].table) :
          /\ \/ t \in Table /\ SetProperty(t, k, packet[c].value)
             \/ t \notin Table /\ UNCHANGED customProperty
          /\ raced' = raced \cup {s \in {<<t, k>>} : t \in Table /\ Joining # {}}
    BY <1>3 DEF SetHash
  <2>2. pc[c] = "setting" /\ c \in Members /\ packet[c].table \in Table
    BY <1>0, <1>3 DEF SetHash, Members, Packet
  <2>3. t = packet[c].table /\ t \in {Room} \cup playerHash
    <3>1. CASE packet[c].table = Room
      BY <2>1, <3>1 DEF Found
    <3>2. CASE packet[c].table # Room
      BY <1>0, <2>1, <2>2, <3>2, PropertiesAssumption DEF Found, Lookup,
         NumbersInv, NamedInv
    <3> QED
      BY <3>1, <3>2
  <2>4. t \in Held
    BY <2>2, <2>3 DEF Held
  <2>5. raced' = raced \cup {s \in {<<t, k>>} : Joining # {}}
    BY <2>1, <2>2, <2>3
  <2> QED
    BY <1>3, <2>1, <2>2, <2>3, <2>4, <2>5 DEF SetHash, PlainSet
<1>4. ASSUME BeginBroadcast(c)
      PROVE  PlainBegin(c)
  <2>1. c \in Members
    BY <1>4 DEF BeginBroadcast, Members
  <2>2. OthersOf(c) = playerHash \ {c}
    BY <1>0, <2>1 DEF OthersOf, NumbersInv
  <2> QED
    BY <1>4, <2>2 DEF BeginBroadcast, PlainBegin
<1>5. ASSUME RemovePlayer(c)
      PROVE  PlainRemove(c)
  <2>1. c \in Members
    BY <1>5 DEF RemovePlayer, Members
  <2>2. Lookup(actorNumber[c]) = {c}
    BY <1>0, <2>1 DEF Lookup, NumbersInv
  <2> QED
    BY <1>5, <2>2 DEF RemovePlayer, PlainRemove
<1> QED
  BY <1>1, <1>2, <1>3, <1>4, <1>5 DEF JoinStep, PlainJoin, PacketStep,
     PlainPacket, CloseStep, PlainClose

---------------------------------------------------------------------------
(* Which variables a step can change.                                      *)

(* A join's steps touch the joiner's information and view.                 *)
LEMMA JoinFrame ==
  ASSUME TypeOK, OneJoins, NEW c \in Conn, PlainJoin(c)
  PROVE  /\ UNCHANGED <<customProperty, packet, updates, contested, raced, wiped>>
         /\ \A d \in Conn \ {c} :
              /\ pc'[d] = pc[d] /\ tables'[d] = tables[d] /\ walk'[d] = walk[d]
              /\ info'[d] = info[d] /\ view'[d] = view[d]
              /\ isConnected'[d] = isConnected[d]
         /\ \A d \in Conn : todo[d] \subseteq todo'[d]
         /\ pc[c] \in {"outside", "encoding", "sent"}
         /\ pc'[c] \in {"encoding", "sent", "reading"}
<1>1. UNCHANGED <<customProperty, packet, updates, contested, raced, wiped>>
  BY DEF packetVars, historyVars, PlainJoin, PlainCreate, EncodeTable,
         EncodeEntry, EndTable, SendInfo, MarkConnected
<1>2. \A d \in Conn \ {c} :
        /\ pc'[d] = pc[d] /\ tables'[d] = tables[d] /\ walk'[d] = walk[d]
        /\ info'[d] = info[d] /\ view'[d] = view[d]
        /\ isConnected'[d] = isConnected[d]
  BY DEF TypeOK, Goto, PlainJoin, PlainCreate, EncodeTable, EncodeEntry,
         EndTable, SendInfo, MarkConnected
<1>3. \A d \in Conn : todo[d] \subseteq todo'[d]
  <2>1. CASE PlainCreate(c)
    <3>1. PICK seen \in SUBSET {w \in Conn : todo[w] # {}} :
            todo' = [w \in Conn |-> IF w \in seen THEN todo[w] \cup {c} ELSE todo[w]]
      BY <2>1 DEF PlainCreate
    <3> QED
      BY <3>1
  <2> QED
    BY <2>1 DEF packetVars, PlainJoin, EncodeTable, EncodeEntry, EndTable,
       SendInfo, MarkConnected
<1>4. /\ pc[c] \in {"outside", "encoding", "sent"}
      /\ pc'[c] \in {"encoding", "sent", "reading"}
  <2>1. pc \in [Conn -> Steps]
    BY DEF TypeOK
  <2>2. walk[c] # NoWalk => pc[c] = "encoding"
    BY DEF OneJoins
  <2>3. CASE PlainCreate(c)
    BY <2>1, <2>3 DEF Goto, PlainCreate
  <2>4. CASE SendInfo(c) \/ MarkConnected(c)
    BY <2>1, <2>4 DEF Goto, SendInfo, MarkConnected
  <2>5. ASSUME NEW t \in Table, EncodeTable(c, t)
        PROVE  <1>4!:
    BY <2>5 DEF EncodeTable
  <2>6. ASSUME NEW k \in Key, EncodeEntry(c, k)
        PROVE  <1>4!:
    BY <2>2, <2>6 DEF EncodeEntry
  <2>7. CASE EndTable(c)
    BY <2>2, <2>7 DEF EndTable
  <2> QED
    BY <2>3, <2>4, <2>5, <2>6, <2>7 DEF PlainJoin
<1> QED
  BY <1>1, <1>2, <1>3, <1>4

(* A packet's steps are those of a connected player.                       *)
LEMMA PacketFrame ==
  ASSUME TypeOK, NEW c \in Conn, PlainPacket(c)
  PROVE  /\ UNCHANGED <<playerHash, joinVars, wiped>>
         /\ contested \subseteq contested' /\ raced \subseteq raced'
         /\ \A d \in Conn \ {c} : pc'[d] = pc[d] /\ packet'[d] = packet[d]
         /\ Connected(c) /\ Connected(c)'
<1>1. UNCHANGED <<playerHash, joinVars, wiped>>
  BY DEF historyVars, PlainPacket, ReceiveSetHash, PlainSet, PlainBegin,
         Deliver, EndBroadcast
<1>2. contested \subseteq contested' /\ raced \subseteq raced'
  BY DEF historyVars, PlainPacket, ReceiveSetHash, PlainSet, PlainBegin,
         Deliver, EndBroadcast
<1>3. \A d \in Conn \ {c} : pc'[d] = pc[d] /\ packet'[d] = packet[d]
  <2>1. pc \in [Conn -> Steps] /\ packet \in [Conn -> Packet]
    BY DEF TypeOK
  <2>2. ASSUME NEW t \in Table, NEW keys \in SUBSET Key, ReceiveSetHash(c, t, keys)
        PROVE  <1>3!:
    BY <2>1, <2>2 DEF Goto, ReceiveSetHash
  <2>3. ASSUME NEW k \in Key, PlainSet(c, k)
        PROVE  <1>3!:
    BY <2>1, <2>3 DEF PlainSet
  <2>4. CASE PlainBegin(c)
    BY <2>1, <2>4 DEF Goto, PlainBegin
  <2>5. ASSUME NEW r \in Conn, Deliver(c, r)
        PROVE  <1>3!:
    BY <2>5 DEF Deliver
  <2>6. CASE EndBroadcast(c)
    BY <2>1, <2>6 DEF Goto, EndBroadcast
  <2> QED
    BY <2>2, <2>3, <2>4, <2>5, <2>6 DEF PlainPacket
<1>4. Connected(c) /\ Connected(c)'
  BY DEF TypeOK, Goto, Connected, PlainPacket, ReceiveSetHash, PlainSet,
         PlainBegin, Deliver, EndBroadcast
<1> QED
  BY <1>1, <1>2, <1>3, <1>4

(* A disconnect's steps clear tables and take the player from the room.    *)
LEMMA CloseFrame ==
  ASSUME TypeOK, NEW c \in Conn, PlainClose(c)
  PROVE  /\ UNCHANGED <<walk, info, packet, updates, contested, raced>>
         /\ wiped => wiped'
         /\ \A d \in Conn \ {c} :
              /\ pc'[d] = pc[d] /\ view'[d] = view[d]
              /\ isConnected'[d] = isConnected[d]
         /\ playerHash' \subseteq playerHash
         /\ \A d \in Conn : tables'[d] \subseteq tables[d]
         /\ \A d \in Conn : todo[d] \ {c} \subseteq todo'[d]
         /\ pc[c] \in {"reading", "counting", "wiping", "renumbering"}
         /\ pc'[c] \in {"counting", "wiping", "renumbering", "gone"}
         /\ customProperty' # customProperty => Wipe(c)
  BY DEF TypeOK, joinVars, packetVars, historyVars, Goto, PlainClose,
         PlainRemove, CountPlayers, Wipe, Renumber

---------------------------------------------------------------------------
(* The steps keep what is said of joins, senders, newcomers and walks.     *)

(* PlainCreate waits until no other player joins.                         *)
LEMMA OneJoinsStep ==
  ASSUME TypeOK, OneJoins, NEW c \in Conn,
         PlainJoin(c) \/ PlainPacket(c) \/ PlainClose(c)
  PROVE  OneJoins'
<1> USE DEF OneJoins, Joining
<1>1. CASE PlainJoin(c)
  <2> USE JoinFrame, <1>1
  <2>0. /\ pc \in [Conn -> Steps] /\ tables \in [Conn -> SUBSET Table]
        /\ walk \in [Conn -> Walk \cup {NoWalk}]
        /\ info \in [Conn -> [Table -> [Key -> Nat]]]
    BY DEF TypeOK
  <2>1. \A e, d \in Joining' : e = d
    <3>1. CASE PlainCreate(c)
      BY <3>1 DEF PlainCreate
    <3>2. CASE ~PlainCreate(c)
      <4>1. pc[c] \in {"encoding", "sent"}
        BY <2>0, <3>2 DEF Goto, PlainJoin, EncodeTable, EncodeEntry, EndTable,
           SendInfo, MarkConnected
      <4> QED
        BY <4>1
    <3> QED
      BY <3>1, <3>2
  <2>2. pc'[c] # "encoding" =>
          tables'[c] = {} /\ walk'[c] = NoWalk /\ info'[c] = NoProperties
    <3> SUFFICES ASSUME pc'[c] # "encoding"
                 PROVE  tables'[c] = {} /\ walk'[c] = NoWalk /\ info'[c] = NoProperties
      OBVIOUS
    <3>1. CASE PlainCreate(c)
      BY <2>0, <3>1 DEF PlainCreate, Goto
    <3>2. CASE SendInfo(c)
      BY <2>0, <3>2 DEF SendInfo, Goto
    <3>3. CASE MarkConnected(c)
      BY <2>0, <3>3 DEF MarkConnected, Goto
    <3>4. CASE \/ \E t \in Table : EncodeTable(c, t)
               \/ \E k \in Key : EncodeEntry(c, k)
               \/ EndTable(c)
      BY <2>0, <3>4 DEF EncodeTable, EncodeEntry, EndTable
    <3> QED
      BY <3>1, <3>2, <3>3, <3>4 DEF PlainJoin
  <2>3. /\ \A t \in tables'[c] : info'[c][t] = [k \in Key |-> Unset]
        /\ walk'[c] # NoWalk =>
             /\ walk'[c].table \notin tables'[c]
             /\ \A k \in Key \ walk'[c].seen : info'[c][walk'[c].table][k] = Unset
    <3>1. CASE PlainCreate(c)
      BY <2>0, <3>1 DEF PlainCreate, Goto, NoProperties, Held
    <3>2. ASSUME NEW t \in Table, EncodeTable(c, t)
          PROVE  <2>3!:
      BY <2>0, <3>2 DEF EncodeTable, BeginWalk
    <3>3. ASSUME NEW k \in Key, EncodeEntry(c, k)
          PROVE  <2>3!:
      <4>1. PICK t \in Table : t = walk[c].table
        BY <2>0, <3>3 DEF EncodeEntry, Walk
      <4>2. walk'[c].table = t /\ walk'[c].seen = walk[c].seen \cup {k}
        BY <2>0, <3>3, <4>1 DEF EncodeEntry, Walk
      <4>3. info' = [info EXCEPT ![c][t][k] = customProperty[t][k]]
        BY <3>3, <4>1 DEF EncodeEntry
      <4>4. /\ \A u \in Table \ {t} : info'[c][u] = info[c][u]
            /\ \A l \in Key \ {k} : info'[c][t][l] = info[c][t][l]
        BY <2>0, <4>3
      <4> QED
        BY <2>0, <3>3, <4>1, <4>2, <4>4 DEF EncodeEntry
    <3>4. CASE EndTable(c)
      BY <2>0, <3>4 DEF EndTable
    <3>5. CASE SendInfo(c) \/ MarkConnected(c)
      BY <2>0, <3>5 DEF SendInfo, MarkConnected, Goto
    <3> QED
      BY <1>1, <3>1, <3>2, <3>3, <3>4, <3>5 DEF PlainJoin
  <2> QED
    BY <2>1, <2>2, <2>3
<1>2. CASE PlainPacket(c)
  BY <1>2, PacketFrame DEF joinVars, Connected
<1>3. CASE PlainClose(c)
  BY <1>3, CloseFrame
<1> QED
  BY <1>1, <1>2, <1>3

(* A packet is emptied when its broadcast has ended.                       *)
LEMMA SendersStep ==
  ASSUME TypeOK, OneJoins, SendersInv, NEW c \in Conn,
         PlainJoin(c) \/ PlainPacket(c) \/ PlainClose(c)
  PROVE  SendersInv'
<1> USE DEF SendersInv, Connected
<1>0. /\ pc \in [Conn -> Steps] /\ packet \in [Conn -> Packet]
      /\ isConnected \in [Conn -> BOOLEAN] /\ updates \in Nat
  BY PropertiesAssumption DEF TypeOK
<1>1. CASE PlainJoin(c)
  <2>1. isConnected'[c] <=> Connected(c)'
    BY <1>0, <1>1 DEF Goto, PlainJoin, PlainCreate, EncodeTable, EncodeEntry,
       EndTable, SendInfo, MarkConnected
  <2> QED
    BY <1>1, <2>1, JoinFrame
<1>2. CASE PlainPacket(c)
  <2>1. isConnected' = isConnected
    BY <1>2, PacketFrame DEF joinVars
  <2>2. pc'[c] = "broadcasting" => packet'[c].left = {}
    BY <1>0, <1>2 DEF Goto, PlainPacket, ReceiveSetHash, PlainSet,
       PlainBegin,
       Deliver, EndBroadcast
  <2>3. packet'[c].keys # {} => packet'[c].value # Unset
    <3>1. ASSUME NEW k \in Key, PlainSet(c, k)
          PROVE  packet'[c].keys = packet[c].keys
                 /\ packet'[c].value = packet[c].value
      BY <1>0, <3>1 DEF PlainSet, Packet
    <3>2. ASSUME NEW t \in Table, NEW keys \in SUBSET Key, ReceiveSetHash(c, t, keys)
          PROVE  packet'[c].value = updates + 1
      BY <1>0, <3>2 DEF ReceiveSetHash
    <3>3. CASE EndBroadcast(c)
      BY <1>0, <3>3 DEF EndBroadcast, NoPacket
    <3>4. ASSUME PlainBegin(c) \/ \E r \in Conn : Deliver(c, r)
          PROVE  packet' = packet
      BY <3>4 DEF PlainBegin, Deliver
    <3> QED
      BY <1>0, <1>2, <3>1, <3>2, <3>3, <3>4 DEF PlainPacket, Unset
  <2> QED
    BY <1>2, <2>1, <2>2, <2>3, PacketFrame
<1>3. CASE PlainClose(c)
  <2>1. isConnected'[c] <=> Connected(c)'
    BY <1>0, <1>3 DEF Goto, PlainClose, PlainRemove, CountPlayers, Wipe,
       Renumber, joinVars
  <2> QED
    BY <1>3, <2>1, CloseFrame
<1> QED
  BY <1>1, <1>2, <1>3

(* A client is told of a table only once its player is in the room.        *)
LEMMA FreshStep ==
  ASSUME TypeOK, TypeOK', AllIn, OneJoins, FreshInv, NEW c \in Conn,
         PlainJoin(c) \/ PlainPacket(c) \/ PlainClose(c)
  PROVE  FreshInv'
<1> SUFFICES ASSUME NEW t \in Table, t \in Conn, pc'[t] = "outside", NEW k \in Key
             PROVE  AtMost(t, k, Unset)' /\ \A d \in Conn : ~Carries(d, t, k)'
  BY DEF FreshInv
<1>0. /\ packet \in [Conn -> Packet] /\ pc \in [Conn -> Steps]
      /\ info \in [Conn -> [Table -> [Key -> Nat]]]
      /\ view \in [Conn -> [Table -> [Key -> Nat]]]
  BY DEF TypeOK
<1>1. pc[t] = "outside" /\ t # c
  BY JoinFrame, PacketFrame, CloseFrame DEF Connected
<1>2. AtMost(t, k, Unset) /\ \A d \in Conn : ~Carries(d, t, k)
  BY <1>1 DEF FreshInv
<1>3. t \notin Held
  BY <1>1, PropertiesAssumption DEF Held, AllIn
<1>4. ASSUME NEW u \in Table, u # t,
             \A v \in Table \ {u} :
               /\ customProperty'[v] = customProperty[v]
               /\ \A d \in Conn : view'[d][v] = view[d][v] /\ info'[d][v] = info[d][v]
      PROVE  AtMost(t, k, Unset)'
  BY <1>2, <1>4 DEF AtMost
<1>5. ASSUME customProperty'[t][k] \in {customProperty[t][k], Unset},
             \A d \in Conn :
               /\ view'[d][t][k] \in {view[d][t][k], info[d][t][k], Unset}
               /\ info'[d][t][k] \in {info[d][t][k], customProperty[t][k], Unset}
      PROVE  AtMost(t, k, Unset)'
  BY <1>2, <1>5 DEF AtMost, Unset
<1>6. CASE PlainJoin(c)
  <2>1. UNCHANGED <<customProperty, packet>>
    BY <1>6, JoinFrame
  <2>2. /\ view'[c][t][k] \in {view[c][t][k], info[c][t][k], Unset}
        /\ info'[c][t][k] \in {info[c][t][k], customProperty[t][k], Unset}
    <3>1. ASSUME NEW l \in Key, EncodeEntry(c, l)
          PROVE  <2>2!:
      <4>1. PICK u \in Table : u = walk[c].table
        BY <3>1 DEF EncodeEntry, TypeOK, Walk
      <4> QED
        BY <1>0, <3>1, <4>1 DEF EncodeEntry
    <3>2. CASE SendInfo(c)
      BY <1>0, <3>2 DEF SendInfo, NoProperties
    <3>3. CASE UNCHANGED <<view, info>>
      BY <3>3
    <3> QED
      BY <1>6, <3>1, <3>2, <3>3 DEF PlainJoin, PlainCreate, EncodeTable,
         EndTable,
         MarkConnected
  <2> QED
    BY <1>2, <1>5, <1>6, <2>1, <2>2, JoinFrame DEF Carries
<1>7. CASE PlainPacket(c)
  <2>0. info' = info
    BY <1>7, PacketFrame DEF joinVars
  <2>1. ASSUME NEW u \in Table, NEW keys \in SUBSET Key, ReceiveSetHash(c, u, keys)
        PROVE  AtMost(t, k, Unset)' /\ ~Carries(c, t, k)'
    <3>1. u # t /\ customProperty' = customProperty
      BY <1>1, <1>3, <2>1 DEF ReceiveSetHash
    <3>2. view' = [view EXCEPT ![c][u] =
                    [l \in Key |-> IF l \in keys THEN updates' ELSE @[l]]]
      BY <2>1 DEF ReceiveSetHash
    <3>3. \A v \in Table \ {u}, d \in Conn : view'[d][v] = view[d][v]
      BY <1>0, <3>2
    <3>4. packet'[c].table = u
      BY <1>0, <2>1 DEF ReceiveSetHash
    <3> QED
      BY <1>4, <2>0, <3>1, <3>3, <3>4 DEF Carries
  <2>2. ASSUME NEW l \in Key, PlainSet(c, l)
        PROVE  AtMost(t, k, Unset)' /\ ~Carries(c, t, k)'
    <3>1. PICK u \in Table : u = packet[c].table
      BY <1>0 DEF Packet
    <3>2. u # t /\ view' = view
      BY <1>3, <2>2, <3>1 DEF PlainSet
    <3>3. \A v \in Table \ {u} : customProperty'[v] = customProperty[v]
      BY <2>2, <3>1 DEF PlainSet, SetProperty, TypeOK, TableTypeOK
    <3>4. packet'[c].table = u
      BY <1>0, <2>2, <3>1 DEF PlainSet, Packet
    <3> QED
      BY <1>4, <2>0, <3>1, <3>2, <3>3, <3>4 DEF Carries
  <2>3. ASSUME NEW r \in Conn, Deliver(c, r)
        PROVE  AtMost(t, k, Unset)' /\ ~Carries(c, t, k)'
    <3>1. PICK u \in Table : u = packet[c].table
      BY <1>0 DEF Packet
    <3>2. \/ view' = view
          \/ view' = [view EXCEPT ![r][u] =
                       [l \in Key |-> IF l \in packet[c].keys
                                      THEN packet[c].value ELSE @[l]]]
      BY <2>3, <3>1 DEF Deliver
    <3>3. \A d \in Conn : view'[d][t][k] = view[d][t][k]
      <4>1. u = t => k \notin packet[c].keys
        BY <1>2, <3>1 DEF Carries
      <4>2. CASE view' = view
        BY <4>2
      <4>3. CASE view' = [view EXCEPT ![r][u] =
                           [l \in Key |-> IF l \in packet[c].keys
                                          THEN packet[c].value ELSE @[l]]]
        <5>1. u # t => \A d \in Conn : view'[d][t] = view[d][t]
          BY <1>0, <4>3
        <5>2. u = t => \A d \in Conn : view'[d][t][k] = view[d][t][k]
          BY <1>0, <4>1, <4>3
        <5> QED
          BY <5>1, <5>2
      <4> QED
        BY <3>2, <4>2, <4>3
    <3> QED
      BY <1>2, <1>5, <2>0, <2>3, <3>3 DEF Deliver, Carries
  <2>4. CASE PlainBegin(c)
    BY <1>2, <1>5, <2>0, <2>4 DEF PlainBegin, Carries
  <2>5. CASE EndBroadcast(c)
    BY <1>0, <1>2, <1>5, <2>0, <2>5 DEF EndBroadcast, Carries, NoPacket
  <2>6. \A d \in Conn \ {c} : ~Carries(d, t, k)'
    BY <1>2, <1>7, PacketFrame DEF Carries
  <2> QED
    BY <1>7, <2>1, <2>2, <2>3, <2>4, <2>5, <2>6 DEF PlainPacket
<1>8. CASE PlainClose(c)
  <2>1. customProperty'[t][k] \in {customProperty[t][k], Unset}
    <3>1. CASE Wipe(c)
      BY <3>1 DEF Wipe, RemoveAllProperties, TypeOK, TableTypeOK
    <3> QED
      BY <1>8, <3>1, CloseFrame
  <2>2. view'[c][t][k] \in {view[c][t][k], Unset}
    BY <1>0, <1>8 DEF PlainClose, PlainRemove, CountPlayers, Wipe,
       Renumber, NoProperties
  <2> QED
    BY <1>2, <1>5, <1>8, <2>1, <2>2, CloseFrame DEF Carries
<1> QED
  BY <1>6, <1>7, <1>8

(* Only a wipe takes keys away, and nobody is in a room that is wiped.     *)
LEMMA WalkStep ==
  ASSUME TypeOK, AllIn, StageInv, OneJoins, SendersInv, WalkInv, NEW c \in Conn,
         PlainJoin(c) \/ PlainPacket(c) \/ PlainClose(c), ~wiped'
  PROVE  WalkInv'
<1>0. /\ walk \in [Conn -> Walk \cup {NoWalk}] /\ packet \in [Conn -> Packet]
      /\ customProperty \in [Table -> [Key -> Nat]] /\ NoWalk \notin Walk
  BY PropertiesAssumption DEF TypeOK, TableTypeOK
<1> SUFFICES ASSUME NEW d \in Conn, walk'[d] # NoWalk
             PROVE  walk'[d].due \subseteq KeysOf(walk[d].table)'
  BY DEF WalkInv
<1>1. ASSUME walk'[d] = walk[d], customProperty' = customProperty
      PROVE  walk'[d].due \subseteq KeysOf(walk[d].table)'
  BY <1>1 DEF WalkInv, KeysOf
<1>2. CASE PlainJoin(c)
  <2>1. ASSUME NEW t \in Table, EncodeTable(c, t), d = c
        PROVE  walk'[d].due \subseteq KeysOf(walk[d].table)'
    BY <1>0, <2>1 DEF EncodeTable, BeginWalk, KeysOf
  <2>2. ASSUME NEW k \in Key, EncodeEntry(c, k), d = c
        PROVE  walk'[d].due \subseteq KeysOf(walk[d].table)'
    <3>1. walk[c] \in Walk /\ customProperty' = customProperty
      BY <1>0, <2>2 DEF EncodeEntry
    <3>2. walk'[c].table = walk[c].table /\ walk'[c].due = walk[c].due
      BY <1>0, <2>2, <3>1 DEF EncodeEntry, Walk
    <3>3. walk[c] # NoWalk
      BY <2>2 DEF EncodeEntry
    <3> QED
      BY <2>2, <3>1, <3>2, <3>3 DEF WalkInv, KeysOf
  <2>3. CASE EndTable(c) /\ d = c
    BY <1>0, <2>3 DEF EndTable
  <2>4. CASE d # c
    BY <1>1, <1>2, <2>4, JoinFrame
  <2>5. CASE PlainCreate(c) \/ SendInfo(c) \/ MarkConnected(c)
    BY <1>1, <2>5 DEF PlainCreate, SendInfo, MarkConnected
  <2> QED
    BY <1>2, <2>1, <2>2, <2>3, <2>4, <2>5 DEF PlainJoin
<1>3. CASE PlainPacket(c)
  <2>0. walk' = walk
    BY <1>3, PacketFrame DEF joinVars
  <2>1. ASSUME NEW k \in Key, PlainSet(c, k)
        PROVE  walk'[d].due \subseteq KeysOf(walk[d].table)'
    <3>1. PICK t \in Table : t = packet[c].table
      BY <1>0 DEF Packet
    <3>2. packet[c].value # Unset /\ packet[c].value \in Nat
      BY <1>0, <2>1 DEF PlainSet, SendersInv, StageInv, Packet
    <3>3. customProperty' = [customProperty EXCEPT ![t][k] = packet[c].value]
      BY <2>1, <3>1 DEF PlainSet, SetProperty
    <3>4. \A u \in Table : KeysOf(u) \subseteq KeysOf(u)'
      BY <1>0, <3>2, <3>3 DEF KeysOf
    <3>5. walk[d].table \in Table
      BY <1>0, <2>0 DEF Walk
    <3> QED
      BY <2>0, <3>4, <3>5 DEF WalkInv
  <2>2. CASE ~\E k \in Key : PlainSet(c, k)
    <3>1. customProperty' = customProperty
      BY <1>3, <2>2 DEF PlainPacket, ReceiveSetHash, PlainBegin, Deliver,
         EndBroadcast
    <3> QED
      BY <1>1, <2>0, <3>1
  <2> QED
    BY <2>1, <2>2
<1>4. CASE PlainClose(c)
  <2>1. walk' = walk
    BY <1>4, CloseFrame
  <2>2. d \in Members
    BY <2>1 DEF OneJoins, Members
  <2>3. ~Wipe(c)
    BY <2>2 DEF Wipe
  <2> QED
    BY <1>1, <1>4, <2>1, <2>3, CloseFrame
<1> QED
  BY <1>2, <1>3, <1>4

---------------------------------------------------------------------------
(* The steps keep the copies in agreement.                                 *)

(* A reset with somebody in it is not forgotten.                           *)
LEMMA WipedStays ==
  ASSUME NEW c \in Conn, JoinStep(c) \/ PacketStep(c) \/ CloseStep(c), ~wiped'
  PROVE  ~wiped
  BY DEF historyVars, JoinStep, CreatePlayer, EncodeTable, EncodeEntry, EndTable,
         SendInfo, MarkConnected, PacketStep, ReceiveSetHash, SetHash,
         BeginBroadcast, Deliver, EndBroadcast, CloseStep, RemovePlayer,
         CountPlayers, Wipe, Renumber

(* Only a player's own coming brings properties into the claim.            *)
LEMMA QuietBefore ==
  ASSUME TypeOK, OneJoins, NEW c \in Conn,
         PlainJoin(c) \/ PlainPacket(c) \/ PlainClose(c),
         NEW t \in Table, NEW k \in Key, Quiet(t, k)'
  PROVE  Quiet(t, k) \/ (PlainCreate(c) /\ t = c)
<1>1. /\ contested \subseteq contested' /\ raced \subseteq raced'
      /\ wiped => wiped'
  BY JoinFrame, PacketFrame, CloseFrame
<1>2. Held' \subseteq Held \/ (PlainCreate(c) /\ Held' \subseteq Held \cup {c})
  <2>1. \/ playerHash' \subseteq playerHash
        \/ PlainCreate(c) /\ playerHash' = playerHash \cup {c}
    BY PacketFrame, CloseFrame DEF PlainJoin, PlainCreate, EncodeTable,
       EncodeEntry, EndTable, SendInfo, MarkConnected
  <2> QED
    BY <2>1 DEF Held
<1> QED
  BY <1>1, <1>2 DEF Quiet

(* Somebody connected or joining keeps the room from being wiped unseen.   *)
LEMMA NoWipe ==
  ASSUME TypeOK, AllIn, NEW c \in Conn, PlainClose(c), ~wiped',
         NEW r \in Conn, Connected(r) \/ r \in Joining
  PROVE  customProperty' = customProperty
<1>1. r \in Members
  BY DEF Members, Connected, Joining
<1>2. ~Wipe(c)
  BY <1>1 DEF Wipe
<1> QED
  BY <1>2, CloseFrame

(* Whoever carries a message is at it.                                     *)
LEMMA CarriersAtIt ==
  ASSUME StageInv, NEW c \in Conn, NEW t \in Table, NEW k \in Key,
         Carries(c, t, k)
  PROVE  pc[c] \in {"setting", "broadcasting"}
  BY DEF StageInv, Carries

(* A quiet property has one message under way, so nobody else sets it      *)
(* between PlainSet and the broadcast.                                      *)
LEMMA CarriedStep ==
  ASSUME TypeOK, TypeOK', AllIn, ToldInv, OneJoins, FreshInv, CarriedInv,
         NEW c \in Conn, PlainJoin(c) \/ PlainPacket(c) \/ PlainClose(c)
  PROVE  CarriedInv'
<1> DEFINE Right(d, t, k) ==
      /\ view[d][t][k] = packet[d].value
      /\ k \notin packet[d].left => customProperty[t][k] = packet[d].value
<1> SUFFICES ASSUME NEW t \in Table, NEW k \in Key, NEW d \in Conn,
                    Quiet(t, k)', Carries(d, t, k)'
             PROVE  Right(d, t, k)'
  BY DEF CarriedInv
<1> USE DEF ToldInv
<1>0. /\ packet \in [Conn -> Packet]
      /\ view \in [Conn -> [Table -> [Key -> Nat]]]
      /\ customProperty \in [Table -> [Key -> Nat]]
  BY DEF TypeOK, TableTypeOK
<1>1. Quiet(t, k)
  <2>1. CASE PlainCreate(c) /\ t = c
    <3>1. packet' = packet /\ pc[t] = "outside"
      BY <2>1 DEF PlainCreate, Goto
    <3> QED
      BY <2>1, <3>1 DEF FreshInv, Carries
  <2> QED
    BY <2>1, QuietBefore
<1>2. Carries(d, t, k) =>
        Right(d, t, k) /\ \A e \in Conn : Carries(e, t, k) => e = d
  BY <1>1 DEF CarriedInv, CarryInv, Distinct, Quiet
<1>3. ASSUME packet'[d] = packet[d], view'[d] = view[d],
             customProperty' = customProperty
      PROVE  Right(d, t, k)'
  BY <1>2, <1>3 DEF Carries
<1>4. CASE PlainJoin(c)
  <2>1. d # c
    BY <1>4, CarriersAtIt, JoinFrame DEF Carries
  <2> QED
    BY <1>3, <1>4, <2>1, JoinFrame
<1>5. CASE PlainPacket(c)
  <2>1. ASSUME NEW u \in Table, NEW keys \in SUBSET Key, ReceiveSetHash(c, u, keys)
        PROVE  Right(d, t, k)'
    <3>1. /\ view' = [view EXCEPT ![c][u] =
                        [l \in Key |-> IF l \in keys THEN updates' ELSE @[l]]]
          /\ customProperty' = customProperty
      BY <2>1 DEF ReceiveSetHash
    <3>2. CASE d = c
      <4>1. /\ packet'[c].table = u /\ packet'[c].keys = keys
            /\ packet'[c].left = keys /\ packet'[c].value = updates'
        BY <1>0, <2>1 DEF ReceiveSetHash
      <4>2. t = u /\ k \in keys
        BY <3>2, <4>1 DEF Carries
      <4>3. view'[c][t][k] = updates'
        BY <1>0, <3>1, <4>2
      <4> QED
        BY <3>2, <4>1, <4>2, <4>3
    <3>3. CASE d # c
      <4>1. packet'[d] = packet[d] /\ view'[d] = view[d]
        BY <1>0, <1>5, <3>1, <3>3, PacketFrame
      <4> QED
        BY <1>3, <3>1, <4>1
    <3> QED
      BY <3>2, <3>3
  <2>2. ASSUME NEW l \in Key, PlainSet(c, l)
        PROVE  Right(d, t, k)'
    <3>1. PICK u \in Table : u = packet[c].table
      BY <1>0 DEF Packet
    <3>2. /\ packet'[c].table = u /\ packet'[c].keys = packet[c].keys
          /\ packet'[c].value = packet[c].value
          /\ packet'[c].left = packet[c].left \ {l}
      BY <1>0, <2>2, <3>1 DEF PlainSet, Packet
    <3>3. view' = view /\ Carries(c, u, l)
      BY <2>2, <3>1 DEF PlainSet, StageInv, Carries
    <3>4. /\ customProperty'[u][l] = packet[c].value
          /\ t # u \/ k # l => customProperty'[t][k] = customProperty[t][k]
      BY <1>0, <2>2, <3>1 DEF PlainSet, SetProperty
    <3>5. Carries(d, t, k)
      BY <1>5, <3>1, <3>2, PacketFrame DEF Carries
    <3>6. CASE d = c
      BY <1>2, <3>1, <3>2, <3>3, <3>4, <3>5, <3>6 DEF Carries
    <3>7. CASE d # c
      BY <1>2, <1>5, <3>3, <3>4, <3>5, <3>7, PacketFrame
    <3> QED
      BY <3>6, <3>7
  <2>3. ASSUME NEW r \in Conn, Deliver(c, r)
        PROVE  Right(d, t, k)'
    <3>1. PICK u \in Table : u = packet[c].table
      BY <1>0 DEF Packet
    <3>2. /\ packet' = packet /\ customProperty' = customProperty
          /\ \/ view' = view
             \/ view' = [view EXCEPT ![r][u] =
                          [l \in Key |-> IF l \in packet[c].keys
                                         THEN packet[c].value ELSE @[l]]]
      BY <2>3, <3>1 DEF Deliver
    <3>3. Carries(d, t, k) /\ (Carries(c, t, k) => c = d)
      BY <1>2, <3>2 DEF Carries
    <3>4. view'[d][t][k] = view[d][t][k] \/ view'[d][t][k] = packet[d].value
      <4>1. CASE view' = view
        BY <4>1
      <4>2. CASE view' = [view EXCEPT ![r][u] =
                           [l \in Key |-> IF l \in packet[c].keys
                                          THEN packet[c].value ELSE @[l]]]
        <5>1. CASE d = r /\ u = t
          <6>1. view'[d][t][k] =
                  IF k \in packet[c].keys THEN packet[c].value ELSE view[d][t][k]
            BY <1>0, <4>2, <5>1
          <6> QED
            BY <3>1, <3>3, <5>1, <6>1 DEF Carries
        <5>2. CASE ~(d = r /\ u = t)
          BY <1>0, <4>2, <5>2
        <5> QED
          BY <5>1, <5>2
      <4> QED
        BY <3>2, <4>1, <4>2
    <3> QED
      BY <1>2, <3>2, <3>3, <3>4
  <2>4. CASE PlainBegin(c)
    BY <1>3, <2>4 DEF PlainBegin
  <2>5. CASE EndBroadcast(c)
    <3>1. d # c
      BY <1>0, <2>5 DEF EndBroadcast, Carries, NoPacket
    <3> QED
      BY <1>0, <1>3, <2>5, <3>1 DEF EndBroadcast
  <2> QED
    BY <1>5, <2>1, <2>2, <2>3, <2>4, <2>5 DEF PlainPacket
<1>6. CASE PlainClose(c)
  <2>1. packet' = packet
    BY <1>6, CloseFrame
  <2>2. pc[d] \in {"setting", "broadcasting"}
    BY <2>1, CarriersAtIt DEF Carries
  <2>3. d # c
    BY <1>6, <2>2, CloseFrame
  <2>4. customProperty' = customProperty
    BY <1>6, <2>2, NoWipe DEF Connected, Quiet
  <2> QED
    BY <1>3, <1>6, <2>1, <2>3, <2>4, CloseFrame
<1> QED
  BY <1>4, <1>5, <1>6

(* Deliver takes r from the loop as it makes r's view agree; a joiner      *)
(* becomes connected with a view that agrees.                              *)
LEMMA AgreeStep ==
  ASSUME TypeOK, TypeOK', AllIn, ToldInv, OneJoins, SendersInv, FreshInv,
         CarriedInv, AgreeInv, JoinerInv,
         NEW c \in Conn, PlainJoin(c) \/ PlainPacket(c) \/ PlainClose(c)
  PROVE  AgreeInv'
<1> SUFFICES ASSUME NEW t \in Table, NEW k \in Key, NEW r \in Conn,
                    Quiet(t, k)', Connected(r)',
                    view'[r][t][k] # customProperty'[t][k]
             PROVE  \E d \in Conn : Coming(d, r, t, k)'
  BY DEF AgreeInv
<1> USE DEF ToldInv
<1>0. /\ packet \in [Conn -> Packet] /\ pc \in [Conn -> Steps]
      /\ view \in [Conn -> [Table -> [Key -> Nat]]]
      /\ customProperty \in [Table -> [Key -> Nat]]
      /\ todo \in [Conn -> SUBSET Conn]
  BY DEF TypeOK, TableTypeOK
<1>1. Quiet(t, k)
  <2>1. CASE PlainCreate(c) /\ t = c
    <3>1. /\ UNCHANGED <<view, customProperty>> /\ pc[t] = "outside"
      BY <2>1 DEF PlainCreate, Goto
    <3>2. AtMost(t, k, Unset)
      BY <2>1, <3>1 DEF FreshInv
    <3> QED
      BY <1>0, <3>1, <3>2 DEF AtMost, Unset
  <2> QED
    BY <2>1, QuietBefore
<1>2. Connected(r) /\ view[r][t][k] # customProperty[t][k] =>
        \E d \in Conn : Coming(d, r, t, k)
  BY <1>1 DEF AgreeInv
<1>3. \A d, e \in Conn : Carries(d, t, k) /\ Carries(e, t, k) => d = e
  BY <1>1 DEF CarryInv, Distinct, Quiet
<1>4. \A d \in Conn : Carries(d, t, k) =>
        /\ view[d][t][k] = packet[d].value
        /\ k \notin packet[d].left => customProperty[t][k] = packet[d].value
  BY <1>1 DEF CarriedInv
<1>5. ASSUME Connected(r), view'[r][t][k] = view[r][t][k],
             customProperty'[t][k] = customProperty[t][k],
             \A d \in Conn : Coming(d, r, t, k) => Coming(d, r, t, k)'
      PROVE  \E d \in Conn : Coming(d, r, t, k)'
  BY <1>2, <1>5
<1>6. CASE PlainJoin(c)
  <2>1. r # c
    <3>1. SUFFICES ASSUME r = c
                   PROVE  FALSE
      OBVIOUS
    <3>2. MarkConnected(c)
      BY <1>0, <1>6, <3>1, JoinFrame DEF Connected, Goto, PlainJoin,
         PlainCreate,
         EncodeTable, EncodeEntry, EndTable, SendInfo
    <3>3. pc[c] = "sent" /\ UNCHANGED <<view, customProperty>>
      BY <3>2 DEF MarkConnected, Goto
    <3> QED
      BY <1>1, <3>1, <3>3 DEF JoinerInv
  <2>2. Connected(r) /\ view'[r] = view[r] /\ UNCHANGED <<packet, customProperty>>
    BY <1>6, <2>1, JoinFrame DEF Connected
  <2>3. ASSUME NEW d \in Conn, Coming(d, r, t, k)
        PROVE  Coming(d, r, t, k)'
    <3>1. d # c
      BY <1>6, <2>3, CarriersAtIt, JoinFrame DEF Coming
    <3> QED
      BY <1>6, <2>2, <2>3, <3>1, JoinFrame DEF Coming, Carries
  <2> QED
    BY <1>5, <2>2, <2>3
<1>7. CASE PlainPacket(c)
  <2>0. Connected(r) /\ \A d \in Conn \ {c} : packet'[d] = packet[d] /\ pc'[d] = pc[d]
    BY <1>7, PacketFrame DEF Connected
  <2>1. ASSUME NEW u \in Table, NEW keys \in SUBSET Key, ReceiveSetHash(c, u, keys)
        PROVE  \E d \in Conn : Coming(d, r, t, k)'
    <3>1. /\ view' = [view EXCEPT ![c][u] =
                        [l \in Key |-> IF l \in keys THEN updates' ELSE @[l]]]
          /\ UNCHANGED <<customProperty, todo>>
          /\ contested' = contested \cup {s \in {u} \X keys :
               \E d \in Conn : s \in {packet[d].table} \X packet[d].keys}
      BY <2>1 DEF ReceiveSetHash
    <3>2. packet[c].keys = {}
      BY <2>1 DEF ReceiveSetHash, Goto, StageInv
    <3>3. packet'[c].table = u /\ packet'[c].keys = keys /\ packet'[c].left = keys
      BY <1>0, <2>1 DEF ReceiveSetHash
    <3>4. CASE t = u /\ k \in keys
      <4>1. \A d \in Conn : ~Carries(d, t, k)
        BY <3>1, <3>4 DEF Quiet, Carries
      <4>2. view[r][t][k] = customProperty[t][k]
        BY <1>2, <2>0, <4>1 DEF Coming
      <4>3. r = c
        BY <1>0, <3>1, <4>2
      <4> QED
        BY <3>3, <3>4, <4>3 DEF Coming, Carries
    <3>5. CASE ~(t = u /\ k \in keys)
      <4>1. view'[r][t][k] = view[r][t][k]
        BY <1>0, <3>1, <3>5
      <4>2. \A d \in Conn : Carries(d, t, k) => d # c
        BY <3>2 DEF Carries
      <4> QED
        BY <1>5, <2>0, <3>1, <4>1, <4>2 DEF Coming, Carries
    <3> QED
      BY <3>4, <3>5
  <2>2. ASSUME NEW l \in Key, PlainSet(c, l)
        PROVE  \E d \in Conn : Coming(d, r, t, k)'
    <3>1. PICK u \in Table : u = packet[c].table
      BY <1>0 DEF Packet
    <3>2. /\ packet'[c].table = u /\ packet'[c].keys = packet[c].keys
          /\ packet'[c].value = packet[c].value
          /\ packet'[c].left = packet[c].left \ {l}
      BY <1>0, <2>2, <3>1 DEF PlainSet, Packet
    <3>3. /\ UNCHANGED <<view, pc, todo>> /\ pc[c] = "setting"
          /\ Carries(c, u, l)
      BY <2>2, <3>1 DEF PlainSet, StageInv, Carries
    <3>4. /\ customProperty'[u][l] = packet[c].value
          /\ t # u \/ k # l => customProperty'[t][k] = customProperty[t][k]
      BY <1>0, <2>2, <3>1 DEF PlainSet, SetProperty
    <3>5. CASE t = u /\ k = l
      <4>1. r # c
        BY <1>4, <3>3, <3>4, <3>5
      <4> QED
        BY <3>1, <3>2, <3>3, <3>5, <4>1 DEF Coming, Carries
    <3>6. CASE t # u \/ k # l
      <4>1. ASSUME NEW d \in Conn, Coming(d, r, t, k)
            PROVE  Coming(d, r, t, k)'
        <5>1. CASE d = c
          BY <3>1, <3>2, <3>3, <3>6, <4>1, <5>1 DEF Coming, Carries
        <5>2. CASE d # c
          BY <2>0, <3>3, <4>1, <5>2 DEF Coming, Carries
        <5> QED
          BY <5>1, <5>2
      <4> QED
        BY <1>5, <2>0, <3>3, <3>4, <3>6, <4>1
    <3> QED
      BY <3>5, <3>6
  <2>3. CASE PlainBegin(c)
    <3>1. /\ packet[c].left = {} /\ pc[c] = "setting"
          /\ pc'[c] = "broadcasting"
          /\ UNCHANGED <<customProperty, view, packet>>
          /\ todo'[c] = playerHash \ {c} /\ \A d \in Conn \ {c} : todo'[d] = todo[d]
      BY <1>0, <2>3 DEF PlainBegin, Goto
    <3>2. r \in playerHash
      BY <2>0 DEF AllIn, Connected
    <3> QED
      BY <1>5, <2>0, <3>1, <3>2 DEF Coming, Carries
  <2>4. ASSUME NEW q \in Conn, Deliver(c, q)
        PROVE  \E d \in Conn : Coming(d, r, t, k)'
    <3>1. PICK u \in Table : u = packet[c].table
      BY <1>0 DEF Packet
    <3>2. /\ UNCHANGED <<packet, customProperty, pc>> /\ pc[c] = "broadcasting"
          /\ view' = IF ~isConnected[q] THEN view
                     ELSE [view EXCEPT ![q][u] =
                            [l \in Key |-> IF l \in packet[c].keys
                                           THEN packet[c].value ELSE @[l]]]
          /\ todo'[c] = todo[c] \ {q} /\ \A d \in Conn \ {c} : todo'[d] = todo[d]
      BY <1>0, <2>4, <3>1 DEF Deliver
    <3>3. isConnected[r]
      BY <2>0 DEF SendersInv
    <3>4. CASE r = q /\ Carries(c, t, k)
      <4>1. packet[c].left = {}
        BY <3>2 DEF SendersInv
      <4>2. view'[r][t][k] = packet[c].value
        <5>1. view' = [view EXCEPT ![r][t] =
                        [l \in Key |-> IF l \in packet[c].keys
                                       THEN packet[c].value ELSE @[l]]]
          BY <3>1, <3>2, <3>3, <3>4 DEF Carries
        <5>2. view'[r][t] = [l \in Key |-> IF l \in packet[c].keys
                              THEN packet[c].value ELSE view[r][t][l]]
          BY <1>0, <5>1
        <5> QED
          BY <3>4, <5>2 DEF Carries
      <4> QED
        BY <1>4, <3>2, <3>4, <4>1, <4>2
    <3>5. CASE ~(r = q /\ Carries(c, t, k))
      <4>1. view'[r][t][k] = view[r][t][k]
        <5>1. CASE r # q \/ ~isConnected[q]
          BY <1>0, <3>2, <5>1
        <5>2. CASE r = q /\ isConnected[q]
          <6>1. view' = [view EXCEPT ![r][u] =
                          [l \in Key |-> IF l \in packet[c].keys
                                         THEN packet[c].value ELSE @[l]]]
            BY <3>2, <5>2
          <6>2. t = u => k \notin packet[c].keys
            BY <3>1, <3>5, <5>2 DEF Carries
          <6>3. t = u => view'[r][t][k] = view[r][t][k]
            BY <1>0, <6>1, <6>2
          <6>4. t # u => view'[r][t] = view[r][t]
            BY <1>0, <6>1
          <6> QED
            BY <6>3, <6>4
        <5> QED
          BY <5>1, <5>2
      <4>2. ASSUME NEW d \in Conn, Coming(d, r, t, k)
            PROVE  Coming(d, r, t, k)'
        BY <3>2, <3>5, <4>2 DEF Coming, Carries
      <4> QED
        BY <1>5, <2>0, <3>2, <4>1, <4>2
    <3> QED
      BY <3>4, <3>5
  <2>5. CASE EndBroadcast(c)
    <3>1. /\ UNCHANGED <<customProperty, view, todo>> /\ todo[c] = {}
          /\ pc[c] = "broadcasting" /\ packet[c].left = {}
      BY <1>0, <2>5 DEF EndBroadcast, Goto, SendersInv
    <3>2. \A d \in Conn : Coming(d, r, t, k) => d # c
      BY <3>1 DEF Coming
    <3> QED
      BY <1>5, <2>0, <3>1, <3>2 DEF Coming, Carries
  <2> QED
    BY <1>7, <2>1, <2>2, <2>3, <2>4, <2>5 DEF PlainPacket
<1>8. CASE PlainClose(c)
  <2>1. r # c
    BY <1>8, CloseFrame DEF Connected
  <2>2. Connected(r) /\ view'[r] = view[r] /\ packet' = packet
    BY <1>8, <2>1, CloseFrame DEF Connected
  <2>3. customProperty' = customProperty
    BY <1>8, <2>2, NoWipe DEF Quiet
  <2>4. ASSUME NEW d \in Conn, Coming(d, r, t, k)
        PROVE  Coming(d, r, t, k)'
    <3>1. d # c
      BY <1>8, <2>4, CarriersAtIt, CloseFrame DEF Coming
    <3> QED
      BY <1>8, <2>1, <2>2, <2>4, <3>1, CloseFrame DEF Coming, Carries
  <2> QED
    BY <1>5, <2>2, <2>3, <2>4
<1> QED
  BY <1>6, <1>7, <1>8

(* A property set while its table is being told is raced; the walk takes in*)
(* what is there when it comes by.                                         *)
LEMMA JoinerStep ==
  ASSUME TypeOK, TypeOK', AllIn, ToldInv, OneJoins, SendersInv, WalkInv,
         JoinerInv,
         NEW c \in Conn, PlainJoin(c) \/ PlainPacket(c) \/ PlainClose(c)
  PROVE  JoinerInv'
<1> DEFINE TakenIn(r, t, k) ==
      \/ info[r][t][k] = customProperty[t][k]
      \/ t \in tables[r]
      \/ /\ walk[r] # NoWalk /\ walk[r].table = t
         /\ k \in walk[r].due \ walk[r].seen
<1> SUFFICES ASSUME NEW t \in Table, NEW k \in Key, NEW r \in Conn, Quiet(t, k)'
             PROVE  /\ pc'[r] = "sent" => view'[r][t][k] = customProperty'[t][k]
                    /\ pc'[r] = "encoding" => TakenIn(r, t, k)'
  BY DEF JoinerInv
<1> USE DEF ToldInv
<1>0. /\ pc \in [Conn -> Steps] /\ tables \in [Conn -> SUBSET Table]
      /\ walk \in [Conn -> Walk \cup {NoWalk}] /\ NoWalk \notin Walk
      /\ info \in [Conn -> [Table -> [Key -> Nat]]]
      /\ view \in [Conn -> [Table -> [Key -> Nat]]]
      /\ customProperty \in [Table -> [Key -> Nat]]
  BY PropertiesAssumption DEF TypeOK, TableTypeOK
<1>1. CASE PlainCreate(c)
  <2>1. /\ pc'[c] = "encoding" /\ tables'[c] = Held'
        /\ \A d \in Conn \ {c} : pc'[d] \notin {"encoding", "sent"}
    BY <1>0, <1>1 DEF PlainCreate, Goto, Joining
  <2> QED
    BY <2>1 DEF Quiet
<1> SUFFICES ASSUME ~PlainCreate(c)
             PROVE  /\ pc'[r] = "sent" => view'[r][t][k] = customProperty'[t][k]
                    /\ pc'[r] = "encoding" => TakenIn(r, t, k)'
  BY <1>1
<1>2. Quiet(t, k)
  BY QuietBefore
<1>3. /\ pc[r] = "sent" => view[r][t][k] = customProperty[t][k]
      /\ pc[r] = "encoding" => TakenIn(r, t, k)
  BY <1>2 DEF JoinerInv
<1>4. CASE PlainJoin(c)
  <2>1. customProperty' = customProperty
    BY <1>4, JoinFrame
  <2>2. CASE r # c
    BY <1>3, <1>4, <2>1, <2>2, JoinFrame
  <2>3. ASSUME r = c, NEW u \in Table, EncodeTable(c, u)
        PROVE  pc'[c] = "encoding" /\ TakenIn(c, t, k)'
    <3>1. /\ pc[c] = "encoding" /\ pc' = pc /\ walk[c] = NoWalk
          /\ UNCHANGED <<info, customProperty>> /\ u \in tables[c]
          /\ tables'[c] = tables[c] \ {u} /\ walk'[c] = BeginWalk(u)
      BY <1>0, <2>3 DEF EncodeTable
    <3>2. CASE t = u
      <4>1. info[c][t][k] = Unset
        BY <3>1, <3>2 DEF OneJoins
      <4>2. /\ walk'[c].table = t /\ walk'[c].due = KeysOf(t)
            /\ walk'[c].seen = {} /\ walk'[c] # NoWalk
        BY <1>0, <3>1, <3>2 DEF BeginWalk, Walk, KeysOf
      <4> QED
        BY <3>1, <3>2, <4>1, <4>2 DEF KeysOf
    <3>3. CASE t # u
      BY <1>3, <2>3, <3>1, <3>3
    <3> QED
      BY <3>1, <3>2, <3>3
  <2>4. ASSUME r = c, NEW l \in Key, EncodeEntry(c, l)
        PROVE  pc'[c] = "encoding" /\ TakenIn(c, t, k)'
    <3>1. PICK u \in Table : u = walk[c].table
      BY <1>0, <2>4 DEF EncodeEntry, Walk
    <3>2. /\ walk'[c].table = u /\ walk'[c].due = walk[c].due
          /\ walk'[c].seen = walk[c].seen \cup {l} /\ walk'[c] # NoWalk
      <4>1. walk'[c] = [walk[c] EXCEPT !.seen = @ \cup {l}] /\ walk[c] \in Walk
        BY <1>0, <2>4 DEF EncodeEntry
      <4>2. walk'[c] \in Walk
        BY <4>1 DEF Walk
      <4> QED
        BY <1>0, <3>1, <4>1, <4>2 DEF Walk
    <3>3. /\ pc[c] = "encoding" /\ pc' = pc
          /\ UNCHANGED <<tables, customProperty>>
          /\ info' = [info EXCEPT ![c][u][l] = customProperty[u][l]]
      BY <2>4, <3>1 DEF EncodeEntry, OneJoins
    <3>4. /\ info'[c][u][l] = customProperty[u][l]
          /\ t # u \/ k # l => info'[c][t][k] = info[c][t][k]
      BY <1>0, <3>3
    <3> QED
      BY <1>3, <2>4, <3>1, <3>2, <3>3, <3>4
  <2>5. ASSUME r = c, EndTable(c)
        PROVE  pc'[c] = "encoding" /\ TakenIn(c, t, k)'
    <3>1. /\ pc[c] = "encoding" /\ pc' = pc /\ walk[c] # NoWalk
          /\ UNCHANGED <<tables, info, customProperty>>
          /\ WalkEnds(walk[c]) \/ WalkBroken(walk[c])
      BY <2>5 DEF EndTable, OneJoins
    <3>2. walk[c].due \subseteq KeysOf(walk[c].table)
      BY <3>1 DEF WalkInv
    <3>3. walk[c].due \subseteq walk[c].seen
      BY <3>1, <3>2 DEF WalkEnds, WalkBroken
    <3> QED
      BY <1>3, <2>5, <3>1, <3>3
  <2>6. CASE r = c /\ SendInfo(c)
    BY <1>0, <1>3, <2>1, <2>6 DEF SendInfo, Goto
  <2>7. CASE r = c /\ MarkConnected(c)
    BY <1>0, <2>7 DEF MarkConnected, Goto
  <2> QED
    BY <1>4, <2>2, <2>3, <2>4, <2>5, <2>6, <2>7 DEF PlainJoin
<1>5. CASE PlainPacket(c)
  <2>1. CASE r \notin Joining
    BY <1>5, <2>1, PacketFrame DEF Connected, Joining
  <2>2. CASE r \in Joining
    <3>1. r # c /\ ~isConnected[r]
      BY <1>5, <2>2, PacketFrame DEF Connected, Joining, StageInv
    <3>2. view'[r] = view[r]
      <4>1. ASSUME NEW u \in Table, NEW keys \in SUBSET Key,
                   ReceiveSetHash(c, u, keys)
            PROVE  view'[r] = view[r]
        BY <1>0, <3>1, <4>1 DEF ReceiveSetHash
      <4>2. ASSUME NEW q \in Conn, Deliver(c, q)
            PROVE  view'[r] = view[r]
        BY <1>0, <3>1, <4>2 DEF Deliver
      <4> QED
        BY <1>5, <4>1, <4>2 DEF PlainPacket, PlainSet, PlainBegin,
           EndBroadcast
    <3>3. customProperty'[t][k] = customProperty[t][k]
      <4>1. ASSUME NEW l \in Key, PlainSet(c, l)
            PROVE  customProperty'[t][k] = customProperty[t][k]
        <5>1. PICK u \in Table : u = packet[c].table
          BY DEF TypeOK, Packet
        <5>2. <<u, l>> \in raced'
          BY <2>2, <4>1, <5>1 DEF PlainSet
        <5>3. t # u \/ k # l
          BY <5>2 DEF Quiet
        <5> QED
          BY <1>0, <4>1, <5>1, <5>3 DEF PlainSet, SetProperty
      <4> QED
        BY <1>5, <4>1 DEF PlainPacket, ReceiveSetHash, PlainBegin, Deliver,
           EndBroadcast
    <3> QED
      BY <1>3, <1>5, <3>1, <3>2, <3>3, PacketFrame DEF joinVars
  <2> QED
    BY <2>1, <2>2
<1>6. CASE PlainClose(c)
  <2>1. CASE r \notin Joining
    BY <1>6, <2>1, CloseFrame DEF Joining
  <2>2. CASE r \in Joining
    <3>1. customProperty' = customProperty /\ r # c
      BY <1>6, <2>2, NoWipe, CloseFrame DEF Quiet, Joining
    <3>2. t \in tables[r] => t \in tables'[r]
      <4>1. CASE PlainRemove(c)
        <5>1. t # c
          BY <4>1, PropertiesAssumption DEF PlainRemove, Quiet, Held
        <5> QED
          BY <4>1, <5>1 DEF PlainRemove
      <4> QED
        BY <1>6, <4>1 DEF PlainClose, CountPlayers, Wipe, Renumber, joinVars
    <3> QED
      BY <1>3, <1>6, <3>1, <3>2, CloseFrame
  <2> QED
    BY <2>1, <2>2
<1> QED
  BY <1>4, <1>5, <1>6

---------------------------------------------------------------------------

(* The inductive invariant, on top of those above.                         *)
LEMMA ConvergeInvariant == Spec => []ConvergeInv
<1>1. Init => ConvergeInv
  <2> SUFFICES ASSUME Init PROVE ConvergeInv
    OBVIOUS
  <2>1. /\ \A c \in Conn : /\ pc[c] = "outside" /\ packet[c].keys = {}
                           /\ tables[c] = {} /\ walk[c] = NoWalk
                           /\ info[c] = NoProperties /\ isConnected[c] = FALSE
    BY DEF Init, EmptyRoom, NoPacket
  <2>2. \A t \in Table, k \in Key : AtMost(t, k, Unset)
    BY DEF Init, EmptyRoom, TableInit, NoProperties, AtMost, Unset
  <2> QED
    BY <2>1, <2>2 DEF ConvergeInv, OneJoins, Joining, SendersInv, Connected,
       FreshInv, WalkInv, AgreeInv, CarriedInv, Carries, JoinerInv
<1>2. TypeOK /\ TypeOK' /\ NumberInv /\ ToldInv /\ ConvergeInv /\ [Next]_vars
        => ConvergeInv'
  <2>1. ConvergeInv /\ UNCHANGED vars => ConvergeInv'
    BY DEF vars, joinVars, packetVars, historyVars, ConvergeInv, OneJoins,
       Joining, SendersInv, Connected, FreshInv, WalkInv, KeysOf, AgreeInv,
       Coming, Quiet, Held, CarriedInv, Carries, JoinerInv, AtMost
  <2>2. ASSUME ConvergeInv, NEW c \in Conn, Crash(c)
        PROVE  ConvergeInv'
    BY <2>2 DEF Crash, joinVars, packetVars, historyVars, ConvergeInv,
       OneJoins,
       Joining, SendersInv, Connected, FreshInv, WalkInv, KeysOf, AgreeInv,
       Coming, Quiet, Held, CarriedInv, Carries, JoinerInv, AtMost
  <2>3. ASSUME TypeOK, TypeOK', NumberInv, ToldInv, ConvergeInv, NEW c \in Conn,
               JoinStep(c) \/ PacketStep(c) \/ CloseStep(c), ~wiped'
        PROVE  ConvergeInv'
    <3>1. ~wiped
      BY <2>3, WipedStays
    <3>2. AllIn /\ (PlainJoin(c) \/ PlainPacket(c) \/ PlainClose(c))
      BY <2>3, <3>1, PlainSteps
    <3> QED
      BY <2>3, <3>1, <3>2, OneJoinsStep, SendersStep, FreshStep, WalkStep,
         CarriedStep, AgreeStep, JoinerStep DEF ConvergeInv, ToldInv
  <2>4. wiped' => ConvergeInv'
    BY DEF ConvergeInv
  <2> QED
    BY <2>1, <2>2, <2>3, <2>4, StepKinds
<1> QED
  BY <1>1, <1>2, TypeCorrect, ToldInvariant, NumberInvariant, PTL DEF Spec

(* Whatever joins, departures and messages overlap: at rest every client   *)
(* has, of every property the exceptions leave, the value the server has.  *)
THEOREM CopiesConverge == Spec => []Converged
<1>1. TypeOK /\ NumberInv /\ ToldInv /\ ConvergeInv => Converged
  <2> SUFFICES ASSUME TypeOK, NumberInv, ToldInv, ConvergeInv, ~wiped,
                      \A c \in Conn : pc[c] \in {"outside", "reading", "gone"},
                      NEW r \in playerHash, NEW t \in Held, NEW k \in Key,
                      <<t, k>> \notin contested \cup raced
               PROVE  view[r][t][k] = customProperty[t][k]
    BY DEF Converged
  <2>1. r \in Conn /\ t \in Table /\ Quiet(t, k)
    BY DEF TypeOK, Held, Quiet
  <2>2. Connected(r)
    BY <2>1 DEF NumberInv, Members, Connected
  <2>3. \A c \in Conn : ~Carries(c, t, k)
    BY <2>1, CarriersAtIt DEF ToldInv
  <2> QED
    BY <2>1, <2>2, <2>3 DEF ConvergeInv, AgreeInv, Coming
<1> QED
  BY <1>1, TypeCorrect, ToldInvariant, NumberInvariant, ConvergeInvariant, PTL
=============================================================================
