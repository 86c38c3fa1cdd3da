----------------------------- MODULE HashTable -----------------------------
(***************************************************************************)
(* HashTable (HashTable.cpp, HashTable.h): the properties of the room and  *)
(* of each player.  A value stands for its text and type; values are the   *)
(* numbers of the updates that set them, and Unset is a key that has none. *)
(***************************************************************************)
EXTENDS Naturals

CONSTANTS
  Table,   \* the property tables
  Key      \* the keys

VARIABLE customProperty   \* the tables

Unset == 0

TableTypeOK == customProperty \in [Table -> [Key -> Nat]]

TableInit == customProperty = [t \in Table |-> [k \in Key |-> Unset]]

KeysOf(t) == {k \in Key : customProperty[t][k] # Unset}

SetNothing(t, k, v) ==   \* mutant: the value is not assigned
  UNCHANGED customProperty

(* SetProperty: insert_or_assign under the table's mutex.                  *)
SetProperty(t, k, v) ==
  customProperty' = [customProperty EXCEPT ![t][k] = v]

RemoveFirstProperty(t) ==   \* mutant: erases one entry and not all
  customProperty' = [customProperty EXCEPT ![t] =
    [k \in Key |-> IF \E l \in KeysOf(t) : l # k THEN @[k] ELSE Unset]]

RemoveTable(t) ==   \* mutant: the table itself is given up
  customProperty' = [u \in Table \ {t} |-> customProperty[u]]

(* RemoveAllProperties: clear under the table's mutex.                     *)
RemoveAllProperties(t) ==
  customProperty' = [customProperty EXCEPT ![t] = [k \in Key |-> Unset]]

(***************************************************************************)
(* EncodeToNetwork writes the number of entries and then walks them, and   *)
(* takes no mutex.  A key set meanwhile may or may not be come upon; a     *)
(* walk over a table that is cleared meanwhile has nowhere to go.          *)
(***************************************************************************)
Walk == [table : Table, due : SUBSET Key, seen : SUBSET Key]

BeginWalk(t) == [table |-> t, due |-> KeysOf(t), seen |-> {}]

Visits(w, k) == k \in KeysOf(w.table) \ w.seen

WalkEnds(w) == w.due \subseteq w.seen

WalkBroken(w) == ~(w.due \ w.seen \subseteq KeysOf(w.table))
=============================================================================
