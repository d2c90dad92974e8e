----------------------------- MODULE FlowTable -----------------------------
(***************************************************************************)
(* The state the NFs keep per flow, at the level of the containers'        *)
(* contracts: a map from keys to indexes (map.h), a vector that holds the  *)
(* key of every index (vector.h) and an allocator of indexes that stamps   *)
(* them (double-chain.h).  A table is a record of the three, and every     *)
(* operation is an operator on tables, so that an NF can do several of     *)
(* them while it handles one packet.                                       *)
(***************************************************************************)
EXTENDS Integers, FiniteSets

CONSTANTS
  Keys,       \* the keys of the map
  Capacity,   \* the number of indexes
  MaxTime     \* bound on the time of the model

ASSUME FlowTableAssumption == Capacity \in Nat \ {0} /\ MaxTime \in Nat

Absent == -1      \* the map has no index for the key
Free == -1        \* the allocator has not handed the index out

Indexes == 0 .. Capacity - 1
Times == 0 .. MaxTime

Tables == [map : [Keys -> Indexes \cup {Absent}],
           vec : [Indexes -> Keys],
           heap : [Indexes -> Times \cup {Free}]]

Live(t) == {i \in Indexes : t.heap[i] # Free}

\* An empty table; nothing initialises the vector.
Empty(t) ==
  /\ t.map = [k \in Keys |-> Absent]
  /\ t.vec \in [Indexes -> Keys]
  /\ t.heap = [i \in Indexes |-> Free]

\* Mutant of Expire: the expired indexes are freed, their keys stay mapped.
ExpireKeepingKeys(t, border) ==
  LET gone == {i \in Live(t) : t.heap[i] < border}
  IN  [t EXCEPT !.heap = [i \in Indexes |-> IF i \in gone THEN Free ELSE t.heap[i]]]

\* expire_items_single_map: one index after the other, oldest first, until
\* none is left that was stamped before the border.
Expire(t, border) ==
  LET gone == {i \in Live(t) : t.heap[i] < border}
      erased == {t.vec[i] : i \in gone}
  IN  [t EXCEPT !.map = [k \in Keys |-> IF k \in erased THEN Absent ELSE t.map[k]],
                !.heap = [i \in Indexes |-> IF i \in gone THEN Free ELSE t.heap[i]]]

\* dchain_rejuvenate_index
Rejuvenate(t, i, time) ==
  [t EXCEPT !.heap[i] = IF @ = Free THEN Free ELSE time]

\* Mutant of Insert: the map is given the number of the cell, not the index.
InsertShifted(t, key, i, time) ==
  [t EXCEPT !.map[key] = i + 2, !.vec[i] = key, !.heap[i] = time]

\* Mutant of Insert: the key is not copied into the vector.
InsertWithoutKey(t, key, i, time) ==
  [t EXCEPT !.map[key] = i, !.heap[i] = time]

\* dchain_allocate_new_index returned i; the key goes into the vector and,
\* with the index, into the map.
Insert(t, key, i, time) ==
  [t EXCEPT !.map[key] = i, !.vec[i] = key, !.heap[i] = time]

\* map_vec_chain_coherent: every index handed out has its key in the vector
\* and the map leads from that key back to it, and the map leads nowhere else.
Coherent(t) ==
  /\ \A i \in Live(t) : t.map[t.vec[i]] = i
  /\ \A k \in Keys : t.map[k] # Absent => /\ t.map[k] \in Live(t)
                                          /\ t.vec[t.map[k]] = k
=============================================================================
