------------------------------ MODULE HashMap ------------------------------
(***************************************************************************)
(* The hash table of libVig: struct Map of map.c on the functions of       *)
(* map-impl.c.                                                             *)
(***************************************************************************)
EXTENDS MapImpl

CONSTANTS
  Keys,       \* the keys callers use
  Hashes,     \* the values khash may take
  Values      \* the ints callers store

ASSUME HashesAssumption == Hashes \subseteq Int

VARIABLES
  busybits, keyps, khs, chns, vals,   \* the arrays of struct Map
  size, khash,                        \* and its fields
  ret,        \* what the last call returned
  out,        \* what the last call stored through its output pointer, if it did
  call        \* the last call and its arguments, for the contract to refer to

arrays == <<busybits, keyps, khs, chns, vals>>
vars == <<busybits, keyps, khs, chns, vals, size, khash, ret, out, call>>

-----------------------------------------------------------------------------
(* map.c: the interface.                                                   *)

map_impl_put(key, value) ==
  LET s == FirstEmpty(busybits, khash[key])
  IN  /\ chns' = find_empty(busybits, chns, khash[key])
      /\ busybits' = [busybits EXCEPT ![s] = 1]
      /\ keyps' = [keyps EXCEPT ![s] = key]
      /\ khs' = [khs EXCEPT ![s] = khash[key]]
      /\ vals' = [vals EXCEPT ![s] = value]

Busy == {s \in Slots : busybits[s] # 0}
Stored == {keyps[s] : s \in Busy}

\* map_allocate and map_impl_init: the arrays they set, and the fields.
map_allocate ==
  /\ khash \in [Keys -> Hashes]
  /\ busybits = [s \in Slots |-> 0]
  /\ chns = [s \in Slots |-> 0]
  /\ size = 0
  /\ ret = 0
  /\ out = {}
  /\ call = <<"map_allocate">>

\* The other arrays hold whatever malloc left in them.
Init ==
  /\ map_allocate
  /\ keyps \in [Slots -> Keys]
  /\ khs \in [Slots -> Hashes]
  /\ vals \in [Slots -> Values]

map_get(key) ==
  LET s == find_key(busybits, keyps, khs, chns, key, khash[key])
  IN  /\ ret' = IF s = -1 THEN 0 ELSE 1
      /\ out' = IF s = -1 THEN {} ELSE {vals[s]}
      /\ UNCHANGED <<arrays, size, khash>>

\* Callers keep to map.h: the key is absent and the map is not full.
map_put(key, value) ==
  /\ key \notin Stored
  /\ Cardinality(Busy) < capacity
  /\ map_impl_put(key, value)
  /\ size' = size + 1
  /\ ret' = 0
  /\ out' = {}
  /\ UNCHANGED khash

\* Callers keep to map.h: the key is present.
map_erase(key) ==
  /\ key \in Stored
  /\ LET removed == find_key_remove_chain(busybits, keyps, khs, chns, key, khash[key])
     IN  busybits' = removed.busybits /\ chns' = removed.chns /\ out' = removed.keyp_out
  /\ size' = size - 1
  /\ ret' = 0
  /\ UNCHANGED <<keyps, khs, vals, khash>>

map_size ==
  /\ ret' = size
  /\ out' = {}
  /\ UNCHANGED <<arrays, size, khash>>

Next ==
  \/ \E key \in Keys : map_get(key) /\ call' = <<"get", key>>
  \/ \E key \in Keys, value \in Values :
       map_put(key, value) /\ call' = <<"put", key, value>>
  \/ \E key \in Keys : map_erase(key) /\ call' = <<"erase", key>>
  \/ map_size /\ call' = <<"size">>

Spec == Init /\ [][Next]_vars

-----------------------------------------------------------------------------
(* Properties.                                                             *)

\* The chain counter of every slot is the number of stored keys whose probe
\* steps over it, every busy slot carries its key's hash, no key is stored
\* twice and size counts the busy slots: an erase walks back exactly the steps
\* the put of that key took, whatever was put and erased in between.
ChainsCount ==
  /\ \A s \in Busy : khs[s] = khash[keyps[s]]
  /\ \A s, t \in Busy : keyps[s] = keyps[t] => s = t
  /\ \A t \in Slots :
       chns[t] = Cardinality({s \in Busy : t \in Passed(khs[s], s)})
  /\ size = Cardinality(Busy)

SlotOf(key) == CHOOSE s \in Busy : keyps[s] = key

Contents == [key \in Stored |-> vals[SlotOf(key)]]

Map == INSTANCE KeyMap WITH contents <- Contents

\* The table implements the partial function of map.h: a lookup finds a key if
\* and only if it was put and not erased since, with the value it was put
\* with, although it may stop at the first slot that ends every chain.
ImplementsKeyMap == Map!Spec
=============================================================================
