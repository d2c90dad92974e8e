----------------------------- MODULE DoubleMap -----------------------------
(***************************************************************************)
(* The double map of libVig, double-map.c: one array of values with a hash *)
(* table over each of the two keys a value holds, both on map-impl.c.  The *)
(* tables store pointers to the keys inside of the values, so a value must *)
(* stay as it is until both have let go of it.  expire_items of            *)
(* expirator.c takes the values out that a chain of indexes, here at its   *)
(* contract, lets expire; its loop is followed step by step.               *)
(***************************************************************************)
EXTENDS MapImpl

CONSTANTS
  KeysA, KeysB,   \* a value is a pair of keys
  hsh_a, hsh_b,   \* their hashes
  MaxClock        \* bound on the time of the model

ASSUME DmapAssumption == hsh_a \in [KeysA -> Int] /\ hsh_b \in [KeysB -> Int]

VARIABLES
  dm_values, n_vals,              \* values, and their number
  bbs_a, khs_a, chns_a, inds_a,   \* the table of the first keys
  bbs_b, khs_b, chns_b, inds_b,   \* the table of the second keys
  dm_chain,       \* the time of each index, or NoTime
  clock, dm_border,   \* the time, and the one expire_items is called with
  expired,        \* the index that left the chain last
  at              \* "idle", or where expire_items is: "loop" or "erase"

tables == <<bbs_a, khs_a, chns_a, inds_a, bbs_b, khs_b, chns_b, inds_b>>
dmapVars == <<dm_values, n_vals, tables, dm_chain, clock, dm_border, expired, at>>

NoTime == -1
\* The slots of the tables are also the indexes of the values and of the chain.
InChain == {i \in Slots : dm_chain[i] # NoTime}

\* The indexes whose values the tables hold: one is erased after it has left
\* the chain.
Used == InChain \cup (IF at = "erase" THEN {expired} ELSE {})

\* The key pointers of the tables lead into the values.
kps_a == [s \in Slots |-> dm_values[inds_a[s]][1]]
kps_b == [s \in Slots |-> dm_values[inds_b[s]][2]]

\* dmap_allocate; what malloc leaves in an array is the same in every cell.
DmapInit ==
  LET zero == [s \in Slots |-> 0]
  IN  /\ \E v \in KeysA \X KeysB : dm_values = [i \in Slots |-> v]
      /\ n_vals = 0
      /\ bbs_a = zero /\ khs_a = zero /\ chns_a = zero /\ inds_a = zero
      /\ bbs_b = zero /\ khs_b = zero /\ chns_b = zero /\ inds_b = zero
      /\ dm_chain = [i \in Slots |-> NoTime]
      /\ clock = 0 /\ dm_border = 0 /\ expired = 0 /\ at = "idle"

-----------------------------------------------------------------------------

\* The slot of a key in each of the tables, or -1.
slot_a(key) == find_key(bbs_a, kps_a, khs_a, chns_a, key, hsh_a[key])
slot_b(key) == find_key(bbs_b, kps_b, khs_b, chns_b, key, hsh_b[key])

\* The index a lookup stores, or none.
dmap_get_a(key) == {inds_a[s] : s \in {slot_a(key)} \ {-1}}
dmap_get_b(key) == {inds_b[s] : s \in {slot_b(key)} \ {-1}}

\* map_impl_put on each of the tables; the key is the value's own.
PutA(key, i) ==
  LET s == FirstEmpty(bbs_a, hsh_a[key])
  IN  /\ chns_a' = find_empty(bbs_a, chns_a, hsh_a[key])
      /\ bbs_a' = [bbs_a EXCEPT ![s] = 1]
      /\ khs_a' = [khs_a EXCEPT ![s] = hsh_a[key]]
      /\ inds_a' = [inds_a EXCEPT ![s] = i]

PutB(key, i) ==
  LET s == FirstEmpty(bbs_b, hsh_b[key])
  IN  /\ chns_b' = find_empty(bbs_b, chns_b, hsh_b[key])
      /\ bbs_b' = [bbs_b EXCEPT ![s] = 1]
      /\ khs_b' = [khs_b EXCEPT ![s] = hsh_b[key]]
      /\ inds_b' = [inds_b EXCEPT ![s] = i]

dmap_put(value, i) ==
  /\ dm_values' = [dm_values EXCEPT ![i] = value]
  /\ PutA(value[1], i)
  /\ PutB(value[2], i)
  /\ n_vals' = n_vals + 1

\* map_impl_erase on each of the tables.
EraseA(key) ==
  LET removed == find_key_remove_chain(bbs_a, kps_a, khs_a, chns_a, key, hsh_a[key])
  IN  bbs_a' = removed.busybits /\ chns_a' = removed.chns

EraseB(key) ==
  LET removed == find_key_remove_chain(bbs_b, kps_b, khs_b, chns_b, key, hsh_b[key])
  IN  bbs_b' = removed.busybits /\ chns_b' = removed.chns

\* Mutant of dmap_erase: the second table keeps its key.
EraseFirstOnly(i) ==
  /\ EraseA(dm_values[i][1])
  /\ n_vals' = n_vals - 1
  /\ UNCHANGED <<dm_values, khs_a, inds_a, bbs_b, khs_b, chns_b, inds_b>>

\* The keys are read out of the value, which neither erase may have touched.
dmap_erase(i) ==
  /\ EraseA(dm_values[i][1])
  /\ EraseB(dm_values[i][2])
  /\ n_vals' = n_vals - 1
  /\ UNCHANGED <<dm_values, khs_a, inds_a, khs_b, inds_b>>

\* A caller that keeps the contract of double-map.h and, with its chain, the
\* coherence expire_items asks for: new keys get a new index.
add_flow(value, time) ==
  /\ at = "idle"
  /\ dmap_get_a(value[1]) = {} /\ dmap_get_b(value[2]) = {}
  /\ \E i \in Slots \ InChain :
       /\ dm_chain' = [dm_chain EXCEPT ![i] = time]
       /\ dmap_put(value, i)
  /\ clock' = time
  /\ UNCHANGED <<dm_border, expired, at>>

rejuvenate(i, time) ==
  /\ at = "idle" /\ i \in InChain
  /\ dm_chain' = [dm_chain EXCEPT ![i] = time]
  /\ clock' = time
  /\ UNCHANGED <<dm_values, n_vals, tables, dm_border, expired, at>>

expire_items(time) ==
  /\ at = "idle"
  /\ dm_border' = time
  /\ at' = "loop"
  /\ UNCHANGED <<dm_values, n_vals, tables, dm_chain, clock, expired>>

\* The condition of the loop, by the contract of double-chain.h.
ExpireOneIndex ==
  /\ at = "loop"
  /\ \/ \E i \in InChain :
          /\ \A j \in InChain : dm_chain[i] <= dm_chain[j]
          /\ dm_chain[i] < dm_border
          /\ dm_chain' = [dm_chain EXCEPT ![i] = NoTime]
          /\ expired' = i
          /\ at' = "erase"
     \/ /\ \A i \in InChain : dm_chain[i] >= dm_border
        /\ at' = "idle"
        /\ UNCHANGED <<dm_chain, expired>>
  /\ UNCHANGED <<dm_values, n_vals, tables, clock, dm_border>>

EraseExpired ==
  /\ at = "erase"
  /\ dmap_erase(expired)
  /\ at' = "loop"
  /\ UNCHANGED <<dm_chain, clock, dm_border, expired>>

DmapNext ==
  \/ \E value \in KeysA \X KeysB, time \in clock .. MaxClock : add_flow(value, time)
  \/ \E i \in Slots, time \in clock .. MaxClock : rejuvenate(i, time)
  \/ \E time \in 0 .. MaxClock + 1 : expire_items(time)
  \/ ExpireOneIndex
  \/ EraseExpired

DmapSpec == DmapInit /\ [][DmapNext]_dmapVars

-----------------------------------------------------------------------------
(* Properties.                                                             *)

DmapTypeOK ==
  /\ dm_values \in [Slots -> KeysA \X KeysB]
  /\ n_vals \in 0 .. capacity
  /\ {bbs_a, bbs_b} \subseteq [Slots -> {0, 1}]
  /\ {chns_a, chns_b} \subseteq [Slots -> 0 .. capacity]
  /\ {inds_a, inds_b} \subseteq [Slots -> Slots]
  /\ at \in {"idle", "loop", "erase"}

\* A value is found under both of its keys, and under no other, from its put
\* until the loop erases it, whatever was put and erased before it at its
\* index and at its slots; so that a lookup never leads to an index that is
\* free or has another owner.  n_vals, which dmap_size returns, counts them.
\* (dmap_put, dmap_erase, expire_items)
DoubleMapInSync ==
  /\ \A key \in KeysA : dmap_get_a(key) = {i \in Used : dm_values[i][1] = key}
  /\ \A key \in KeysB : dmap_get_b(key) = {i \in Used : dm_values[i][2] = key}
  /\ n_vals = Cardinality(Used)
=============================================================================
