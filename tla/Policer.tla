------------------------------ MODULE Policer ------------------------------
(***************************************************************************)
(* The flow table of the policer: policer_main.c with several              *)
(* destinations, on the hash table of MapImpl.  policer_expire_entries     *)
(* hands the vector of buckets to expire_items_single_map where the vector *)
(* of keys belongs, so map_erase is called with the first four bytes of a  *)
(* bucket for a key.  The table is therefore not FlowTable's, and a call   *)
(* is followed through the loop of the expirator, one erase per step.      *)
(***************************************************************************)
EXTENDS Bucket

CONSTANTS
  Dsts,          \* destinations, as the uint32_t of an IPv4 header
  Uints,         \* the number of values of a uint32_t
  Sizes,         \* packet sizes
  max_flows,     \* the capacity of map, vectors and chain
  MaxTime        \* bound on the time of the model

VARIABLES
  busybits, khs, chns, vals, size, trash,   \* the map fm
  fk, fv, heap,  \* keys, buckets, and the time of each index or Free
  now, pkt,      \* the time and the packet of nf_core_process
  index,         \* the index that expired or was allocated
  pc             \* "idle", "expire", "erase", "police" or "put"

map == <<busybits, khs, chns, vals, size, trash>>
vars == <<busybits, khs, chns, vals, size, trash, fk, fv, heap, now, pkt, index, pc>>

Free == -1
Indexes == 0 .. max_flows - 1
Live == {i \in Indexes : heap[i] # Free}

\* policer_flow_hash, for addresses below INT_MAX
policer_flow_hash == [ip \in 0 .. Uints - 1 |-> ip * 31]

fm == INSTANCE MapImpl WITH capacity <- max_flows

\* A stored key pointer leads into fk, to the index that was put with it.
keyps == [s \in Indexes |-> fk[vals[s]]]

\* map_get: the slot of a key, or -1.
slot_of(key) == fm!find_key(busybits, keyps, khs, chns, key, policer_flow_hash[key])

\* alloc_state; the vectors are not initialised.
Init ==
  /\ busybits = [s \in Indexes |-> 0] /\ chns = [s \in Indexes |-> 0]
  /\ khs = [s \in Indexes |-> 0] /\ vals = [s \in Indexes |-> 0]
  /\ size = 0 /\ trash = {}
  /\ fk \in [Indexes -> Dsts]
  /\ fv = [i \in Indexes |-> [bucket_size |-> 0, bucket_time |-> 0]]
  /\ heap = [i \in Indexes |-> Free]
  /\ now = 0 /\ pkt = << >> /\ index = 0 /\ pc = "idle"

\* nf_core_process; a packet that is not IPv4 is sent back at once.
Arrive(dst, bytes, time) ==
  /\ pc = "idle"
  /\ now' = time
  /\ pkt' = [dst |-> dst, size |-> bytes]
  /\ pc' = "expire"
  /\ UNCHANGED <<map, fk, fv, heap, index>>

\* The border is burst/rate, in seconds, before now, in nanoseconds.
last_time == now - burst \div rate

dchain_expire_one_index ==
  /\ pc = "expire"
  /\ \/ \E i \in Live :
          /\ \A j \in Live : heap[i] <= heap[j]
          /\ heap[i] < last_time
          /\ heap' = [heap EXCEPT ![i] = Free]
          /\ index' = i
          /\ pc' = "erase"
     \/ /\ \A i \in Live : heap[i] >= last_time
        /\ pc' = "police"
        /\ UNCHANGED <<heap, index>>
  /\ UNCHANGED <<map, fk, fv, now, pkt>>

\* vector_borrow on fv and map_erase: the low half of bucket_size is the key.
map_erase ==
  /\ pc = "erase"
  /\ LET key == fv[index].bucket_size % Uints
         removed == fm!find_key_remove_chain(busybits, keyps, khs, chns, key,
                                             policer_flow_hash[key])
     IN  busybits' = removed.busybits /\ chns' = removed.chns /\ trash' = removed.keyp_out
  /\ size' = size - 1
  /\ pc' = "expire"
  /\ UNCHANGED <<khs, vals, fk, fv, heap, now, pkt, index>>

\* A packet that did not come from the WAN device is not policed.
NotPoliced ==
  /\ pc = "police"
  /\ pc' = "idle"
  /\ UNCHANGED <<map, fk, fv, heap, now, pkt, index>>

\* policer_check_tb for a destination the map finds.  Its index may have
\* expired: then it is not rejuvenated, and its bucket is used all the same.
KnownFlow ==
  LET slot == slot_of(pkt.dst)
      i == vals[slot]
      tokens == Refill(fv[i].bucket_size, now - fv[i].bucket_time)
  IN  /\ pc = "police"
      /\ slot # -1
      /\ heap' = [heap EXCEPT ![i] = IF @ = Free THEN Free ELSE now]
      /\ fv' = [fv EXCEPT ![i] =
                  [bucket_size |-> IF tokens > pkt.size THEN tokens - pkt.size
                                   ELSE tokens,
                   bucket_time |-> now]]
      /\ pc' = "idle"
      /\ UNCHANGED <<map, fk, now, pkt, index>>

\* A packet larger than a burst is dropped, and one without a free index; for
\* any other the index is allocated, and the key and the bucket are written.
NewFlow ==
  /\ pc = "police"
  /\ slot_of(pkt.dst) = -1
  /\ \/ /\ pkt.size <= burst
        /\ \E i \in Indexes \ Live :
             /\ heap' = [heap EXCEPT ![i] = now]
             /\ fk' = [fk EXCEPT ![i] = pkt.dst]
             /\ fv' = [fv EXCEPT ![i] =
                         [bucket_size |-> burst - pkt.size, bucket_time |-> now]]
             /\ index' = i
        /\ pc' = "put"
     \/ /\ pkt.size > burst \/ Live = Indexes
        /\ pc' = "idle"
        /\ UNCHANGED <<fk, fv, heap, index>>
  /\ UNCHANGED <<map, now, pkt>>

\* map_put; without an empty slot it writes outside of the arrays, and what
\* follows is not modelled.
map_put ==
  LET hash == policer_flow_hash[pkt.dst]
      slot == fm!FirstEmpty(busybits, hash)
  IN  /\ pc = "put"
      /\ slot # -1
      /\ chns' = fm!find_empty(busybits, chns, hash)
      /\ busybits' = [busybits EXCEPT ![slot] = 1]
      /\ khs' = [khs EXCEPT ![slot] = hash]
      /\ vals' = [vals EXCEPT ![slot] = index]
      /\ size' = size + 1
      /\ pc' = "idle"
      /\ UNCHANGED <<trash, fk, fv, heap, now, pkt, index>>

Next ==
  \/ \E dst \in Dsts, bytes \in Sizes, time \in now .. MaxTime :
       Arrive(dst, bytes, time)
  \/ dchain_expire_one_index
  \/ map_erase
  \/ NotPoliced
  \/ KnownFlow
  \/ NewFlow
  \/ map_put

Spec == Init /\ [][Next]_vars

-----------------------------------------------------------------------------
(* Properties.                                                             *)

\* map_put is called only while the map holds fewer keys than its capacity, as
\* map.h asks: the chain hands out at most max_flows indexes, and the expiry
\* of an index is meant to take its key out of the map.
PutHasRoom == pc = "put" => fm!FirstEmpty(busybits, policer_flow_hash[pkt.dst]) # -1
=============================================================================
