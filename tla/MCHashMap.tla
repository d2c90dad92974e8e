----------------------------- MODULE MCHashMap -----------------------------
(***************************************************************************)
(* An instance of HashMap for TLC: as many keys as slots, every hash       *)
(* function into three hashes, two of which start at the same slot.  The   *)
(* keys serve as values too: a key is put with itself for its value, so    *)
(* that no two keys share one and both stay interchangeable.               *)
(***************************************************************************)
EXTENDS HashMap, TLC

\* What malloc left in the arrays is the same in every slot.
MCInit ==
  /\ map_allocate
  /\ \E key \in Keys : /\ keyps = [s \in Slots |-> key]
                        /\ vals = [s \in Slots |-> key]
  /\ \E hash \in Hashes : khs = [s \in Slots |-> hash]

MCNext ==
  \/ \E key \in Keys :
       \/ map_get(key) /\ call' = <<"get", key>>
       \/ map_put(key, key) /\ call' = <<"put", key, key>>
       \/ map_erase(key) /\ call' = <<"erase", key>>
  \/ map_size /\ call' = <<"size">>

MCSpec == MCInit /\ [][MCNext]_vars

KeySymmetry == Permutations(Keys)
=============================================================================
