----------------------------- MODULE Expirator -----------------------------
(***************************************************************************)
(* expire_items_single_map of expirator.c, one iteration of its loop per   *)
(* step: the oldest index leaves the chain, its key is borrowed from the   *)
(* vector and erased from the map.  FlowTable!Expire is what the NFs use   *)
(* for the whole call; here the loop is shown to compute it.               *)
(***************************************************************************)
EXTENDS FlowTable

VARIABLES
  chain, vector, map,   \* the arguments
  border,               \* the border
  count, index,         \* the local variables
  entry,                \* history: the table the loop started from
  pc                    \* "loop", "erase" or "done"

expiratorVars == <<chain, vector, map, border, count, index, entry, pc>>

loop_table == [map |-> map, vec |-> vector, heap |-> chain]

\* Any call that keeps the contract of expirator.h.
ExpiratorInit ==
  /\ entry \in Tables /\ Coherent(entry)
  /\ map = entry.map /\ vector = entry.vec /\ chain = entry.heap
  /\ border \in -1 .. MaxTime + 1
  /\ count = 0
  /\ index = -1
  /\ pc = "loop"

Oldest(i) == i \in Live(loop_table) /\ \A j \in Live(loop_table) : chain[i] <= chain[j]

\* Mutant of dchain_expire_one_index: any index of the chain may be looked at.
ExpireAny ==
  /\ pc = "loop"
  /\ \/ \E i \in Live(loop_table) :
          /\ index' = i
          /\ \/ /\ chain[i] < border
                /\ chain' = [chain EXCEPT ![i] = Free]
                /\ pc' = "erase"
             \/ /\ chain[i] >= border
                /\ pc' = "done"
                /\ UNCHANGED chain
     \/ /\ Live(loop_table) = {}
        /\ pc' = "done"
        /\ UNCHANGED <<chain, index>>
  /\ UNCHANGED <<vector, map, border, count, entry>>

\* The condition of the loop, by the contract of double-chain.h.
dchain_expire_one_index ==
  /\ pc = "loop"
  /\ \/ \E i \in Live(loop_table) :
          /\ Oldest(i)
          /\ index' = i
          /\ \/ /\ chain[i] < border
                /\ chain' = [chain EXCEPT ![i] = Free]
                /\ pc' = "erase"
             \/ /\ chain[i] >= border
                /\ pc' = "done"
                /\ UNCHANGED chain
     \/ /\ Live(loop_table) = {}
        /\ pc' = "done"
        /\ UNCHANGED <<chain, index>>
  /\ UNCHANGED <<vector, map, border, count, entry>>

\* Mutant of EraseKey: the key is not erased.
EraseNothing ==
  /\ pc = "erase"
  /\ count' = count + 1
  /\ pc' = "loop"
  /\ UNCHANGED <<chain, vector, map, border, index, entry>>

\* vector_borrow, map_erase, vector_return, ++count
EraseKey ==
  /\ pc = "erase"
  /\ map' = [map EXCEPT ![vector[index]] = Absent]
  /\ count' = count + 1
  /\ pc' = "loop"
  /\ UNCHANGED <<chain, vector, border, index, entry>>

ExpiratorNext ==
  \/ dchain_expire_one_index
  \/ EraseKey
  \/ pc = "done" /\ UNCHANGED expiratorVars

ExpiratorSpec == ExpiratorInit /\ [][ExpiratorNext]_expiratorVars

-----------------------------------------------------------------------------
(* Properties.                                                             *)

\* map_erase is only called for a key that is in the map, as map.h asks, and
\* whenever the loop is at its condition the table is coherent again
\* (map_vec_chain_coherent).
CoherentAtLoop ==
  /\ pc = "erase" => map[vector[index]] = index
  /\ pc # "erase" => Coherent(loop_table)

\* When the loop ends, exactly the indexes stamped before the border are gone,
\* each with its key, and they have been counted.
ExpiresExactly ==
  pc = "done" => /\ loop_table = Expire(entry, border)
                 /\ count = Cardinality(Live(entry) \ Live(loop_table))
=============================================================================
