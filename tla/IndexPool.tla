----------------------------- MODULE IndexPool -----------------------------
(***************************************************************************)
(* What double-chain.h promises: an allocator of the indexes 0 .. N-1 that *)
(* stamps every index it hands out with a time and gives back, on demand,  *)
(* the index that was stamped longest ago.  Which free index is handed out *)
(* and the order of equal stamps are left open.                            *)
(***************************************************************************)
EXTENDS Integers

CONSTANTS
  IndexRange,   \* dchain_allocate's index_range
  MaxTime       \* bound on the times a caller may pass

VARIABLES
  live,       \* the indexes handed out and not yet expired
  stamp,      \* stamp[i]: the time index i was last allocated or rejuvenated
  clock,      \* the greatest time a caller has stamped an index with
  ret,        \* what the last call returned
  index_out,  \* what the last call left in *index_out
  call        \* the last call and its arguments

vars == <<live, stamp, clock, ret, index_out, call>>

Indexes == 0 .. IndexRange - 1
Times == 0 .. MaxTime

\* A border of expiry is not a stamp: it may precede or follow all of them.
Borders == -1 .. MaxTime + 1

\* i was stamped no later than any other index that is handed out.
Oldest(i) == i \in live /\ \A j \in live : stamp[i] <= stamp[j]

Init ==
  /\ live = {}
  /\ stamp \in [Indexes -> Times]
  /\ clock = 0
  /\ ret = 0
  /\ index_out = 0
  /\ call = <<"dchain_allocate">>

Allocate(time) ==
  /\ clock <= time
  /\ \/ \E i \in Indexes \ live :
          /\ live' = live \cup {i}
          /\ stamp' = [stamp EXCEPT ![i] = time]
          /\ clock' = time
          /\ ret' = 1
          /\ index_out' = i
     \/ /\ live = Indexes
        /\ ret' = 0
        /\ UNCHANGED <<live, stamp, clock, index_out>>

Rejuvenate(i, time) ==
  /\ clock <= time
  /\ \/ /\ i \in live
        /\ stamp' = [stamp EXCEPT ![i] = time]
        /\ clock' = time
        /\ ret' = 1
     \/ /\ i \notin live
        /\ ret' = 0
        /\ UNCHANGED <<stamp, clock>>
  /\ UNCHANGED <<live, index_out>>

ExpireOne(border) ==
  /\ \/ /\ live = {}
        /\ ret' = 0
        /\ UNCHANGED <<live, index_out>>
     \/ \E i \in live :
          /\ Oldest(i)
          /\ index_out' = i
          /\ \/ stamp[i] < border /\ ret' = 1 /\ live' = live \ {i}
             \/ stamp[i] >= border /\ ret' = 0 /\ live' = live
  /\ UNCHANGED <<stamp, clock>>

IsAllocated(i) ==
  /\ ret' = IF i \in live THEN 1 ELSE 0
  /\ UNCHANGED <<live, stamp, clock, index_out>>

Next ==
  \/ \E time \in Times :
       call' = <<"allocate", time>> /\ Allocate(time)
  \/ \E i \in Indexes, time \in Times :
       call' = <<"rejuvenate", i, time>> /\ Rejuvenate(i, time)
  \/ \E border \in Borders :
       call' = <<"expire", border>> /\ ExpireOne(border)
  \/ \E i \in Indexes :
       call' = <<"is_allocated", i>> /\ IsAllocated(i)

Spec == Init /\ [][Next]_vars
=============================================================================
