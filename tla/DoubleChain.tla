---------------------------- MODULE DoubleChain ----------------------------
(***************************************************************************)
(* The index allocator of libVig: double-chain.c on double-chain-impl.c.   *)
(* One array of cells carries two lists, linked by cell number.  Cell 0    *)
(* heads the circular, doubly linked list of allocated cells, oldest       *)
(* first.  Cell 1 heads the stack of free cells; a free cell has both      *)
(* links equal, which is how the code tells it from an allocated one.      *)
(***************************************************************************)
EXTENDS Integers

CONSTANTS
  IndexRange,   \* dchain_allocate's index_range
  MaxTime       \* bound on the times a caller may pass

ASSUME IndexRangeAssumption == IndexRange \in Nat \ {0}
ASSUME MaxTimeAssumption == MaxTime \in Nat

VARIABLES
  nxt, prv,     \* cells[c].next and cells[c].prev
  timestamps,   \* chain->timestamps
  clock,        \* the greatest time a caller has stamped an index with
  ret,          \* what the last call returned
  index_out,    \* what the last call left in *index_out
  call          \* the last call and its arguments, for the contract to refer to

vars == <<nxt, prv, timestamps, clock, ret, index_out, call>>

ALLOC_LIST_HEAD == 0
FREE_LIST_HEAD == 1
INDEX_SHIFT == 2

Indexes == 0 .. IndexRange - 1
ListCells == INDEX_SHIFT .. IndexRange + INDEX_SHIFT - 1
Cells == 0 .. IndexRange + INDEX_SHIFT - 1
Times == 0 .. MaxTime
Borders == -1 .. MaxTime + 1

-----------------------------------------------------------------------------
(* double-chain-impl.c: the links.                                         *)

\* Mutant of InitLinks: the last free cell is not linked back to the head.
InitLinksUnterminated ==
  [c \in Cells |-> IF c = ALLOC_LIST_HEAD THEN c ELSE c + 1]

\* All cells on the free stack; both links of a free cell are the same.
InitLinks ==
  [c \in Cells |-> IF c = ALLOC_LIST_HEAD THEN ALLOC_LIST_HEAD
                   ELSE IF c = FREE_LIST_HEAD THEN INDEX_SHIFT
                   ELSE IF c = IndexRange + INDEX_SHIFT - 1 THEN FREE_LIST_HEAD
                   ELSE c + 1]

\* dchain_impl_is_index_allocated, on the cell.
AllocatedCell(c) == nxt[c] # prv[c] \/ nxt[c] = ALLOC_LIST_HEAD

\* Pop cell c off the free stack and link it last in the allocated list.
LinkAllocated(c) ==
  LET tail == prv[ALLOC_LIST_HEAD]
  IN  /\ nxt' = [nxt EXCEPT ![FREE_LIST_HEAD] = nxt[c],
                            ![c] = ALLOC_LIST_HEAD,
                            ![tail] = c]
      /\ prv' = [prv EXCEPT ![FREE_LIST_HEAD] = nxt[c],
                            ![c] = tail,
                            ![ALLOC_LIST_HEAD] = c]

\* Mutant of LinkFree: only one link of the freed cell is reset.
LinkFreeOneLink(c) ==
  LET top == nxt[FREE_LIST_HEAD]
  IN  /\ nxt' = [nxt EXCEPT ![prv[c]] = nxt[c],
                            ![c] = top,
                            ![FREE_LIST_HEAD] = c]
      /\ prv' = [prv EXCEPT ![nxt[c]] = prv[c],
                            ![FREE_LIST_HEAD] = c]

\* Take cell c out of the allocated list and push it on the free stack.
LinkFree(c) ==
  LET top == nxt[FREE_LIST_HEAD]
  IN  /\ nxt' = [nxt EXCEPT ![prv[c]] = nxt[c],
                            ![c] = top,
                            ![FREE_LIST_HEAD] = c]
      /\ prv' = [prv EXCEPT ![nxt[c]] = prv[c],
                            ![c] = top,
                            ![FREE_LIST_HEAD] = c]

\* Mutant of LinkLast: a rejuvenated cell keeps its place on the ring.
LinkLastInPlace(c) == UNCHANGED <<nxt, prv>>

\* Move cell c to the end of the allocated list.  The tail is read after c
\* has been taken out: c may have been the tail itself.
LinkLast(c) ==
  LET unlinkedNxt == [nxt EXCEPT ![prv[c]] = nxt[c]]
      unlinkedPrv == [prv EXCEPT ![nxt[c]] = prv[c]]
      tail == unlinkedPrv[ALLOC_LIST_HEAD]
  IN  /\ nxt' = [unlinkedNxt EXCEPT ![c] = ALLOC_LIST_HEAD, ![tail] = c]
      /\ prv' = [unlinkedPrv EXCEPT ![c] = tail, ![ALLOC_LIST_HEAD] = c]

-----------------------------------------------------------------------------
(* double-chain.c: the interface.                                          *)

\* dchain_allocate; the timestamps come from malloc and are not set.
Init ==
  /\ nxt = InitLinks
  /\ prv = InitLinks
  /\ timestamps \in [Indexes -> Times]
  /\ clock = 0
  /\ ret = 0
  /\ index_out = 0
  /\ call = <<"dchain_allocate">>

dchain_allocate_new_index(time) ==
  /\ clock <= time
  /\ LET c == nxt[FREE_LIST_HEAD]
     IN  \/ /\ c = FREE_LIST_HEAD
            /\ ret' = 0
            /\ UNCHANGED <<nxt, prv, timestamps, clock, index_out>>
         \/ /\ c # FREE_LIST_HEAD
            /\ LinkAllocated(c)
            /\ index_out' = c - INDEX_SHIFT
            /\ timestamps' = [timestamps EXCEPT ![c - INDEX_SHIFT] = time]
            /\ clock' = time
            /\ ret' = 1

dchain_rejuvenate_index(index, time) ==
  LET c == index + INDEX_SHIFT
      Stamp == /\ timestamps' = [timestamps EXCEPT ![index] = time]
               /\ clock' = time
               /\ ret' = 1
  IN  /\ clock <= time
      /\ \/ /\ nxt[c] = prv[c] /\ nxt[c] # ALLOC_LIST_HEAD
            /\ ret' = 0
            /\ UNCHANGED <<nxt, prv, timestamps, clock>>
         \/ /\ nxt[c] = prv[c] /\ nxt[c] = ALLOC_LIST_HEAD
            /\ Stamp
            /\ UNCHANGED <<nxt, prv>>
         \/ /\ nxt[c] # prv[c]
            /\ LinkLast(c)
            /\ Stamp
      /\ UNCHANGED index_out

dchain_expire_one_index(time) ==
  LET c == nxt[ALLOC_LIST_HEAD]
  IN  /\ \/ /\ c = ALLOC_LIST_HEAD
            /\ ret' = 0
            /\ UNCHANGED <<nxt, prv, index_out>>
         \/ /\ c # ALLOC_LIST_HEAD
            /\ index_out' = c - INDEX_SHIFT
            /\ \/ /\ timestamps[c - INDEX_SHIFT] < time
                  /\ LinkFree(c)
                  /\ ret' = 1
               \/ /\ timestamps[c - INDEX_SHIFT] >= time
                  /\ ret' = 0
                  /\ UNCHANGED <<nxt, prv>>
      /\ UNCHANGED <<timestamps, clock>>

dchain_is_index_allocated(index) ==
  /\ ret' = IF AllocatedCell(index + INDEX_SHIFT) THEN 1 ELSE 0
  /\ UNCHANGED <<nxt, prv, timestamps, clock, index_out>>

Next ==
  \/ \E time \in Times :
       /\ dchain_allocate_new_index(time)
       /\ call' = <<"allocate", time>>
  \/ \E index \in Indexes, time \in Times :
       /\ dchain_rejuvenate_index(index, time)
       /\ call' = <<"rejuvenate", index, time>>
  \/ \E time \in Borders :
       /\ dchain_expire_one_index(time)
       /\ call' = <<"expire", time>>
  \/ \E index \in Indexes :
       /\ dchain_is_index_allocated(index)
       /\ call' = <<"is_allocated", index>>

Spec == Init /\ [][Next]_vars

-----------------------------------------------------------------------------
(* Properties.                                                             *)

Allocated == {c \in ListCells : AllocatedCell(c)}

TypeOK ==
  /\ nxt \in [Cells -> Cells]
  /\ prv \in [Cells -> Cells]
  /\ timestamps \in [Indexes -> Times]
  /\ clock \in Times
  /\ ret \in {0, 1}
  /\ index_out \in Indexes

\* before[c] is the set of cells of L that precede c on its list: a strict
\* linear order of L.
Linear(L, before) ==
  \A c \in L :
    /\ before[c] \subseteq L \ {c}
    /\ \A d \in L \ {c} : d \in before[c] <=> c \notin before[d]
    /\ \A d \in before[c] : before[d] \subseteq before[c]

\* The ring of head 0 visits all of A, in the order of before.
Ring(A, before) ==
  /\ \/ nxt[ALLOC_LIST_HEAD] = ALLOC_LIST_HEAD /\ A = {}
     \/ nxt[ALLOC_LIST_HEAD] \in A /\ before[nxt[ALLOC_LIST_HEAD]] = {}
  /\ \/ prv[ALLOC_LIST_HEAD] = ALLOC_LIST_HEAD /\ A = {}
     \/ /\ prv[ALLOC_LIST_HEAD] \in A
        /\ before[prv[ALLOC_LIST_HEAD]] = A \ {prv[ALLOC_LIST_HEAD]}
  /\ \A c \in A :
       /\ \/ prv[c] = ALLOC_LIST_HEAD /\ before[c] = {}
          \/ prv[c] \in A /\ before[c] = before[prv[c]] \cup {prv[c]}
       /\ \/ nxt[c] = ALLOC_LIST_HEAD /\ before[c] = A \ {c}
          \/ nxt[c] \in A /\ before[nxt[c]] = before[c] \cup {c}

\* The stack of head 1 holds all of F; before[c] are the cells below c.
Stack(F, before) ==
  /\ \/ nxt[FREE_LIST_HEAD] = FREE_LIST_HEAD /\ F = {}
     \/ /\ nxt[FREE_LIST_HEAD] \in F
        /\ before[nxt[FREE_LIST_HEAD]] = F \ {nxt[FREE_LIST_HEAD]}
  /\ \A c \in F :
       /\ prv[c] = nxt[c]
       /\ \/ nxt[c] = FREE_LIST_HEAD /\ before[c] = {}
          \/ nxt[c] \in F /\ before[c] = before[nxt[c]] \cup {nxt[c]}

\* Earlier on the ring means stamped no later, and no stamp is in the future.
Sorted(A, before) ==
  \A c \in A : /\ timestamps[c - INDEX_SHIFT] <= clock
               /\ \A d \in before[c] :
                    timestamps[d - INDEX_SHIFT] <= timestamps[c - INDEX_SHIFT]

Partition(A, before) ==
  /\ Linear(A, before)
  /\ Linear(ListCells \ A, before)
  /\ Ring(A, before)
  /\ Stack(ListCells \ A, before)
  /\ Sorted(A, before)

\* The cells that the code's link test calls allocated are exactly the ring of
\* the allocated list, all other cells are exactly the free stack, and the ring
\* is in the order of the timestamps.  No cell is lost, shared by both lists or
\* mistaken for free, whatever calls dchain_*_index has served.
ListsPartition ==
  \E before \in [ListCells -> SUBSET ListCells] :
    Partition(Allocated, before)

Live == {i \in Indexes : AllocatedCell(i + INDEX_SHIFT)}

Pool == INSTANCE IndexPool WITH live <- Live, stamp <- timestamps

\* The chain implements the contract of double-chain.h: an allocation fails
\* only when every index is in use and never hands out one that is,
\* rejuvenation and the allocation test tell live indexes from free ones, and
\* the index that expires is the one stamped longest ago.
ImplementsIndexPool == Pool!Spec
=============================================================================
