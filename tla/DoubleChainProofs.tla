------------------------- MODULE DoubleChainProofs -------------------------
(***************************************************************************)
(* Proofs about DoubleChain, for every index range and every bound on the  *)
(* times: the lists always partition the cells, and the chain implements   *)
(* IndexPool.  The order of a list is named by a function from each cell   *)
(* to the set of cells before it, so no step needs induction over a list.  *)
(***************************************************************************)
EXTENDS DoubleChain, TLAPS

USE IndexRangeAssumption, MaxTimeAssumption
USE DEF ALLOC_LIST_HEAD, FREE_LIST_HEAD, INDEX_SHIFT

\* The heads are cells 0 and 1, and no list runs through them.
LEMMA Heads == 0 \in Cells /\ 1 \in Cells /\ ListCells \subseteq Cells \ {0, 1}
BY DEF Cells, ListCells

Orders == [ListCells -> SUBSET ListCells]

\* The link test of dchain_impl_is_index_allocated finds exactly the ring.
RingIsAllocated ==
  TypeOK => \A A \in SUBSET ListCells, before \in Orders :
              /\ Linear(A, before)
              /\ Ring(A, before)
              /\ Stack(ListCells \ A, before)
              => Allocated = A

LEMMA LinkTest == RingIsAllocated
<1> SUFFICES ASSUME TypeOK, NEW A \in SUBSET ListCells, NEW before \in Orders,
                    Linear(A, before), Ring(A, before),
                    Stack(ListCells \ A, before)
             PROVE  Allocated = A
  BY DEF RingIsAllocated
<1>1. ASSUME NEW c \in A
      PROVE  AllocatedCell(c)
  <2>1. CASE prv[c] = 0 \/ nxt[c] = 0
    BY <2>1 DEF AllocatedCell
  <2>2. CASE prv[c] # 0 /\ nxt[c] # 0
    <3>1. prv[c] \in before[c]
      BY <2>2 DEF Ring, ListCells
    <3>2. nxt[c] \in A /\ c \in before[nxt[c]]
      BY <2>2 DEF Ring, ListCells
    <3>3. nxt[c] # prv[c]
      BY <3>1, <3>2 DEF Linear
    <3> QED
      BY <3>3 DEF AllocatedCell
  <2> QED
    BY <2>1, <2>2
<1>2. ASSUME NEW c \in ListCells \ A
      PROVE  ~ AllocatedCell(c)
  BY DEF AllocatedCell, Stack, ListCells
<1> QED
  BY <1>1, <1>2 DEF Allocated

\* dchain_impl_init builds an empty ring and a stack of all cells.
LEMMA InitPartition == Init => TypeOK /\ ListsPartition
<1> SUFFICES ASSUME Init
             PROVE  TypeOK /\ ListsPartition
  OBVIOUS
<1>1. TypeOK
  BY DEF Init, TypeOK, InitLinks, Cells, Indexes, Times
<1> DEFINE B == [c \in ListCells |-> {d \in ListCells : d > c}]
<1>2. B \in [ListCells -> SUBSET ListCells]
  OBVIOUS
<1>3. Linear({}, B) /\ Linear(ListCells, B)
  BY DEF Linear, ListCells
<1>4. Ring({}, B)
  BY DEF Ring, Init, InitLinks, Cells
<1>5. Stack(ListCells, B)
  <2>1. nxt[1] = 2 /\ 2 \in ListCells
    BY DEF Init, InitLinks, Cells, ListCells
  <2>2. B[2] = ListCells \ {2}
    <3>1. B[2] = {d \in ListCells : d > 2}
      BY <2>1
    <3>2. \A d \in ListCells : d > 2 <=> d # 2
      BY DEF ListCells
    <3> QED
      BY <3>1, <3>2
  <2>3. ASSUME NEW c \in ListCells
        PROVE  /\ prv[c] = nxt[c]
               /\ \/ nxt[c] = 1 /\ B[c] = {}
                  \/ nxt[c] \in ListCells /\ B[c] = B[nxt[c]] \cup {nxt[c]}
    <3>1. prv[c] = nxt[c]
      BY DEF Init
    <3>2. CASE c = IndexRange + 1
      <4>1. nxt[c] = 1
        BY <3>2 DEF Init, InitLinks, Cells, ListCells
      <4>2. \A d \in ListCells : ~ (d > c)
        BY <3>2 DEF ListCells
      <4> QED
        BY <3>1, <4>1, <4>2
    <3>3. CASE c # IndexRange + 1
      <4>1. nxt[c] = c + 1 /\ c + 1 \in ListCells
        BY <3>3 DEF Init, InitLinks, Cells, ListCells
      <4>2. \A d \in ListCells : d > c <=> d > c + 1 \/ d = c + 1
        BY DEF ListCells
      <4> QED
        BY <3>1, <4>1, <4>2
    <3> QED
      BY <3>2, <3>3
  <2> QED
    BY <2>1, <2>2, <2>3 DEF Stack
<1>6. Allocated = {}
  BY <1>1, <1>2, <1>3, <1>4, <1>5, LinkTest DEF RingIsAllocated, Orders
<1>7. Partition(Allocated, B)
  BY <1>3, <1>4, <1>5, <1>6 DEF Partition, Sorted
<1> QED
  BY <1>1, <1>2, <1>7 DEF ListsPartition

-----------------------------------------------------------------------------
(* What each change of the links does to a partition.                      *)

\* Popping the free stack and appending to the ring.
LEMMA LinkAllocatedStep ==
  ASSUME TypeOK, NEW A \in SUBSET ListCells, NEW before \in Orders,
         NEW c \in Cells, c = nxt[1],
         Partition(A, before), c # 1, LinkAllocated(c),
         NEW time \in Times, clock <= time, clock' = time,
         timestamps' = [timestamps EXCEPT ![c - 2] = time]
  PROVE  /\ c \in ListCells \ A
         /\ nxt' \in [Cells -> Cells] /\ prv' \in [Cells -> Cells]
         /\ \E after \in Orders : Partition(A \cup {c}, after)'
<1> DEFINE tail == prv[0]
           F == ListCells \ A
           after == [before EXCEPT ![c] = A]
<1>1. c \in F /\ before[c] = F \ {c}
  BY DEF Partition, Stack
<1>2. /\ nxt' = [nxt EXCEPT ![1] = nxt[c], ![c] = 0, ![tail] = c]
      /\ prv' = [prv EXCEPT ![1] = nxt[c], ![c] = tail, ![0] = c]
  BY DEF LinkAllocated
<1>3. \/ tail = 0 /\ A = {}
      \/ tail \in A /\ before[tail] = A \ {tail}
  BY DEF Partition, Ring
<1>4. nxt' \in [Cells -> Cells] /\ prv' \in [Cells -> Cells]
  BY <1>2, Heads DEF TypeOK
<1>5. after \in Orders
  BY <1>1 DEF Orders
<1>6. ListCells \ (A \cup {c}) = F \ {c}
  OBVIOUS
<1> HIDE DEF tail, F
<1>7. Linear(A \cup {c}, after)
  BY <1>1 DEF Linear, Partition, F, Orders
<1>8. Linear(F \ {c}, after)
  BY <1>1 DEF Linear, Partition, F, Orders
<1>9. Ring(A \cup {c}, after)'
  <2>1. /\ nxt'[0] = IF A = {} THEN c ELSE nxt[0]
        /\ prv'[0] = c /\ nxt'[c] = 0 /\ prv'[c] = tail
        /\ tail # 0 => nxt'[tail] = c
        /\ \A d \in A : /\ prv'[d] = prv[d]
                        /\ d # tail => nxt'[d] = nxt[d]
    <3>1. /\ A \subseteq Cells \ {0, 1, c} /\ c \notin {0, 1}
          /\ 0 \in Cells /\ 1 \in Cells /\ tail \in Cells \ {1, c}
      BY <1>1, <1>3, Heads DEF F
    <3>2. DOMAIN nxt = Cells /\ DOMAIN prv = Cells
      BY DEF TypeOK
    <3> HIDE DEF F
    <3> QED
      BY <1>2, <1>3, <3>1, <3>2
  <2>2. /\ after[c] = A
        /\ \A d \in A : after[d] = before[d]
    BY <1>1 DEF F, Orders
  <2>3. ASSUME NEW d \in A, d # tail
        PROVE  nxt[d] \in A /\ before[nxt[d]] = before[d] \cup {d}
    <3>1. tail \in A /\ before[tail] = A \ {tail}
      BY <1>3
    <3>2. d \in before[tail] /\ tail \notin before[d]
      BY <2>3, <3>1 DEF Partition, Linear
    <3> QED
      BY <2>3, <3>1, <3>2 DEF Partition, Ring
  <2>4. A # {} => nxt[0] \in A /\ before[nxt[0]] = {}
    BY DEF Partition, Ring
  <2>5. ASSUME NEW d \in A
        PROVE  \/ prv[d] = 0 /\ before[d] = {}
               \/ prv[d] \in A /\ before[d] = before[prv[d]] \cup {prv[d]}
    BY DEF Partition, Ring
  <2> QED
    BY <1>1, <1>3, <2>1, <2>2, <2>3, <2>4, <2>5 DEF Ring, F
<1>10. Stack(F \ {c}, after)'
  <2>1. /\ nxt'[1] = nxt[c]
        /\ \A d \in F \ {c} : nxt'[d] = nxt[d] /\ prv'[d] = prv[d]
    <3>1. /\ F \subseteq Cells \ {0, 1, tail} /\ c \notin {0, 1}
          /\ 0 \in Cells /\ 1 \in Cells /\ tail \in Cells \ {1, c}
      BY <1>1, <1>3, Heads DEF F
    <3>2. DOMAIN nxt = Cells /\ DOMAIN prv = Cells
      BY DEF TypeOK
    <3> QED
      BY <1>2, <3>1, <3>2
  <2>2. \A d \in F \ {c} : after[d] = before[d]
    BY DEF F, Orders
  <2>3. \/ nxt[c] = 1 /\ F \ {c} = {}
        \/ nxt[c] \in F \ {c} /\ before[nxt[c]] = (F \ {c}) \ {nxt[c]}
    BY <1>1 DEF Partition, Stack, Linear, F
  <2>4. ASSUME NEW d \in F \ {c}
        PROVE  /\ prv[d] = nxt[d]
               /\ \/ nxt[d] = 1 /\ before[d] = {}
                  \/ /\ nxt[d] \in F \ {c}
                     /\ before[d] = before[nxt[d]] \cup {nxt[d]}
    <3>1. c \notin before[d]
      BY <1>1, <2>4 DEF Partition, Linear, F
    <3> QED
      BY <3>1, <2>4 DEF Partition, Stack, F
  <2> QED
    BY <2>1, <2>2, <2>3, <2>4 DEF Stack
<1>11. Sorted(A \cup {c}, after)'
  <2>1. \A d \in ListCells : d - 2 \in Indexes
    BY DEF ListCells, Indexes
  <2>2. \A d \in A : d \in ListCells /\ d # c /\ d - 2 # c - 2
    BY <1>1 DEF F, ListCells
  <2>3. /\ timestamps'[c - 2] = time
        /\ \A d \in A : timestamps'[d - 2] = timestamps[d - 2]
    BY <1>1, <2>1, <2>2 DEF F, TypeOK
  <2>4. \A d \in A : timestamps[d - 2] <= time
    BY <2>1, <2>2 DEF Partition, Sorted, TypeOK, Times
  <2>5. /\ after[c] = A
        /\ \A d \in A : after[d] = before[d] /\ before[d] \subseteq A
    BY <1>1 DEF F, Orders, Partition, Linear
  <2>6. \A d \in A : \A e \in before[d] : timestamps[e - 2] <= timestamps[d - 2]
    BY DEF Partition, Sorted
  <2> QED
    BY <2>3, <2>4, <2>5, <2>6 DEF Sorted, Times
<1> QED
  BY <1>1, <1>4, <1>5, <1>6, <1>7, <1>8, <1>9, <1>10, <1>11 DEF Partition, F

\* Taking the oldest cell off the ring and pushing it on the free stack.
LEMMA LinkFreeStep ==
  ASSUME TypeOK, NEW A \in SUBSET ListCells, NEW before \in Orders,
         NEW c \in Cells, c = nxt[0],
         Partition(A, before), c # 0, LinkFree(c),
         timestamps' = timestamps, clock' = clock
  PROVE  /\ c \in A /\ before[c] = {}
         /\ nxt' \in [Cells -> Cells] /\ prv' \in [Cells -> Cells]
         /\ \E after \in Orders : Partition(A \ {c}, after)'
<1> DEFINE F == ListCells \ A
           second == nxt[c]
           after == [d \in ListCells |-> IF d = c THEN F
                                         ELSE IF d \in A THEN before[d] \ {c}
                                         ELSE before[d]]
<1>1. c \in A /\ before[c] = {}
  BY DEF Partition, Ring
<1>2. prv[c] = 0
  <2>1. prv[c] = 0 \/ (prv[c] \in A /\ before[c] = before[prv[c]] \cup {prv[c]})
    BY <1>1, Zenon DEF Partition, Ring
  <2> QED
    BY <1>1, <2>1
<1>3. \/ second = 0 /\ A = {c}
      \/ second \in A \ {c} /\ before[second] = {c}
  <2>1. \/ second = 0 /\ before[c] = A \ {c}
        \/ second \in A /\ before[second] = before[c] \cup {c}
    BY <1>1 DEF Partition, Ring
  <2>2. second \in A => second \notin before[second]
    BY DEF Partition, Linear
  <2> QED
    BY <1>1, <2>1, <2>2
<1>4. /\ nxt' = [nxt EXCEPT ![0] = second, ![c] = nxt[1], ![1] = c]
      /\ prv' = [prv EXCEPT ![second] = 0, ![c] = nxt[1], ![1] = c]
  BY <1>2 DEF LinkFree
<1>5. nxt' \in [Cells -> Cells] /\ prv' \in [Cells -> Cells]
  BY <1>4, Heads DEF TypeOK
<1>6. /\ \A d \in A \ {c} : after[d] = before[d] \ {c} /\ before[d] \subseteq A
      /\ \A d \in F : after[d] = before[d] /\ before[d] \subseteq F
      /\ after[c] = F
  BY <1>1 DEF Partition, Linear
<1>7. after \in Orders
  BY DEF Orders
<1>8. ListCells \ (A \ {c}) = F \cup {c} /\ c \notin F
  BY <1>1
<1>9. /\ nxt'[0] = second /\ nxt'[1] = c /\ nxt'[c] = nxt[1] /\ prv'[c] = nxt[1]
      /\ \A d \in F : nxt'[d] = nxt[d] /\ prv'[d] = prv[d]
      /\ \A d \in A \ {c} : /\ nxt'[d] = nxt[d]
                            /\ prv'[d] = IF d = second THEN 0 ELSE prv[d]
      /\ prv'[0] = IF second = 0 THEN 0 ELSE prv[0]
  <2>1. /\ A \subseteq Cells \ {0, 1} /\ F \subseteq Cells \ {0, 1, c, second}
        /\ second \in Cells \ {1, c}
    BY <1>1, <1>3, Heads
  <2>2. DOMAIN nxt = Cells /\ DOMAIN prv = Cells
    BY DEF TypeOK
  <2> HIDE DEF F, second
  <2> QED
    BY <1>4, <2>1, <2>2, Heads
<1> HIDE DEF F, second, after
<1>10. Linear(A \ {c}, after)
  BY <1>6 DEF Partition, Linear
<1>11. Linear(F \cup {c}, after)
  BY <1>6, <1>8 DEF Partition, Linear, F
<1>12. \A d \in A \ {c} : c \in before[d]
  BY <1>1 DEF Partition, Linear
<1>13. Ring(A \ {c}, after)'
  <2>1. \/ second = 0 /\ A \ {c} = {}
        \/ second \in A \ {c} /\ after[second] = {}
    BY <1>3, <1>6
  <2>2. \/ prv'[0] = 0 /\ A \ {c} = {}
        \/ /\ prv'[0] \in A \ {c}
           /\ after[prv'[0]] = (A \ {c}) \ {prv'[0]}
    <3>1. CASE second = 0
      BY <3>1, <1>3, <1>9
    <3>2. CASE second # 0
      <4>1. prv[0] \in A /\ before[prv[0]] = A \ {prv[0]}
        BY <1>1 DEF Partition, Ring
      <4>2. prv[0] # c
        BY <1>1, <1>3, <3>2, <4>1
      <4> QED
        BY <1>6, <1>9, <3>2, <4>1, <4>2
    <3> QED
      BY <3>1, <3>2
  <2>3. ASSUME NEW d \in A \ {c}
        PROVE  \/ prv'[d] = 0 /\ after[d] = {}
               \/ prv'[d] \in A \ {c} /\ after[d] = after[prv'[d]] \cup {prv'[d]}
    <3>1. CASE d = second
      BY <3>1, <1>3, <1>6, <1>9
    <3>2. CASE d # second
      <4>1. prv[d] \in A /\ before[d] = before[prv[d]] \cup {prv[d]}
        BY <1>12 DEF Partition, Ring
      <4>2. prv[d] # c
        <5>1. SUFFICES ASSUME prv[d] = c
                       PROVE  FALSE
          OBVIOUS
        <5>2. before[d] = {c}
          BY <1>1, <4>1, <5>1
        <5>3. second \in A /\ before[second] = {c} /\ second # c
          BY <1>3
        <5> QED
          BY <3>2, <5>2, <5>3 DEF Partition, Linear
      <4> QED
        BY <1>6, <1>9, <3>2, <4>1, <4>2
    <3> QED
      BY <3>1, <3>2
  <2>4. ASSUME NEW d \in A \ {c}
        PROVE  \/ nxt'[d] = 0 /\ after[d] = (A \ {c}) \ {d}
               \/ nxt'[d] \in A \ {c} /\ after[nxt'[d]] = after[d] \cup {d}
    <3>1. \/ nxt[d] = 0 /\ before[d] = A \ {d}
          \/ nxt[d] \in A /\ before[nxt[d]] = before[d] \cup {d}
      BY DEF Partition, Ring
    <3>2. nxt[d] # c
      BY <1>1, <3>1, Heads
    <3> QED
      BY <1>6, <1>9, <3>1, <3>2
  <2> QED
    BY <1>9, <2>1, <2>2, <2>3, <2>4 DEF Ring
<1>14. Stack(F \cup {c}, after)'
  <2>1. \/ nxt[1] = 1 /\ F = {}
        \/ nxt[1] \in F /\ before[nxt[1]] = F \ {nxt[1]}
    BY DEF Partition, Stack, F
  <2>2. \A d \in F : /\ prv[d] = nxt[d]
                     /\ \/ nxt[d] = 1 /\ before[d] = {}
                        \/ nxt[d] \in F /\ before[d] = before[nxt[d]] \cup {nxt[d]}
    BY DEF Partition, Stack, F
  <2> QED
    BY <1>6, <1>8, <1>9, <2>1, <2>2 DEF Stack
<1>15. Sorted(A \ {c}, after)'
  BY <1>6 DEF Partition, Sorted
<1> QED
  BY <1>1, <1>5, <1>7, <1>8, <1>10, <1>11, <1>13, <1>14, <1>15 DEF Partition

\* Moving a cell to the end of the ring, when it is not alone there.
LEMMA LinkLastStep ==
  ASSUME TypeOK, NEW A \in SUBSET ListCells, NEW before \in Orders,
         NEW c \in A, nxt[c] # prv[c],
         Partition(A, before), LinkLast(c),
         NEW time \in Times, clock <= time, clock' = time,
         timestamps' = [timestamps EXCEPT ![c - 2] = time]
  PROVE  /\ nxt' \in [Cells -> Cells] /\ prv' \in [Cells -> Cells]
         /\ \E after \in Orders : Partition(A, after)'
<1> DEFINE F == ListCells \ A
           p == prv[c]
           n == nxt[c]
           tail == IF n = 0 THEN p ELSE prv[0]
           after == [d \in ListCells |-> IF d = c THEN A \ {c}
                                         ELSE IF d \in A THEN before[d] \ {c}
                                         ELSE before[d]]
<1>1. /\ \/ p = 0 /\ before[c] = {}
         \/ p \in A \ {c} /\ before[c] = before[p] \cup {p}
      /\ \/ n = 0 /\ before[c] = A \ {c}
         \/ n \in A \ {c} /\ before[n] = before[c] \cup {c}
      /\ p # n
  BY DEF Partition, Ring, Linear
<1>2. /\ prv[0] \in A /\ before[prv[0]] = A \ {prv[0]}
      /\ nxt[0] \in A /\ before[nxt[0]] = {}
  BY DEF Partition, Ring
<1>3. n = 0 <=> prv[0] = c
  <2>1. \A d \in A \ {c} : d \in before[c] <=> c \notin before[d]
    BY DEF Partition, Linear
  <2> HIDE DEF n, p
  <2> QED
    BY <1>1, <1>2, <2>1, Heads
<1>4. p = 0 <=> nxt[0] = c
  <2>1. \A d \in A \ {c} : d \in before[c] <=> c \notin before[d]
    BY DEF Partition, Linear
  <2> HIDE DEF n, p
  <2> QED
    BY <1>1, <1>2, <2>1, Heads
<1>5. tail \in A \ {c} /\ \A d \in A \ {c, tail} : d \in before[tail]
  BY <1>1, <1>2, <1>3
<1>6. /\ A \subseteq Cells \ {0, 1} /\ F \subseteq Cells \ {0, 1} /\ F \cap A = {}
      /\ p \in Cells \ {1, c} /\ n \in Cells \ {1, c}
  BY <1>1, Heads
<1>7. /\ nxt' = [[nxt EXCEPT ![p] = n] EXCEPT ![c] = 0, ![tail] = c]
      /\ prv' = [[prv EXCEPT ![n] = p] EXCEPT ![c] = tail, ![0] = c]
  <2>1. [prv EXCEPT ![n] = p][0] = tail
    BY Heads DEF TypeOK
  <2> QED
    BY <2>1, Zenon DEF LinkLast
<1>8. nxt' \in [Cells -> Cells] /\ prv' \in [Cells -> Cells]
  BY <1>5, <1>6, <1>7, Heads DEF TypeOK
<1>9. /\ \A d \in A \ {c} : after[d] = before[d] \ {c} /\ before[d] \subseteq A
      /\ \A d \in F : after[d] = before[d] /\ before[d] \subseteq F
      /\ after[c] = A \ {c}
  BY DEF Partition, Linear
<1>10. after \in Orders
  BY DEF Orders
<1>11. /\ nxt'[0] = IF p = 0 THEN n ELSE nxt[0]
       /\ prv'[0] = c /\ nxt'[c] = 0 /\ prv'[c] = tail /\ nxt'[tail] = c
       /\ nxt'[1] = nxt[1]
       /\ \A d \in F : nxt'[d] = nxt[d] /\ prv'[d] = prv[d]
       /\ \A d \in A \ {c, tail} : nxt'[d] = IF d = p THEN n ELSE nxt[d]
       /\ \A d \in A \ {c} : prv'[d] = IF d = n THEN p ELSE prv[d]
  <2>1. DOMAIN nxt = Cells /\ DOMAIN prv = Cells
    BY DEF TypeOK
  <2> HIDE DEF F, p, n, tail
  <2>2. /\ nxt'[0] = IF p = 0 THEN n ELSE nxt[0]
        /\ nxt'[c] = 0 /\ nxt'[tail] = c /\ nxt'[1] = nxt[1]
        /\ \A d \in F : nxt'[d] = nxt[d]
        /\ \A d \in A \ {c, tail} : nxt'[d] = IF d = p THEN n ELSE nxt[d]
    BY <1>1, <1>5, <1>6, <1>7, <2>1, Heads
  <2>3. /\ prv'[0] = c /\ prv'[c] = tail
        /\ \A d \in F : prv'[d] = prv[d]
        /\ \A d \in A \ {c} : prv'[d] = IF d = n THEN p ELSE prv[d]
    BY <1>1, <1>5, <1>6, <1>7, <2>1, Heads
  <2> QED
    BY <2>2, <2>3
<1> HIDE DEF F, p, n, tail, after
<1>12. Linear(A, after)
  BY <1>9 DEF Partition, Linear
<1>13. Linear(F, after)
  BY <1>9 DEF Partition, Linear, F
<1>14. Ring(A, after)'
  <2>1. nxt'[0] \in A /\ after[nxt'[0]] = {}
    BY <1>1, <1>2, <1>4, <1>9, <1>11 DEF tail
  <2>2. prv'[0] \in A /\ after[prv'[0]] = A \ {prv'[0]}
    BY <1>9, <1>11
  <2>3. after[c] = after[tail] \cup {tail}
    <3>1. before[tail] \ {c} = A \ {c, tail}
      BY <1>5, <1>9 DEF Partition, Linear
    <3> QED
      BY <1>5, <1>9, <3>1
  <2>4. ASSUME NEW d \in A \ {c}
        PROVE  \/ prv'[d] = 0 /\ after[d] = {}
               \/ prv'[d] \in A /\ after[d] = after[prv'[d]] \cup {prv'[d]}
    <3>1. CASE d = n
      BY <1>1, <1>9, <1>11, <3>1, Heads DEF Linear, Partition
    <3>2. CASE d # n
      <4>1. \/ prv[d] = 0 /\ before[d] = {}
            \/ prv[d] \in A /\ before[d] = before[prv[d]] \cup {prv[d]}
        BY DEF Partition, Ring
      <4>2. prv[d] # c
        <5>1. SUFFICES ASSUME prv[d] = c
                       PROVE  FALSE
          OBVIOUS
        <5>2. before[d] = before[c] \cup {c}
          BY <4>1, <5>1, Heads
        <5>3. n \in A /\ before[n] = before[d]
          BY <1>1, <5>2 DEF Partition, Linear
        <5> QED
          BY <3>2, <5>3 DEF Partition, Linear
      <4> QED
        BY <1>9, <1>11, <3>2, <4>1, <4>2
    <3> QED
      BY <3>1, <3>2
  <2>5. ASSUME NEW d \in A \ {c, tail}
        PROVE  nxt'[d] \in A /\ after[nxt'[d]] = after[d] \cup {d}
    <3>1. CASE d = p
      <4>1. n # 0
        BY <3>1 DEF tail
      <4> QED
        BY <1>1, <1>9, <1>11, <3>1, <4>1, Heads DEF Linear, Partition
    <3>2. CASE d # p
      <4>1. \/ nxt[d] = 0 /\ before[d] = A \ {d}
            \/ nxt[d] \in A /\ before[nxt[d]] = before[d] \cup {d}
        BY DEF Partition, Ring
      <4>2. before[d] # A \ {d}
        BY <1>5 DEF Partition, Linear
      <4>3. nxt[d] # c
        <5>1. SUFFICES ASSUME nxt[d] = c
                       PROVE  FALSE
          OBVIOUS
        <5>2. before[c] = before[d] \cup {d}
          BY <4>1, <5>1, Heads
        <5>3. p \in A /\ before[p] \cup {p} = before[d] \cup {d}
          BY <1>1, <5>2
        <5> QED
          BY <3>2, <5>3 DEF Partition, Linear
      <4> QED
        BY <1>9, <1>11, <3>2, <4>1, <4>2, <4>3
    <3> QED
      BY <3>1, <3>2
  <2> QED
    BY <1>5, <1>9, <1>11, <2>1, <2>2, <2>3, <2>4, <2>5 DEF Ring
<1>15. Stack(F, after)'
  BY <1>9, <1>11 DEF Partition, Stack, F
<1>16. Sorted(A, after)'
  <2>1. \A d \in ListCells : d - 2 \in Indexes
    BY DEF ListCells, Indexes
  <2>2. \A d \in A \ {c} : d - 2 # c - 2
    BY DEF ListCells
  <2>3. /\ timestamps'[c - 2] = time
        /\ \A d \in A \ {c} : timestamps'[d - 2] = timestamps[d - 2]
    BY <2>1, <2>2 DEF TypeOK
  <2>4. \A d \in A : timestamps[d - 2] <= time
    BY <2>1 DEF Partition, Sorted, TypeOK, Times
  <2>5. \A d \in A : \A e \in before[d] : timestamps[e - 2] <= timestamps[d - 2]
    BY DEF Partition, Sorted
  <2> QED
    BY <1>9, <2>3, <2>4, <2>5 DEF Sorted, Times
<1> QED
  BY <1>8, <1>10, <1>12, <1>13, <1>14, <1>15, <1>16 DEF Partition, F

-----------------------------------------------------------------------------
(* The invariant.                                                          *)

\* The lists are as they were when the links are.
LEMMA SameLinks ==
  ASSUME NEW before \in Orders, Partition(Allocated, before),
         UNCHANGED <<nxt, prv>>, Allocated' = Allocated
  PROVE  /\ Linear(Allocated, before)' /\ Linear(ListCells \ Allocated, before)'
         /\ Ring(Allocated, before)' /\ Stack(ListCells \ Allocated, before)'
<1>1. Linear(Allocated, before)' /\ Linear(ListCells \ Allocated, before)'
  BY DEF Partition, Linear
<1>2. Ring(Allocated, before)'
  BY DEF Partition, Ring
<1>3. Stack(ListCells \ Allocated, before)'
  BY DEF Partition, Stack
<1> QED
  BY <1>1, <1>2, <1>3

LEMMA SameLists ==
  ASSUME NEW before \in Orders, Partition(Allocated, before),
         UNCHANGED <<nxt, prv, timestamps, clock>>, Allocated' = Allocated
  PROVE  Partition(Allocated, before)'
<1>1. Sorted(Allocated, before)'
  BY DEF Partition, Sorted
<1> QED
  BY <1>1, SameLinks DEF Partition

\* dchain_allocate_new_index keeps the lists apart; it hands out a free cell,
\* and fails only when the free stack is empty.
LEMMA AllocateStep ==
  ASSUME TypeOK, ListsPartition, NEW time \in Times,
         dchain_allocate_new_index(time)
  PROVE  /\ TypeOK' /\ ListsPartition'
         /\ \/ /\ Allocated = ListCells
               /\ ret' = 0
               /\ UNCHANGED <<nxt, prv, timestamps, clock, index_out>>
            \/ /\ nxt[1] \in ListCells \ Allocated
               /\ Allocated' = Allocated \cup {nxt[1]}
<1>1. PICK before \in Orders : Partition(Allocated, before)
  BY DEF ListsPartition, Orders
<1>2. PICK A \in SUBSET ListCells : A = Allocated
  BY Zenon DEF Allocated
<1>3. PICK c \in Cells : c = nxt[1]
  BY Heads DEF TypeOK
<1>4. CASE c = 1
  <2>1. UNCHANGED <<nxt, prv, timestamps, clock, index_out>> /\ ret' = 0
    BY <1>3, <1>4 DEF dchain_allocate_new_index
  <2>2. Allocated = ListCells
    BY <1>1, <1>3, <1>4, Heads DEF Partition, Stack, Allocated
  <2>3. TypeOK' /\ ListsPartition'
    <3>1. Allocated' = Allocated
      BY <2>1 DEF Allocated, AllocatedCell
    <3>2. Partition(Allocated, before)'
      BY <1>1, <2>1, <3>1, SameLists
    <3> QED
      BY <2>1, <3>2 DEF TypeOK, ListsPartition, Orders
  <2> QED
    BY <2>1, <2>2, <2>3
<1>5. CASE c # 1
  <2>1. /\ clock <= time /\ clock' = time /\ LinkAllocated(c)
        /\ timestamps' = [timestamps EXCEPT ![c - 2] = time]
        /\ ret' = 1 /\ index_out' = c - 2
    BY <1>3, <1>5 DEF dchain_allocate_new_index
  <2>2. /\ c \in ListCells \ A
        /\ nxt' \in [Cells -> Cells] /\ prv' \in [Cells -> Cells]
        /\ \E after \in Orders : Partition(A \cup {c}, after)'
    BY <1>1, <1>2, <1>3, <1>5, <2>1, LinkAllocatedStep, Zenon
  <2>3. PICK after \in Orders : Partition(A \cup {c}, after)'
    BY <2>2
  <2>4. TypeOK'
    BY <2>1, <2>2 DEF TypeOK, ListCells, Indexes
  <2>5. Allocated' = A \cup {c}
    <3>1. RingIsAllocated'
      BY LinkTest, PTL
    <3> QED
      BY <2>2, <2>3, <2>4, <3>1 DEF RingIsAllocated, Partition
  <2> QED
    BY <1>2, <1>3, <2>2, <2>3, <2>4, <2>5 DEF ListsPartition, Orders
<1> QED
  BY <1>4, <1>5

\* dchain_rejuvenate_index keeps the lists as they are but for the place of
\* the index; it refuses exactly the indexes that are free.
LEMMA RejuvenateStep ==
  ASSUME TypeOK, ListsPartition, NEW index \in Indexes, NEW time \in Times,
         dchain_rejuvenate_index(index, time)
  PROVE  /\ TypeOK' /\ ListsPartition' /\ Allocated' = Allocated
         /\ \/ /\ index + 2 \notin Allocated
               /\ ret' = 0
               /\ UNCHANGED <<timestamps, clock>>
            \/ /\ index + 2 \in Allocated
               /\ timestamps' = [timestamps EXCEPT ![index] = time]
               /\ clock' = time
               /\ ret' = 1
<1> DEFINE c == index + 2
<1>1. PICK before \in Orders : Partition(Allocated, before)
  BY DEF ListsPartition, Orders
<1>2. PICK A \in SUBSET ListCells : A = Allocated
  BY Zenon DEF Allocated
<1>3. c \in ListCells /\ c - 2 = index
  BY DEF ListCells, Indexes
<1>4. UNCHANGED index_out /\ clock <= time
  BY DEF dchain_rejuvenate_index
<1>5. ASSUME UNCHANGED <<nxt, prv>>
      PROVE  Allocated' = Allocated
  BY <1>5 DEF Allocated, AllocatedCell
<1>6. CASE nxt[c] = prv[c] /\ nxt[c] # 0
  <2>1. UNCHANGED <<nxt, prv, timestamps, clock>> /\ ret' = 0
    BY <1>6 DEF dchain_rejuvenate_index
  <2>2. c \notin Allocated
    BY <1>6 DEF Allocated, AllocatedCell
  <2>3. TypeOK'
    BY <1>4, <2>1 DEF TypeOK
  <2>4. Partition(Allocated, before)'
    BY <1>1, <1>5, <2>1, SameLists
  <2> QED
    BY <1>5, <2>1, <2>2, <2>3, <2>4 DEF ListsPartition, Orders
<1>7. CASE nxt[c] = prv[c] /\ nxt[c] = 0
  <2>1. /\ UNCHANGED <<nxt, prv>> /\ ret' = 1 /\ clock' = time
        /\ timestamps' = [timestamps EXCEPT ![index] = time]
    BY <1>7 DEF dchain_rejuvenate_index
  <2>2. c \in Allocated
    BY <1>3, <1>7 DEF Allocated, AllocatedCell
  <2>3. TypeOK'
    BY <1>4, <2>1 DEF TypeOK
  <2>4. Allocated = {c} /\ before[c] = {}
    <3>1. c \in A /\ 0 \notin A /\ nxt[c] = 0 /\ prv[c] = 0
      BY <1>2, <1>7, <2>2, Heads
    <3>2. before[c] = {} /\ before[c] = A \ {c}
      <4>1. Ring(A, before)
        BY <1>1, <1>2 DEF Partition
      <4> QED
        BY <3>1, <4>1 DEF Ring
    <3> QED
      BY <1>2, <3>1, <3>2
  <2>5. Sorted(Allocated, before)'
    BY <1>3, <1>5, <2>1, <2>4 DEF Sorted, TypeOK, Times
  <2>6. Partition(Allocated, before)'
    BY <1>1, <1>5, <2>1, <2>5, SameLinks DEF Partition
  <2> QED
    BY <1>5, <2>1, <2>2, <2>3, <2>6 DEF ListsPartition, Orders
<1>8. CASE nxt[c] # prv[c]
  <2>1. /\ LinkLast(c) /\ ret' = 1 /\ clock' = time
        /\ timestamps' = [timestamps EXCEPT ![c - 2] = time]
    BY <1>3, <1>8 DEF dchain_rejuvenate_index
  <2>2. c \in A
    BY <1>2, <1>3, <1>8 DEF Allocated, AllocatedCell
  <2>3. /\ nxt' \in [Cells -> Cells] /\ prv' \in [Cells -> Cells]
        /\ \E after \in Orders : Partition(A, after)'
    BY <1>1, <1>2, <1>4, <1>8, <2>1, <2>2, LinkLastStep, Zenon
  <2>4. PICK after \in Orders : Partition(A, after)'
    BY <2>3
  <2>5. TypeOK'
    BY <1>3, <1>4, <2>1, <2>3 DEF TypeOK
  <2>6. Allocated' = A
    <3>1. RingIsAllocated'
      BY LinkTest, PTL
    <3> QED
      BY <2>4, <2>5, <3>1 DEF RingIsAllocated, Partition
  <2> QED
    BY <1>2, <1>3, <2>1, <2>2, <2>4, <2>5, <2>6, Zenon DEF ListsPartition, Orders
<1> QED
  BY <1>6, <1>7, <1>8

\* dchain_expire_one_index frees the first cell of the ring, which carries the
\* least timestamp, if that is before the border.
LEMMA ExpireStep ==
  ASSUME TypeOK, ListsPartition, NEW time \in Borders,
         dchain_expire_one_index(time)
  PROVE  /\ TypeOK' /\ ListsPartition'
         /\ \/ /\ Allocated = {} /\ Allocated' = {}
               /\ ret' = 0
               /\ UNCHANGED index_out
            \/ /\ nxt[0] \in Allocated /\ index_out' = nxt[0] - 2
               /\ \A d \in Allocated : timestamps[nxt[0] - 2] <= timestamps[d - 2]
               /\ \/ /\ timestamps[nxt[0] - 2] < time
                     /\ ret' = 1 /\ Allocated' = Allocated \ {nxt[0]}
                  \/ /\ timestamps[nxt[0] - 2] >= time
                     /\ ret' = 0 /\ Allocated' = Allocated
<1>1. PICK before \in Orders : Partition(Allocated, before)
  BY DEF ListsPartition, Orders
<1>2. PICK A \in SUBSET ListCells : A = Allocated
  BY Zenon DEF Allocated
<1>3. PICK c \in Cells : c = nxt[0]
  BY Heads DEF TypeOK
<1>4. UNCHANGED <<timestamps, clock>>
  BY DEF dchain_expire_one_index
<1>5. ASSUME UNCHANGED <<nxt, prv>>
      PROVE  Allocated' = Allocated /\ ListsPartition'
  <2>1. Allocated' = Allocated
    BY <1>5 DEF Allocated, AllocatedCell
  <2>2. Partition(Allocated, before)'
    BY <1>1, <1>4, <1>5, <2>1 DEF Partition, Linear, Ring, Stack, Sorted
  <2> QED
    BY <2>1, <2>2 DEF ListsPartition, Orders
<1>6. CASE c = 0
  <2>1. UNCHANGED <<nxt, prv, index_out>> /\ ret' = 0
    BY <1>3, <1>6 DEF dchain_expire_one_index
  <2>2. Allocated = {}
    BY <1>1, <1>3, <1>6, Heads DEF Partition, Ring, Allocated
  <2>3. TypeOK'
    BY <1>4, <2>1 DEF TypeOK
  <2> QED
    BY <1>5, <2>1, <2>2, <2>3
<1>7. CASE c # 0
  <2>1. c \in A /\ before[c] = {}
    BY <1>1, <1>2, <1>3, <1>7 DEF Partition, Ring
  <2>2. \A d \in A \ {c} : c \in before[d]
    BY <1>1, <1>2, <2>1 DEF Partition, Linear
  <2>3. \A d \in A : c - 2 \in Indexes /\ timestamps[c - 2] <= timestamps[d - 2]
    <3>1. c - 2 \in Indexes
      BY <2>1 DEF ListCells, Indexes
    <3>2. timestamps[c - 2] \in Int
      BY <3>1 DEF TypeOK, Times
    <3>3. \A d \in A \ {c} : timestamps[c - 2] <= timestamps[d - 2]
      BY <1>1, <1>2, <2>2 DEF Partition, Sorted
    <3> QED
      BY <3>1, <3>2, <3>3
  <2>4. index_out' = c - 2 /\ index_out' \in Indexes
    BY <1>3, <1>7, <2>1, <2>3 DEF dchain_expire_one_index
  <2>5. CASE ~ (timestamps[c - 2] < time)
    <3>1. UNCHANGED <<nxt, prv>> /\ ret' = 0
      BY <1>3, <1>7, <2>5 DEF dchain_expire_one_index
    <3>2. TypeOK'
      BY <1>4, <2>4, <3>1 DEF TypeOK
    <3>3. timestamps[c - 2] >= time
      BY <1>3, <1>7, <2>5 DEF dchain_expire_one_index
    <3> QED
      BY <1>2, <1>3, <1>5, <2>1, <2>3, <2>4, <3>1, <3>2, <3>3
  <2>6. CASE timestamps[c - 2] < time
    <3>1. timestamps[c - 2] \in Int /\ time \in Int
      BY <2>1, <2>3 DEF TypeOK, Times, Borders
    <3>2. LinkFree(c) /\ ret' = 1
      BY <1>3, <1>7, <2>6, <3>1 DEF dchain_expire_one_index
    <3>3. /\ nxt' \in [Cells -> Cells] /\ prv' \in [Cells -> Cells]
          /\ \E after \in Orders : Partition(A \ {c}, after)'
      BY <1>1, <1>2, <1>3, <1>4, <1>7, <3>2, LinkFreeStep
    <3>4. PICK after \in Orders : Partition(A \ {c}, after)'
      BY <3>3
    <3>5. TypeOK'
      BY <1>4, <2>4, <3>2, <3>3 DEF TypeOK
    <3>6. Allocated' = A \ {c}
      <4>1. RingIsAllocated'
        BY LinkTest, PTL
      <4> QED
        BY <3>4, <3>5, <4>1 DEF RingIsAllocated, Partition
    <3> QED
      BY <1>2, <1>3, <2>1, <2>3, <2>4, <2>6, <3>2, <3>4, <3>5, <3>6
      DEF ListsPartition, Orders
  <2> QED
    BY <2>5, <2>6
<1> QED
  BY <1>6, <1>7

\* Every call preserves the invariant; the allocation test only reads.
LEMMA InvariantStep == TypeOK /\ ListsPartition /\ [Next]_vars
                       => TypeOK' /\ ListsPartition'
<1> SUFFICES ASSUME TypeOK, ListsPartition, [Next]_vars
             PROVE  TypeOK' /\ ListsPartition'
  OBVIOUS
<1>1. ASSUME UNCHANGED <<nxt, prv, timestamps, clock, index_out>>, ret' \in {0, 1}
      PROVE  TypeOK' /\ ListsPartition'
  <2>1. TypeOK'
    BY <1>1 DEF TypeOK
  <2>2. Allocated' = Allocated
    BY <1>1 DEF Allocated, AllocatedCell
  <2>3. PICK before \in Orders : Partition(Allocated, before)
    BY DEF ListsPartition, Orders
  <2>4. Partition(Allocated, before)'
    BY <1>1, <2>2, <2>3 DEF Partition, Linear, Ring, Stack, Sorted
  <2> QED
    BY <2>1, <2>2, <2>4 DEF ListsPartition, Orders
<1>2. CASE UNCHANGED vars
  BY <1>1, <1>2 DEF vars, TypeOK
<1>3. ASSUME NEW time \in Times, dchain_allocate_new_index(time)
      PROVE  TypeOK' /\ ListsPartition'
  BY <1>3, AllocateStep
<1>4. ASSUME NEW index \in Indexes, NEW time \in Times,
             dchain_rejuvenate_index(index, time)
      PROVE  TypeOK' /\ ListsPartition'
  BY <1>4, RejuvenateStep
<1>5. ASSUME NEW time \in Borders, dchain_expire_one_index(time)
      PROVE  TypeOK' /\ ListsPartition'
  BY <1>5, ExpireStep
<1>6. ASSUME NEW index \in Indexes, dchain_is_index_allocated(index)
      PROVE  TypeOK' /\ ListsPartition'
  BY <1>1, <1>6 DEF dchain_is_index_allocated
<1> QED
  BY <1>2, <1>3, <1>4, <1>5, <1>6 DEF Next

\* The state of a DoubleChain keeps its type under every sequence of calls.
THEOREM TypeCorrect == Spec => []TypeOK
<1>1. TypeOK /\ ListsPartition /\ [Next]_vars => (TypeOK /\ ListsPartition)'
  BY InvariantStep
<1> QED
  BY <1>1, InitPartition, PTL DEF Spec

\* For every index range, under every sequence of calls: the link test, the
\* ring and the free stack agree, no cell is lost or shared, and the ring is
\* sorted by timestamp.
THEOREM PartitionInvariant == Spec => []ListsPartition
<1>1. TypeOK /\ ListsPartition /\ [Next]_vars => (TypeOK /\ ListsPartition)'
  BY InvariantStep
<1> QED
  BY <1>1, InitPartition, PTL DEF Spec

-----------------------------------------------------------------------------
(* The chain implements the contract.                                      *)

\* The live indexes of the contract are the cells of the ring, shifted.
LiveShift ==
  /\ \A i \in Indexes : i + 2 \in ListCells /\ (i \in Live <=> i + 2 \in Allocated)
  /\ \A c \in ListCells : c - 2 \in Indexes /\ (c - 2 \in Live <=> c \in Allocated)

LEMMA LiveIsRing == LiveShift
<1>1. \A i \in Indexes : i + 2 \in ListCells
  BY DEF Indexes, ListCells
<1>2. \A c \in ListCells : c - 2 \in Indexes /\ (c - 2) + 2 = c
  BY DEF Indexes, ListCells
<1> QED
  BY <1>1, <1>2 DEF Live, Allocated, LiveShift

\* Every call of the chain is the call of the contract that it is named for.
LEMMA SimulationStep == TypeOK /\ ListsPartition /\ [Next]_vars
                        => [Pool!Next]_(Pool!vars)
<1> SUFFICES ASSUME TypeOK, ListsPartition, [Next]_vars
             PROVE  [Pool!Next]_(Pool!vars)
  OBVIOUS
<1>1. LiveShift /\ LiveShift' /\ Live \subseteq Indexes /\ Live' \subseteq Indexes
  <2>1. LiveShift'
    BY LiveIsRing, PTL
  <2> QED
    BY <2>1, LiveIsRing DEF Live
<1>2. ASSUME Allocated' = Allocated
      PROVE  Live' = Live
  BY <1>1, <1>2 DEF LiveShift
<1>3. CASE UNCHANGED vars
  BY <1>3 DEF vars, Pool!vars, Live, AllocatedCell
<1>4. ASSUME NEW time \in Times, dchain_allocate_new_index(time)
      PROVE  Pool!Allocate(time)
  <2>1. clock <= time
    BY <1>4 DEF dchain_allocate_new_index
  <2>2. CASE /\ Allocated = ListCells
             /\ ret' = 0
             /\ UNCHANGED <<nxt, prv, timestamps, clock, index_out>>
    <3>1. Live = Indexes
      BY <1>1, <2>2 DEF LiveShift
    <3>2. Live' = Live
      BY <2>2 DEF Live, AllocatedCell
    <3> QED
      BY <2>1, <2>2, <3>1, <3>2 DEF Pool!Allocate, Pool!Indexes, Indexes
  <2>3. CASE /\ nxt[1] \in ListCells \ Allocated
             /\ Allocated' = Allocated \cup {nxt[1]}
    <3> DEFINE i == nxt[1] - 2
    <3>1. i \in Indexes \ Live
      BY <1>1, <2>3 DEF LiveShift
    <3>2. /\ ret' = 1 /\ index_out' = i /\ clock' = time
          /\ timestamps' = [timestamps EXCEPT ![i] = time]
      BY <1>4, <2>3, Heads DEF dchain_allocate_new_index
    <3>3. i + 2 = nxt[1]
      BY <2>3 DEF ListCells
    <3>4. Live' = Live \cup {i}
      <4>1. \A j \in Indexes : j + 2 = nxt[1] <=> j = i
        BY <2>3 DEF ListCells, Indexes
      <4> HIDE DEF i
      <4> QED
        BY <1>1, <2>3, <3>1, <4>1 DEF LiveShift
    <3> HIDE DEF i
    <3> QED
      BY <2>1, <3>1, <3>2, <3>4, Zenon DEF Pool!Allocate, Pool!Indexes, Indexes
  <2> QED
    BY <1>4, <2>2, <2>3, AllocateStep
<1>5. ASSUME NEW index \in Indexes, NEW time \in Times,
             dchain_rejuvenate_index(index, time)
      PROVE  Pool!Rejuvenate(index, time)
  <2>1. clock <= time /\ UNCHANGED index_out
    BY <1>5 DEF dchain_rejuvenate_index
  <2>2. Allocated' = Allocated
    BY <1>5, RejuvenateStep
  <2>3. \/ index \notin Live /\ ret' = 0 /\ UNCHANGED <<timestamps, clock>>
        \/ /\ index \in Live /\ ret' = 1 /\ clock' = time
           /\ timestamps' = [timestamps EXCEPT ![index] = time]
    BY <1>1, <1>5, RejuvenateStep DEF LiveShift
  <2> QED
    BY <1>2, <2>1, <2>2, <2>3 DEF Pool!Rejuvenate
<1>6. ASSUME NEW time \in Borders, dchain_expire_one_index(time)
      PROVE  Pool!ExpireOne(time)
  <2>1. UNCHANGED <<timestamps, clock>>
    BY <1>6 DEF dchain_expire_one_index
  <2>2. CASE Allocated = {} /\ Allocated' = {} /\ ret' = 0 /\ UNCHANGED index_out
    <3>1. Live = {} /\ Live' = {}
      BY <1>1, <2>2 DEF LiveShift
    <3> QED
      BY <2>1, <2>2, <3>1 DEF Pool!ExpireOne
  <2>3. CASE /\ nxt[0] \in Allocated /\ index_out' = nxt[0] - 2
             /\ \A d \in Allocated : timestamps[nxt[0] - 2] <= timestamps[d - 2]
             /\ \/ /\ timestamps[nxt[0] - 2] < time
                   /\ ret' = 1 /\ Allocated' = Allocated \ {nxt[0]}
                \/ /\ timestamps[nxt[0] - 2] >= time
                   /\ ret' = 0 /\ Allocated' = Allocated
    <3> DEFINE i == nxt[0] - 2
    <3>1. nxt[0] \in ListCells
      BY <2>3 DEF Allocated
    <3>2. i \in Live
      BY <1>1, <2>3, <3>1 DEF LiveShift
    <3>3. \A j \in Indexes : /\ (j + 2) - 2 = j
                             /\ j + 2 = nxt[0] <=> j = i
      BY <3>1 DEF ListCells, Indexes
    <3>4. index_out' = i
      BY <2>3
    <3>5. \A j \in Live : timestamps[i] <= timestamps[j]
      <4>1. \A j \in Live : j + 2 \in Allocated
        BY <1>1 DEF LiveShift
      <4> QED
        BY <1>1, <2>3, <3>3, <4>1
    <3>6. \/ timestamps[i] < time /\ ret' = 1 /\ Live' = Live \ {i}
          \/ timestamps[i] >= time /\ ret' = 0 /\ Live' = Live
      <4>1. ASSUME Allocated' = Allocated \ {nxt[0]}
            PROVE  Live' = Live \ {i}
        <5> HIDE DEF i
        <5> QED
          BY <1>1, <3>2, <3>3, <4>1 DEF LiveShift
      <4> QED
        BY <1>2, <2>3, <4>1
    <3> HIDE DEF i
    <3> QED
      BY <2>1, <3>2, <3>4, <3>5, <3>6 DEF Pool!ExpireOne, Pool!Oldest
  <2> QED
    BY <1>6, <2>2, <2>3, ExpireStep
<1>7. ASSUME NEW index \in Indexes, dchain_is_index_allocated(index)
      PROVE  Pool!IsAllocated(index)
  BY <1>7 DEF dchain_is_index_allocated, Pool!IsAllocated, Live, AllocatedCell
<1> QED
  BY <1>3, <1>4, <1>5, <1>6, <1>7
  DEF Next, Pool!Next, Pool!Indexes, Pool!Times, Pool!Borders,
      Indexes, Times, Borders

\* For every index range, the linked cells implement the contract of
\* double-chain.h as IndexPool states it.
THEOREM Refinement == Spec => ImplementsIndexPool
<1>1. Init => Pool!Init
  <2> SUFFICES ASSUME Init
               PROVE  Pool!Init
    OBVIOUS
  <2>1. Allocated = {}
    <3>1. \A c \in ListCells : nxt[c] = prv[c] /\ nxt[c] # 0
      BY DEF Init, InitLinks, ListCells, Cells
    <3> QED
      BY <3>1 DEF Allocated, AllocatedCell
  <2>2. Live = {}
    BY <2>1, LiveIsRing DEF LiveShift, Live
  <2> QED
    BY <2>2 DEF Init, Pool!Init, Pool!Indexes, Pool!Times, Indexes, Times
<1>2. Spec => []TypeOK /\ []ListsPartition
  BY TypeCorrect, PartitionInvariant
<1>3. TypeOK /\ ListsPartition /\ [Next]_vars => [Pool!Next]_(Pool!vars)
  BY SimulationStep
<1> QED
  BY <1>1, <1>2, <1>3, PTL DEF Spec, ImplementsIndexPool, Pool!Spec
=============================================================================
