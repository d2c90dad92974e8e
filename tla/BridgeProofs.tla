---------------------------- MODULE BridgeProofs ----------------------------
(***************************************************************************)
(* The bridge and the event loop that floods its frames.  First the loop:  *)
(* reference counts are exact, a poll finds a buffer and flood lacks a     *)
(* clone only when the rings hold them all, for any number of devices and  *)
(* any sizes of the pools and rings that leave a poll its buffer.          *)
(* Then the bridge: its map, vectors and chain agree after every frame,    *)
(* and they implement the abstract table of bridge-abstract-state.h, for   *)
(* tables of any size, any addresses and devices and any expiration time.  *)
(***************************************************************************)
EXTENDS Bridge, NfMain, FlowTableProofs, FiniteSetTheorems

-----------------------------------------------------------------------------
(* The buffers of the event loop.                                          *)

Buffers == Mbufs \cup Clones

Mems ==
  [free : SUBSET Buffers, refcnt : [Buffers -> Nat], from : [Clones -> Mbufs \cup {0}],
   txq : [DeviceIds -> Seq(Buffers)]]

Slots == DeviceIds \X (1 .. TxQueueSize)

PlacesIn(m, b) ==
  {p \in Slots : p[2] <= Len(m.txq[p[1]]) /\ m.txq[p[1]][p[2]] = b}

ClonesOf(m, b) == {c \in Clones : m.refcnt[c] > 0 /\ m.from[c] = b}

\* The books balance when the loop itself holds held[b] references to b: counts
\* are exact, a buffer without references is in its pool, and a clone has at most
\* one reference and knows its frame while it has it.
Balanced(m, held) ==
  /\ m \in Mems
  /\ held \in [Buffers -> Nat]
  /\ \A b \in Buffers :
       /\ m.refcnt[b] = Cardinality(PlacesIn(m, b)) + Cardinality(ClonesOf(m, b)) + held[b]
       /\ b \in m.free <=> m.refcnt[b] = 0
  /\ \A c \in Clones : m.refcnt[c] <= 1 /\ (m.from[c] = 0 <=> m.refcnt[c] = 0)
  /\ \A d \in DeviceIds : Len(m.txq[d]) <= TxQueueSize

\* One reference of the loop more, or less.
More(held, b) == [held EXCEPT ![b] = held[b] + 1]
Less(held, b) == [held EXCEPT ![b] = held[b] - 1]

LEMMA Sizes ==
  /\ DevicesCount \in Nat \ {0} /\ TxQueueSize \in Nat \ {0} /\ CloneCount \in Nat
  /\ RxQueueSize \in Nat \ {0} /\ MbufCount \in Nat
  /\ DevicesCount * RxQueueSize \in Nat /\ DevicesCount * TxQueueSize \in Nat
  /\ MbufCount - DevicesCount * RxQueueSize > DevicesCount * TxQueueSize
<1>1. /\ DevicesCount \in Nat \ {0} /\ TxQueueSize \in Nat \ {0} /\ CloneCount \in Nat
      /\ RxQueueSize \in Nat \ {0} /\ MbufCount \in Nat
      /\ MbufCount > DevicesCount * (RxQueueSize + TxQueueSize)
  <2>1. FloodFrame \in Nat
    BY DEF FloodFrame
  <2> QED
    BY <2>1, NfMainAssumption
<1>2. DevicesCount * RxQueueSize \in Nat /\ DevicesCount * TxQueueSize \in Nat
  BY <1>1
<1>3. DevicesCount * (RxQueueSize + TxQueueSize)
        = DevicesCount * RxQueueSize + DevicesCount * TxQueueSize
  BY <1>1
<1> QED
  BY <1>1, <1>2, <1>3

LEMMA PoolsApart ==
  /\ \A b \in Mbufs : b \in Nat /\ b # 0 /\ b \notin Clones /\ b \in Buffers
  /\ \A c \in Clones : c \in Nat /\ c # 0 /\ c \notin Mbufs /\ c \in Buffers
BY Sizes DEF Mbufs, Clones, Buffers

LEMMA UpTo == ASSUME NEW n \in Nat PROVE Cardinality(1 .. n) = n
<1>1. Cardinality(1 .. n) = IF 1 > n THEN 0 ELSE n - 1 + 1
  BY FS_Interval
<1> QED
  BY <1>1

LEMMA ClonesFinite ==
  /\ IsFiniteSet(Clones) /\ Cardinality(Clones) = CloneCount
  /\ IsFiniteSet(Mbufs) /\ Cardinality(Mbufs) = MbufCount - DevicesCount * RxQueueSize
<1>1. MbufCount + 1 \in Int /\ MbufCount + CloneCount \in Int
      /\ MbufCount - DevicesCount * RxQueueSize \in Nat
  BY Sizes
<1>2. IsFiniteSet(Clones) /\ IsFiniteSet(Mbufs)
  BY <1>1, FS_Interval, Sizes DEF Clones, Mbufs
<1>3. Cardinality(Clones) = CloneCount
  <2>1. Cardinality(Clones)
          = IF MbufCount + 1 > MbufCount + CloneCount THEN 0
            ELSE (MbufCount + CloneCount) - (MbufCount + 1) + 1
    BY <1>1, FS_Interval, Zenon DEF Clones
  <2> QED
    BY <2>1, Sizes
<1>4. Cardinality(Mbufs) = MbufCount - DevicesCount * RxQueueSize
  BY <1>1, UpTo, Zenon DEF Mbufs
<1> QED
  BY <1>2, <1>3, <1>4, Zenon

LEMMA SlotsFinite == IsFiniteSet(Slots) /\ Cardinality(Slots) = DevicesCount * TxQueueSize
<1>1. IsFiniteSet(DeviceIds) /\ Cardinality(DeviceIds) = DevicesCount
  <2>1. 0 \in Int /\ DevicesCount - 1 \in Int /\ ~(0 > DevicesCount - 1)
    BY Sizes
  <2> QED
    BY <2>1, FS_Interval, Sizes DEF DeviceIds
<1>2. IsFiniteSet(1 .. TxQueueSize) /\ Cardinality(1 .. TxQueueSize) = TxQueueSize
  <2>1. 1 \in Int /\ TxQueueSize \in Int /\ ~(1 > TxQueueSize)
    BY Sizes
  <2> QED
    BY <2>1, FS_Interval, Sizes
<1> QED
  BY <1>1, <1>2, FS_Product, Zenon DEF Slots

\* The sets that are counted are finite.
LEMMA Counted ==
  ASSUME NEW m, NEW b
  PROVE  /\ IsFiniteSet(PlacesIn(m, b)) /\ Cardinality(PlacesIn(m, b)) \in Nat
         /\ IsFiniteSet(ClonesOf(m, b)) /\ Cardinality(ClonesOf(m, b)) \in Nat
<1>1. PlacesIn(m, b) \in SUBSET Slots /\ ClonesOf(m, b) \in SUBSET Clones
  BY Zenon DEF PlacesIn, ClonesOf
<1> QED
  BY <1>1, SlotsFinite, ClonesFinite, FS_Subset, FS_CardinalityType, Zenon

\* A buffer the loop holds has a count, and so has the frame of a clone in use.
LEMMA HeldCounts ==
  ASSUME NEW m, NEW held, Balanced(m, held), NEW b \in Buffers, held[b] >= 1
  PROVE  /\ m.refcnt[b] >= 1 /\ m.refcnt[b] \in Nat /\ b \notin m.free
         /\ b \in Clones => /\ m.refcnt[b] = 1
                            /\ m.from[b] \in Mbufs
                            /\ m.refcnt[m.from[b]] >= 1
<1>1. /\ m.refcnt[b] = Cardinality(PlacesIn(m, b)) + Cardinality(ClonesOf(m, b)) + held[b]
      /\ b \in m.free <=> m.refcnt[b] = 0
      /\ held[b] \in Nat /\ m.refcnt[b] \in Nat
  BY Zenon DEF Balanced, Mems
<1>2. m.refcnt[b] >= 1 /\ b \notin m.free
  BY <1>1, Counted
<1>3. ASSUME b \in Clones
      PROVE  m.refcnt[b] = 1 /\ m.from[b] \in Mbufs /\ m.refcnt[m.from[b]] >= 1
  <2>1. m.refcnt[b] = 1 /\ m.from[b] \in Mbufs
    BY <1>1, <1>2, <1>3 DEF Balanced, Mems
  <2> DEFINE f == m.from[b]
  <2>2. f \in Buffers /\ b \in ClonesOf(m, f)
    BY <1>3, <2>1, PoolsApart DEF ClonesOf
  <2>3. Cardinality(ClonesOf(m, f)) # 0
    BY <2>2, Counted, FS_EmptySet, Zenon
  <2>4. m.refcnt[f] = Cardinality(PlacesIn(m, f)) + Cardinality(ClonesOf(m, f)) + held[f]
        /\ held[f] \in Nat
    BY <2>2, Zenon DEF Balanced
  <2> HIDE DEF f
  <2>5. m.refcnt[f] >= 1
    BY <2>3, <2>4, Counted
  <2> QED
    BY <2>1, <2>5, Zenon DEF f
<1> QED
  BY <1>1, <1>2, <1>3, Zenon

LEMMA UnrefFields ==
  ASSUME NEW m \in Mems, NEW b \in Buffers, m.refcnt[b] >= 1
  PROVE  /\ Unref(m, b) \in Mems
         /\ Unref(m, b).refcnt = [m.refcnt EXCEPT ![b] = m.refcnt[b] - 1]
         /\ Unref(m, b).free = IF m.refcnt[b] = 1 THEN m.free \cup {b} ELSE m.free
         /\ Unref(m, b).from = m.from /\ Unref(m, b).txq = m.txq
<1>1. m.refcnt[b] - 1 \in Nat /\ m.refcnt \in [Buffers -> Nat]
  BY DEF Mems
<1>2. [m.refcnt EXCEPT ![b] = m.refcnt[b] - 1] \in [Buffers -> Nat]
  BY <1>1, Zenon
<1> QED
  BY <1>2, Zenon DEF Mems, Unref

\* rte_pktmbuf_free takes away the reference it is called with.
LEMMA FreeBalances ==
  ASSUME NEW m, NEW held, Balanced(m, held), NEW b \in Buffers, held[b] >= 1
  PROVE  Balanced(rte_pktmbuf_free(m, b), Less(held, b))
<1> DEFINE r == rte_pktmbuf_free(m, b)
           h == Less(held, b)
<1>1. /\ m \in Mems /\ held \in [Buffers -> Nat]
      /\ m.refcnt[b] >= 1 /\ m.refcnt[b] \in Nat /\ b \notin m.free
      /\ m.refcnt \in [Buffers -> Nat] /\ m.from \in [Clones -> Mbufs \cup {0}]
  BY HeldCounts, Zenon DEF Balanced, Mems
<1>2. h \in [Buffers -> Nat] /\ h[b] = held[b] - 1 /\ \A x \in Buffers \ {b} : h[x] = held[x]
  BY <1>1 DEF Less
<1>3. CASE b \notin Clones
  <2>1. /\ r \in Mems /\ r.txq = m.txq /\ r.from = m.from
        /\ r.refcnt = [m.refcnt EXCEPT ![b] = m.refcnt[b] - 1]
        /\ r.free = IF m.refcnt[b] = 1 THEN m.free \cup {b} ELSE m.free
    BY <1>1, <1>3, UnrefFields, Zenon DEF rte_pktmbuf_free
  <2> HIDE DEF r, h
  <2>2. \A c \in Clones : r.refcnt[c] = m.refcnt[c]
    BY <1>1, <1>3, <2>1, PoolsApart, Zenon
  <2>3. \A x \in Buffers : PlacesIn(r, x) = PlacesIn(m, x) /\ ClonesOf(r, x) = ClonesOf(m, x)
    BY <2>1, <2>2, Zenon DEF PlacesIn, ClonesOf
  <2>4. \A x \in Buffers :
          r.refcnt[x] = Cardinality(PlacesIn(r, x)) + Cardinality(ClonesOf(r, x)) + h[x]
    <3> TAKE x \in Buffers
    <3>1. m.refcnt[x] = Cardinality(PlacesIn(m, x)) + Cardinality(ClonesOf(m, x)) + held[x]
          /\ held[x] \in Nat
      BY Zenon DEF Balanced
    <3>2. r.refcnt[x] = (IF x = b THEN m.refcnt[x] - 1 ELSE m.refcnt[x])
          /\ h[x] = (IF x = b THEN held[x] - 1 ELSE held[x])
      BY <1>1, <1>2, <2>1, Zenon
    <3> QED
      BY <2>3, <3>1, <3>2, Counted
  <2>5. \A x \in Buffers : x \in r.free <=> r.refcnt[x] = 0
    BY <1>1, <2>1 DEF Balanced
  <2>6. \A c \in Clones : r.refcnt[c] <= 1 /\ (r.from[c] = 0 <=> r.refcnt[c] = 0)
    BY <2>1, <2>2, Zenon DEF Balanced
  <2> QED
    BY <1>2, <2>1, <2>4, <2>5, <2>6, Zenon DEF Balanced, r, h
<1>4. CASE b \in Clones
  <2> DEFINE f == m.from[b]
             u == Unref(m, f)
             v == Unref(u, b)
  <2>1. m.refcnt[b] = 1 /\ f \in Mbufs /\ m.refcnt[f] >= 1 /\ f \in Buffers /\ f # b
    BY <1>4, HeldCounts, PoolsApart, Zenon
  <2>2. /\ u \in Mems /\ u.txq = m.txq /\ u.from = m.from
        /\ u.refcnt = [m.refcnt EXCEPT ![f] = m.refcnt[f] - 1]
        /\ u.free = IF m.refcnt[f] = 1 THEN m.free \cup {f} ELSE m.free
    BY <1>1, <2>1, UnrefFields, Zenon
  <2> HIDE DEF u, f
  <2>3. u.refcnt[b] = 1 /\ u.refcnt[b] >= 1 /\ u.refcnt \in [Buffers -> Nat]
    BY <1>1, <2>1, <2>2, Zenon DEF Mems
  <2>4. /\ v \in Mems /\ v.txq = m.txq /\ v.from = m.from
        /\ v.refcnt = [u.refcnt EXCEPT ![b] = 0]
        /\ v.free = u.free \cup {b}
    <3>1. /\ v \in Mems /\ v.txq = u.txq /\ v.from = u.from
          /\ v.refcnt = [u.refcnt EXCEPT ![b] = u.refcnt[b] - 1]
          /\ v.free = IF u.refcnt[b] = 1 THEN u.free \cup {b} ELSE u.free
      BY <2>2, <2>3, UnrefFields, Zenon
    <3>2. u.refcnt[b] - 1 = 0
      BY <2>3
    <3> QED
      BY <2>2, <2>3, <3>1, <3>2, Zenon
  <2> HIDE DEF v
  <2>5. r = [v EXCEPT !.from[b] = 0]
    BY <1>4, Zenon DEF rte_pktmbuf_free, u, v, f
  <2>6. /\ r.txq = m.txq /\ r.refcnt = v.refcnt /\ r.free = v.free
        /\ r.from = [m.from EXCEPT ![b] = 0] /\ r \in Mems
    <3>1. [m.from EXCEPT ![b] = 0] \in [Clones -> Mbufs \cup {0}]
      BY <1>1, Zenon
    <3> QED
      BY <2>4, <2>5, <3>1, Zenon DEF Mems
  <2> HIDE DEF r, h
  <2>7. \A x \in Buffers : r.refcnt[x] = IF x = b THEN 0 ELSE IF x = f THEN m.refcnt[f] - 1
                                         ELSE m.refcnt[x]
    BY <1>1, <2>1, <2>2, <2>3, <2>4, <2>6
  <2>8. \A x \in Buffers : PlacesIn(r, x) = PlacesIn(m, x)
    BY <2>6, Zenon DEF PlacesIn
  <2>9. \A c \in Clones : /\ r.refcnt[c] = IF c = b THEN 0 ELSE m.refcnt[c]
                          /\ r.from[c] = IF c = b THEN 0 ELSE m.from[c]
    BY <1>1, <2>1, <2>6, <2>7, PoolsApart, Zenon
  <2>10. b \in ClonesOf(m, f)
    BY <1>4, <2>1 DEF ClonesOf, f
  <2>11. \A x \in Buffers : ClonesOf(r, x) = IF x = f THEN ClonesOf(m, f) \ {b}
                                             ELSE ClonesOf(m, x)
    BY <2>9 DEF ClonesOf, f
  <2>12. Cardinality(ClonesOf(m, f) \ {b}) = Cardinality(ClonesOf(m, f)) - 1
    BY <2>10, Counted, FS_RemoveElement, Zenon
  <2>13. \A x \in Buffers :
           r.refcnt[x] = Cardinality(PlacesIn(r, x)) + Cardinality(ClonesOf(r, x)) + h[x]
    <3> TAKE x \in Buffers
    <3>1. m.refcnt[x] = Cardinality(PlacesIn(m, x)) + Cardinality(ClonesOf(m, x)) + held[x]
          /\ held[x] \in Nat
      BY Zenon DEF Balanced
    <3>2. h[x] = IF x = b THEN held[x] - 1 ELSE held[x]
      BY <1>2, Zenon
    <3>3. Cardinality(ClonesOf(r, x))
            = IF x = f THEN Cardinality(ClonesOf(m, x)) - 1 ELSE Cardinality(ClonesOf(m, x))
      BY <2>11, <2>12, Zenon
    <3>4. r.refcnt[x] = IF x = b THEN m.refcnt[x] - 1 ELSE IF x = f THEN m.refcnt[x] - 1
                        ELSE m.refcnt[x]
      BY <2>1, <2>7
    <3> QED
      BY <2>1, <2>8, <3>1, <3>2, <3>3, <3>4, Counted
  <2>14. \A x \in Buffers : x \in r.free <=> r.refcnt[x] = 0
    <3> TAKE x \in Buffers
    <3>1. x \in m.free <=> m.refcnt[x] = 0
      BY Zenon DEF Balanced
    <3>2. m.refcnt[f] \in Nat /\ (m.refcnt[f] = 1 <=> m.refcnt[f] - 1 = 0)
      BY <1>1, <2>1
    <3>3. x \in r.free <=> x = b \/ x \in m.free \/ (x = f /\ m.refcnt[f] = 1)
      BY <2>2, <2>4, <2>6
    <3> QED
      BY <2>1, <2>7, <3>1, <3>2, <3>3
  <2>15. \A c \in Clones : r.refcnt[c] <= 1 /\ (r.from[c] = 0 <=> r.refcnt[c] = 0)
    BY <2>9 DEF Balanced
  <2> QED
    BY <1>2, <2>6, <2>13, <2>14, <2>15, Zenon DEF Balanced, r, h
<1> QED
  BY <1>3, <1>4, Zenon

\* A buffer of its pool, or a clone, that is given to the loop.
LEMMA ReceivedBalances ==
  ASSUME NEW m, NEW held, Balanced(m, held), NEW b \in Mbufs, b \in m.free
  PROVE  Balanced(Received(m, b), More(held, b))
<1> DEFINE r == Received(m, b)
           h == More(held, b)
<1>1. /\ m \in Mems /\ held \in [Buffers -> Nat] /\ b \in Buffers /\ b \notin Clones
      /\ m.refcnt \in [Buffers -> Nat] /\ m.refcnt[b] = 0
  BY PoolsApart, Zenon DEF Balanced, Mems
<1>2. h \in [Buffers -> Nat] /\ \A x \in Buffers : h[x] = IF x = b THEN held[x] + 1 ELSE held[x]
  BY <1>1 DEF More
<1>3. /\ r.txq = m.txq /\ r.from = m.from /\ r.free = m.free \ {b}
      /\ r.refcnt = [m.refcnt EXCEPT ![b] = 1] /\ r \in Mems
  <2>1. [m.refcnt EXCEPT ![b] = 1] \in [Buffers -> Nat]
    BY <1>1, Zenon
  <2> QED
    BY <1>1, <2>1, Zenon DEF Received, Mems
<1> HIDE DEF r, h
<1>4. \A c \in Clones : r.refcnt[c] = m.refcnt[c]
  BY <1>1, <1>3, PoolsApart, Zenon
<1>5. \A x \in Buffers : PlacesIn(r, x) = PlacesIn(m, x) /\ ClonesOf(r, x) = ClonesOf(m, x)
  BY <1>3, <1>4, Zenon DEF PlacesIn, ClonesOf
<1>6. \A x \in Buffers :
        r.refcnt[x] = Cardinality(PlacesIn(r, x)) + Cardinality(ClonesOf(r, x)) + h[x]
  <2> TAKE x \in Buffers
  <2>1. m.refcnt[x] = Cardinality(PlacesIn(m, x)) + Cardinality(ClonesOf(m, x)) + held[x]
        /\ held[x] \in Nat
    BY Zenon DEF Balanced
  <2>2. r.refcnt[x] = IF x = b THEN m.refcnt[x] + 1 ELSE m.refcnt[x]
    BY <1>1, <1>3
  <2> QED
    BY <1>2, <1>5, <2>1, <2>2, Counted
<1>7. \A x \in Buffers : x \in r.free <=> r.refcnt[x] = 0
  BY <1>1, <1>3 DEF Balanced
<1>8. \A c \in Clones : r.refcnt[c] <= 1 /\ (r.from[c] = 0 <=> r.refcnt[c] = 0)
  BY <1>3, <1>4, Zenon DEF Balanced
<1> QED
  BY <1>2, <1>3, <1>6, <1>7, <1>8, Zenon DEF Balanced, r, h

LEMMA CloneBalances ==
  ASSUME NEW m, NEW held, Balanced(m, held), NEW b \in Mbufs, held[b] >= 1,
         NEW c \in Clones, c \in m.free
  PROVE  Balanced(rte_pktmbuf_clone(m, b, c), More(held, c))
<1> DEFINE r == rte_pktmbuf_clone(m, b, c)
           h == More(held, c)
<1>1. /\ m \in Mems /\ held \in [Buffers -> Nat] /\ m.from \in [Clones -> Mbufs \cup {0}]
      /\ b \in Buffers /\ c \in Buffers /\ b # c /\ b # 0
      /\ m.refcnt \in [Buffers -> Nat] /\ m.refcnt[c] = 0 /\ m.refcnt[b] >= 1
  BY PoolsApart, HeldCounts, Zenon DEF Balanced, Mems
<1>2. h \in [Buffers -> Nat] /\ \A x \in Buffers : h[x] = IF x = c THEN held[x] + 1 ELSE held[x]
  BY <1>1 DEF More
<1>3. /\ r.txq = m.txq /\ r.from = [m.from EXCEPT ![c] = b] /\ r.free = m.free \ {c}
      /\ r.refcnt = [m.refcnt EXCEPT ![c] = 1, ![b] = m.refcnt[b] + 1] /\ r \in Mems
  <2>1. /\ [m.refcnt EXCEPT ![c] = 1, ![b] = m.refcnt[b] + 1] \in [Buffers -> Nat]
        /\ [m.from EXCEPT ![c] = b] \in [Clones -> Mbufs \cup {0}]
    BY <1>1
  <2> QED
    BY <1>1, <2>1, Zenon DEF rte_pktmbuf_clone, Mems
<1> HIDE DEF r, h
<1>4. \A x \in Buffers : r.refcnt[x] = IF x = c THEN 1 ELSE IF x = b THEN m.refcnt[x] + 1
                                       ELSE m.refcnt[x]
  BY <1>1, <1>3, Zenon
<1>5. \A x \in Clones : /\ r.refcnt[x] = IF x = c THEN 1 ELSE m.refcnt[x]
                        /\ r.from[x] = IF x = c THEN b ELSE m.from[x]
  BY <1>1, <1>3, <1>4, PoolsApart
<1>6. \A x \in Buffers : PlacesIn(r, x) = PlacesIn(m, x)
  BY <1>3, Zenon DEF PlacesIn
<1>7. \A x \in Buffers : ClonesOf(r, x) = IF x = b THEN ClonesOf(m, b) \cup {c}
                                          ELSE ClonesOf(m, x)
  <2>1. \A x : c \notin ClonesOf(m, x)
    BY <1>1 DEF ClonesOf
  <2> QED
    BY <1>5, <2>1 DEF ClonesOf
<1>8. Cardinality(ClonesOf(m, b) \cup {c}) = Cardinality(ClonesOf(m, b)) + 1
  <2>1. c \notin ClonesOf(m, b)
    BY <1>1 DEF ClonesOf
  <2> QED
    BY <2>1, Counted, FS_AddElement, Zenon
<1>9. \A x \in Buffers :
        r.refcnt[x] = Cardinality(PlacesIn(r, x)) + Cardinality(ClonesOf(r, x)) + h[x]
  <2> TAKE x \in Buffers
  <2>1. m.refcnt[x] = Cardinality(PlacesIn(m, x)) + Cardinality(ClonesOf(m, x)) + held[x]
        /\ held[x] \in Nat
    BY Zenon DEF Balanced
  <2>2. Cardinality(ClonesOf(r, x))
          = IF x = b THEN Cardinality(ClonesOf(m, x)) + 1 ELSE Cardinality(ClonesOf(m, x))
    BY <1>7, <1>8, Zenon
  <2> QED
    BY <1>1, <1>2, <1>4, <1>6, <2>1, <2>2, Counted
<1>10. \A x \in Buffers : x \in r.free <=> r.refcnt[x] = 0
  BY <1>1, <1>3, <1>4 DEF Balanced
<1>11. \A x \in Clones : r.refcnt[x] <= 1 /\ (r.from[x] = 0 <=> r.refcnt[x] = 0)
  BY <1>1, <1>5 DEF Balanced
<1> QED
  BY <1>2, <1>3, <1>9, <1>10, <1>11, Zenon DEF Balanced, r, h

\* The transmit ring takes over the loop's reference.
LEMMA EnqueueBalances ==
  ASSUME NEW m, NEW held, Balanced(m, held), NEW b \in Buffers, held[b] >= 1,
         NEW d \in DeviceIds, Len(m.txq[d]) < TxQueueSize
  PROVE  Balanced(Enqueue(m, d, b), Less(held, b))
<1> DEFINE r == Enqueue(m, d, b)
           h == Less(held, b)
           q == m.txq[d]
           place == <<d, Len(q) + 1>>
<1>1. /\ m \in Mems /\ held \in [Buffers -> Nat] /\ m.txq \in [DeviceIds -> Seq(Buffers)]
      /\ q \in Seq(Buffers) /\ Len(q) \in Nat /\ TxQueueSize \in Nat
  BY Sizes DEF Balanced, Mems
<1>2. h \in [Buffers -> Nat] /\ \A x \in Buffers : h[x] = IF x = b THEN held[x] - 1 ELSE held[x]
  BY <1>1 DEF Less
<1>3. Append(q, b) \in Seq(Buffers) /\ Len(Append(q, b)) = Len(q) + 1
      /\ \A i \in 1 .. Len(q) + 1 : Append(q, b)[i] = IF i = Len(q) + 1 THEN b ELSE q[i]
  BY <1>1
<1>4. /\ r.refcnt = m.refcnt /\ r.from = m.from /\ r.free = m.free
      /\ r.txq = [m.txq EXCEPT ![d] = Append(q, b)] /\ r \in Mems
  <2>1. [m.txq EXCEPT ![d] = Append(q, b)] \in [DeviceIds -> Seq(Buffers)]
    BY <1>1, <1>3, Zenon
  <2> QED
    BY <1>1, <2>1, Zenon DEF Enqueue, Mems
<1> HIDE DEF r, h, q
<1>5. r.txq[d] = Append(q, b) /\ \A e \in DeviceIds \ {d} : r.txq[e] = m.txq[e]
  BY <1>1, <1>4, Zenon
<1>6. place \in Slots
  BY <1>1 DEF Slots, q
<1>7. \A x \in Buffers : PlacesIn(r, x) = IF x = b THEN PlacesIn(m, b) \cup {place}
                                          ELSE PlacesIn(m, x)
  <2> SUFFICES ASSUME NEW x \in Buffers, NEW p \in Slots
               PROVE  p \in PlacesIn(r, x) <=> p \in PlacesIn(m, x) \/ (x = b /\ p = place)
    BY <1>6 DEF PlacesIn
  <2>1. PICK e \in DeviceIds, i \in 1 .. TxQueueSize : p = <<e, i>>
    BY DEF Slots
  <2>2. p \in PlacesIn(r, x) <=> i <= Len(r.txq[e]) /\ r.txq[e][i] = x
    BY <2>1, Zenon DEF PlacesIn
  <2>3. p \in PlacesIn(m, x) <=> i <= Len(m.txq[e]) /\ m.txq[e][i] = x
    BY <2>1, Zenon DEF PlacesIn
  <2>4. p = place <=> e = d /\ i = Len(q) + 1
    BY <2>1, Zenon
  <2>5. CASE e # d
    BY <1>5, <2>2, <2>3, <2>4, <2>5, Zenon
  <2>6. CASE e = d
    <3>1. r.txq[e] = Append(q, b) /\ m.txq[e] = q
      BY <1>5, <2>6, Zenon DEF q
    <3>2. p \in PlacesIn(r, x) <=> i <= Len(q) + 1 /\ Append(q, b)[i] = x
      BY <1>3, <2>2, <3>1, Zenon
    <3>3. CASE i <= Len(q)
      BY <1>1, <1>3, <2>3, <2>4, <3>1, <3>2, <3>3
    <3>4. CASE i = Len(q) + 1
      BY <1>1, <1>3, <2>3, <2>4, <2>6, <3>1, <3>2, <3>4
    <3>5. CASE i > Len(q) + 1
      BY <1>1, <2>3, <2>4, <3>1, <3>2, <3>5
    <3> QED
      BY <1>1, <3>3, <3>4, <3>5
  <2> QED
    BY <2>5, <2>6, Zenon
<1>8. Cardinality(PlacesIn(m, b) \cup {place}) = Cardinality(PlacesIn(m, b)) + 1
  <2>1. place \notin PlacesIn(m, b)
    BY <1>1 DEF PlacesIn, q
  <2> QED
    BY <2>1, Counted, FS_AddElement, Zenon
<1>9. \A x \in Buffers : ClonesOf(r, x) = ClonesOf(m, x)
  BY <1>4, Zenon DEF ClonesOf
<1>10. \A x \in Buffers :
         r.refcnt[x] = Cardinality(PlacesIn(r, x)) + Cardinality(ClonesOf(r, x)) + h[x]
  <2> TAKE x \in Buffers
  <2>1. m.refcnt[x] = Cardinality(PlacesIn(m, x)) + Cardinality(ClonesOf(m, x)) + held[x]
        /\ held[x] \in Nat
    BY Zenon DEF Balanced
  <2>2. Cardinality(PlacesIn(r, x))
          = IF x = b THEN Cardinality(PlacesIn(m, x)) + 1 ELSE Cardinality(PlacesIn(m, x))
    BY <1>7, <1>8, Zenon
  <2>3. Cardinality(PlacesIn(m, x)) \in Nat /\ Cardinality(ClonesOf(m, x)) \in Nat
    BY Counted, Zenon
  <2>4. r.refcnt[x] = m.refcnt[x] /\ ClonesOf(r, x) = ClonesOf(m, x)
    BY <1>4, <1>9, Zenon
  <2>5. h[x] = IF x = b THEN held[x] - 1 ELSE held[x]
    BY <1>2
  <2> QED
    BY <2>1, <2>2, <2>3, <2>4, <2>5
<1>11. \A e \in DeviceIds : Len(r.txq[e]) <= TxQueueSize
  <2> TAKE e \in DeviceIds
  <2>1. CASE e = d
    BY <1>1, <1>3, <1>5, <2>1 DEF q
  <2>2. CASE e # d
    BY <1>5, <2>2, Zenon DEF Balanced
  <2> QED
    BY <2>1, <2>2, Zenon
<1> QED
  BY <1>2, <1>4, <1>10, <1>11, Zenon DEF Balanced, r, h

\* Taking the head off a sequence moves every other element one place forward.
LEMMA TailPlaces ==
  ASSUME NEW q \in Seq(Buffers), q # << >>
  PROVE  /\ Head(q) \in Buffers /\ Head(q) = q[1] /\ Len(q) \in Nat /\ Len(q) >= 1
         /\ Tail(q) \in Seq(Buffers) /\ Len(Tail(q)) = Len(q) - 1
         /\ \A i \in 1 .. Len(q) - 1 : Tail(q)[i] = q[i + 1]
OBVIOUS

\* The driver frees the reference of a buffer that was sent: first it leaves the
\* ring for the loop.
LEMMA DequeueBalances ==
  ASSUME NEW m, NEW held, Balanced(m, held), NEW d \in DeviceIds, m.txq[d] # << >>
  PROVE  /\ Head(m.txq[d]) \in Buffers
         /\ Balanced(Dequeue(m, d), More(held, Head(m.txq[d])))
<1> DEFINE q == m.txq[d]
           b == Head(q)
           r == Dequeue(m, d)
           h == More(held, b)
           first == <<d, 1>>
<1>1. /\ m \in Mems /\ held \in [Buffers -> Nat] /\ m.txq \in [DeviceIds -> Seq(Buffers)]
      /\ q \in Seq(Buffers) /\ q # << >> /\ TxQueueSize \in Nat /\ Len(q) <= TxQueueSize
  BY Sizes, Zenon DEF Balanced, Mems
<1>2. /\ b \in Buffers /\ b = q[1] /\ Len(q) \in Nat /\ Len(q) >= 1
      /\ Tail(q) \in Seq(Buffers) /\ Len(Tail(q)) = Len(q) - 1
      /\ \A i \in 1 .. Len(q) - 1 : Tail(q)[i] = q[i + 1]
  BY <1>1, TailPlaces, Zenon
<1> HIDE DEF b
<1>3. h \in [Buffers -> Nat] /\ \A x \in Buffers : h[x] = IF x = b THEN held[x] + 1 ELSE held[x]
  BY <1>1, <1>2 DEF More
<1>4. /\ r.refcnt = m.refcnt /\ r.from = m.from /\ r.free = m.free
      /\ r.txq = [m.txq EXCEPT ![d] = Tail(q)] /\ r \in Mems
  <2>1. [m.txq EXCEPT ![d] = Tail(q)] \in [DeviceIds -> Seq(Buffers)]
    BY <1>1, <1>2, Zenon
  <2> QED
    BY <1>1, <2>1, Zenon DEF Dequeue, Mems
<1> HIDE DEF r, h
<1>5. r.txq[d] = Tail(q) /\ \A e \in DeviceIds \ {d} : r.txq[e] = m.txq[e]
  BY <1>1, <1>4, Zenon
<1>6. first \in Slots
  BY <1>1, <1>2 DEF Slots
<1>7. ASSUME NEW x \in Buffers
      PROVE  Cardinality(PlacesIn(r, x)) = Cardinality(PlacesIn(m, x) \ {first})
  <2> DEFINE S == PlacesIn(r, x)
             T == PlacesIn(m, x) \ {first}
             f == [p \in S |-> IF p[1] = d THEN <<d, p[2] + 1>> ELSE p]
  <2>1. ASSUME NEW e \in DeviceIds, NEW i \in 1 .. TxQueueSize
        PROVE  /\ <<e, i>> \in S <=> i <= Len(r.txq[e]) /\ r.txq[e][i] = x
               /\ <<e, i>> \in T <=> /\ i <= Len(m.txq[e]) /\ m.txq[e][i] = x
                                     /\ ~(e = d /\ i = 1)
    BY Zenon DEF PlacesIn, Slots
  <2>2. \A p \in S \cup T : \E e \in DeviceIds, i \in 1 .. TxQueueSize : p = <<e, i>>
    BY DEF PlacesIn, Slots
  <2> HIDE DEF S, T
  <2>3. ASSUME NEW i \in 1 .. TxQueueSize, <<d, i>> \in S
        PROVE  i + 1 \in 1 .. TxQueueSize /\ <<d, i + 1>> \in T
    <3>1. i <= Len(r.txq[d]) /\ r.txq[d][i] = x
      BY <2>1, <2>3, Zenon
    <3>2. i + 1 \in 1 .. TxQueueSize /\ i + 1 <= Len(q) /\ q[i + 1] = x
      BY <1>1, <1>2, <1>5, <3>1
    <3> QED
      BY <2>1, <3>2
  <2>4. ASSUME NEW i \in 1 .. TxQueueSize, <<d, i>> \in T
        PROVE  i - 1 \in 1 .. TxQueueSize /\ <<d, i - 1>> \in S
    <3>1. i <= Len(q) /\ q[i] = x /\ i # 1
      BY <2>1, <2>4, Zenon
    <3>2. i - 1 \in 1 .. TxQueueSize /\ i - 1 <= Len(q) - 1 /\ Tail(q)[i - 1] = q[(i - 1) + 1]
      BY <1>1, <1>2, <3>1
    <3>3. (i - 1) + 1 = i
      OBVIOUS
    <3>4. i - 1 <= Len(r.txq[d]) /\ r.txq[d][i - 1] = x
      BY <1>2, <1>5, <3>1, <3>2, <3>3, Zenon
    <3> QED
      BY <2>1, <3>2, <3>4, Zenon
  <2>5. ASSUME NEW e \in DeviceIds, e # d, NEW i \in 1 .. TxQueueSize
        PROVE  <<e, i>> \in S <=> <<e, i>> \in T
    BY <1>5, <2>1, <2>5, Zenon
  <2>6. f \in [S -> T]
    <3> SUFFICES ASSUME NEW p \in S PROVE f[p] \in T
      BY Zenon
    <3>1. PICK e \in DeviceIds, i \in 1 .. TxQueueSize : p = <<e, i>>
      BY <2>2, Zenon
    <3> QED
      BY <2>3, <2>5, <3>1, Zenon
  <2>7. ASSUME NEW p \in S, NEW s \in S, f[p] = f[s] PROVE p = s
    <3>1. PICK e \in DeviceIds, i \in 1 .. TxQueueSize : p = <<e, i>>
      BY <2>2, Zenon
    <3>2. PICK g \in DeviceIds, j \in 1 .. TxQueueSize : s = <<g, j>>
      BY <2>2, Zenon
    <3>3. /\ f[p] = IF e = d THEN <<d, i + 1>> ELSE <<e, i>>
          /\ f[s] = IF g = d THEN <<d, j + 1>> ELSE <<g, j>>
      BY <3>1, <3>2, Zenon
    <3> HIDE DEF f
    <3> QED
      BY <2>7, <3>1, <3>2, <3>3
  <2>8. ASSUME NEW t \in T PROVE \E p \in S : f[p] = t
    <3>1. PICK e \in DeviceIds, i \in 1 .. TxQueueSize : t = <<e, i>>
      BY <2>2, Zenon
    <3>2. CASE e # d
      BY <2>5, <3>1, <3>2, Zenon
    <3>3. CASE e = d
      <4>1. i - 1 \in 1 .. TxQueueSize /\ <<d, i - 1>> \in S
        BY <2>4, <3>1, <3>3, Zenon
      <4>2. f[<<d, i - 1>>] = <<d, (i - 1) + 1>>
        BY <4>1, Zenon
      <4>3. (i - 1) + 1 = i
        OBVIOUS
      <4> QED
        BY <3>1, <3>3, <4>1, <4>2, <4>3, Zenon
    <3> QED
      BY <3>2, <3>3, Zenon
  <2> HIDE DEF f
  <2>9. f \in Bijection(S, T)
    BY <2>6, <2>7, <2>8, Zenon DEF Bijection, Injection, Surjection, IsInjective
  <2>10. ExistsBijection(S, T)
    BY <2>9, Zenon DEF ExistsBijection
  <2>11. IsFiniteSet(S)
    BY Counted, Zenon DEF S
  <2> QED
    BY <2>10, <2>11, FS_Bijection, Zenon DEF S, T
<1>8. ASSUME NEW x \in Buffers
      PROVE  Cardinality(PlacesIn(r, x))
               = IF x = b THEN Cardinality(PlacesIn(m, x)) - 1 ELSE Cardinality(PlacesIn(m, x))
  <2>1. first \in PlacesIn(m, x) <=> x = b
    <3>1. first \in PlacesIn(m, x) <=> 1 <= Len(q) /\ q[1] = x
      BY <1>6, Zenon DEF PlacesIn
    <3> QED
      BY <1>2, <3>1, Zenon
  <2> QED
    BY <1>7, <2>1, Counted, FS_RemoveElement, Zenon
<1>9. \A x \in Buffers : ClonesOf(r, x) = ClonesOf(m, x)
  BY <1>4, Zenon DEF ClonesOf
<1>10. \A x \in Buffers :
         r.refcnt[x] = Cardinality(PlacesIn(r, x)) + Cardinality(ClonesOf(r, x)) + h[x]
  <2> TAKE x \in Buffers
  <2>1. m.refcnt[x] = Cardinality(PlacesIn(m, x)) + Cardinality(ClonesOf(m, x)) + held[x]
        /\ held[x] \in Nat
    BY Zenon DEF Balanced
  <2>2. Cardinality(PlacesIn(r, x))
          = IF x = b THEN Cardinality(PlacesIn(m, x)) - 1 ELSE Cardinality(PlacesIn(m, x))
    BY <1>8, Zenon
  <2> QED
    BY <1>3, <1>4, <1>9, <2>1, <2>2, Counted
<1>11. \A e \in DeviceIds : Len(r.txq[e]) <= TxQueueSize
  <2> TAKE e \in DeviceIds
  <2>1. CASE e = d
    <3>1. Len(Tail(q)) <= TxQueueSize
      BY <1>1, <1>2
    <3> QED
      BY <1>5, <2>1, <3>1, Zenon
  <2>2. CASE e # d
    BY <1>5, <2>2, Zenon DEF Balanced
  <2> QED
    BY <2>1, <2>2, Zenon
<1>12. Balanced(r, h)
  BY <1>3, <1>4, <1>10, <1>11, Zenon DEF Balanced
<1> QED
  BY <1>2, <1>12, Zenon DEF r, h, b

-----------------------------------------------------------------------------
(* The invariant of the event loop.                                        *)

\* The references of the loop itself: flood's, and that of the call that sends.
Held ==
  [b \in Buffers |-> (IF buf = b THEN 1 ELSE 0) + (IF tx_buf = b THEN 1 ELSE 0)]

LoopShape ==
  /\ pc \in {"poll", "flood", "send", "exited"}
  /\ VIGOR_DEVICE \in DeviceIds
  /\ copyTo \in 0 .. DevicesCount
  /\ buf \in Mbufs \cup {0} /\ tx_buf \in Buffers \cup {0} /\ tx_to \in DeviceIds
  /\ pc = "poll" => buf = 0
  /\ pc = "flood" => buf # 0
  /\ pc = "send" <=> tx_buf # 0
  /\ pc = "send" /\ buf # 0 => copyTo < DevicesCount

AllInRings == pc = "exited" => \A c \in Clones : Places(c) # {}

LoopInv == LoopShape /\ Balanced(mem, Held) /\ AllInRings

LEMMA NextDeviceIsDevice ==
  ASSUME NEW d \in DeviceIds PROVE (d + 1) % DevicesCount \in DeviceIds
BY Sizes DEF DeviceIds

\* A set of naturals has a least element.
LEMMA LeastElement ==
  ASSUME NEW T \in SUBSET Nat, T # {}
  PROVE  \E x \in T : \A y \in T : x <= y
<1>1. PICK x \in T : \A y \in T : <<y, x>> \notin OpToRel(<, Nat)
  BY NatLessThanWellFounded, WFMin
<1>2. \A y \in T : ~(y < x)
  BY <1>1 DEF OpToRel
<1> QED
  BY <1>2

LEMMA LeastIn == ASSUME NEW S \in SUBSET Buffers, S # {} PROVE Least(S) \in S
<1>1. S \in SUBSET Nat
  BY PoolsApart, Zenon DEF Buffers
<1>2. \E x \in S : \A y \in S : x <= y
  BY <1>1, LeastElement, Zenon
<1> QED
  BY <1>2, Zenon DEF Least

LEMMA HeldType == Held \in [Buffers -> Nat]
BY DEF Held

\* flood, or the call that sends, gets the reference to b.
LEMMA HeldMore ==
  ASSUME NEW b \in Buffers,
         \/ buf = 0 /\ buf' = b /\ tx_buf' = tx_buf
         \/ tx_buf = 0 /\ tx_buf' = b /\ buf' = buf
  PROVE  Held' = More(Held, b)
<1>1. 0 \notin Buffers
  BY PoolsApart, Zenon DEF Buffers
<1>2. More(Held, b) = [x \in Buffers |-> IF x = b THEN Held[b] + 1 ELSE Held[x]]
  BY HeldType, Zenon DEF More
<1>3. Held' = [x \in Buffers |-> (IF buf' = x THEN 1 ELSE 0) + (IF tx_buf' = x THEN 1 ELSE 0)]
  BY Zenon DEF Held
<1>4. ASSUME NEW x \in Buffers
      PROVE  (IF buf' = x THEN 1 ELSE 0) + (IF tx_buf' = x THEN 1 ELSE 0)
               = IF x = b THEN Held[b] + 1 ELSE Held[x]
  BY <1>1 DEF Held
<1> QED
  BY <1>2, <1>3, <1>4, Zenon

LEMMA LoopInitial == LoopInit => LoopInv
<1> SUFFICES ASSUME LoopInit PROVE LoopInv
  BY Zenon
<1>1. LoopShape
  BY Sizes DEF LoopInit, LoopShape, DeviceIds
<1>2. mem \in Mems
  <2>1. [d \in DeviceIds |-> << >>] \in [DeviceIds -> Seq(Buffers)]
    OBVIOUS
  <2> QED
    BY <2>1, Zenon DEF LoopInit, Mems, Buffers
<1>3. \A b \in Buffers : PlacesIn(mem, b) = {} /\ ClonesOf(mem, b) = {} /\ Held[b] = 0
  <2> TAKE b \in Buffers
  <2>1. b # 0 /\ Held[b] = 0
    BY PoolsApart DEF Buffers, Held, LoopInit
  <2>2. \A d \in DeviceIds : Len(mem.txq[d]) = 0
    BY Zenon DEF LoopInit
  <2>3. PlacesIn(mem, b) = {}
    <3> SUFFICES ASSUME NEW p \in Slots, p[2] <= Len(mem.txq[p[1]]) PROVE FALSE
      BY Zenon DEF PlacesIn
    <3>1. p[1] \in DeviceIds /\ p[2] \in 1 .. TxQueueSize
      BY Zenon DEF Slots
    <3> QED
      BY <2>2, <3>1, Sizes
  <2>4. ClonesOf(mem, b) = {}
    BY DEF ClonesOf, LoopInit
  <2> QED
    BY <2>1, <2>3, <2>4, Zenon
<1>4. \A b \in Buffers : mem.refcnt[b] = 0 /\ b \in mem.free
  BY Zenon DEF LoopInit, Buffers
<1>5. \A c \in Clones : mem.refcnt[c] = 0 /\ mem.from[c] = 0
  BY Zenon DEF LoopInit
<1>6. \A d \in DeviceIds : Len(mem.txq[d]) <= TxQueueSize
  BY Sizes DEF LoopInit
<1>7. Cardinality({}) = 0
  BY FS_EmptySet, Zenon
<1>8. Balanced(mem, Held)
  <2>1. \A b \in Buffers :
          mem.refcnt[b]
            = Cardinality(PlacesIn(mem, b)) + Cardinality(ClonesOf(mem, b)) + Held[b]
    BY <1>3, <1>4, <1>7
  <2>2. \A c \in Clones : mem.refcnt[c] <= 1 /\ (mem.from[c] = 0 <=> mem.refcnt[c] = 0)
    BY <1>5
  <2> QED
    BY <1>2, <1>4, <1>6, <2>1, <2>2, HeldType, Zenon DEF Balanced
<1> QED
  BY <1>1, <1>8, Zenon DEF LoopInv, AllInRings, LoopInit

\* The step keeps the invariant if it keeps the shape and the books and does not
\* exit.
LEMMA LoopKeeps ==
  ASSUME LoopShape', Balanced(mem', Held'), pc' # "exited"
  PROVE  LoopInv'
BY Zenon DEF LoopInv, AllInRings

LEMMA MoreLess ==
  ASSUME NEW held \in [Buffers -> Nat], NEW b \in Buffers
  PROVE  More(held, b) \in [Buffers -> Nat] /\ More(held, b)[b] >= 1
         /\ Less(More(held, b), b) = held
<1>1. More(held, b) \in [Buffers -> Nat] /\ More(held, b)[b] = held[b] + 1
  BY DEF More
<1>2. Less(More(held, b), b) = [held EXCEPT ![b] = (held[b] + 1) - 1]
  BY <1>1, Zenon DEF More, Less
<1>3. (held[b] + 1) - 1 = held[b]
  OBVIOUS
<1> QED
  BY <1>1, <1>2, <1>3

LEMMA PollNothingStep == ASSUME LoopInv, PollNothing PROVE LoopInv'
<1>1. LoopShape'
  BY NextDeviceIsDevice, Zenon DEF LoopInv, LoopShape, PollNothing, NextDevice
<1>2. Held' = Held /\ mem' = mem /\ pc' # "exited"
  BY Zenon DEF PollNothing, Held
<1> QED
  BY <1>1, <1>2, LoopKeeps, Zenon DEF LoopInv

LEMMA PollFrameStep ==
  ASSUME LoopInv, NEW dst \in DeviceIds \cup {FloodFrame}, PollFrame(dst)
  PROVE  LoopInv'
<1> DEFINE received == Least(mem.free \cap Mbufs)
<1>1. received \in Mbufs /\ received \in mem.free /\ received \in Buffers /\ received # 0
  BY LeastIn, PoolsApart, Zenon DEF PollFrame, Buffers
<1>2. /\ Balanced(mem, Held) /\ LoopShape /\ buf = 0 /\ tx_buf = 0 /\ pc = "poll"
      /\ VIGOR_DEVICE \in DeviceIds
  BY Zenon DEF LoopInv, LoopShape, PollFrame
<1>3. Balanced(Received(mem, received), More(Held, received))
  BY <1>1, <1>2, ReceivedBalances, Zenon
<1>4. \/ /\ mem' = rte_pktmbuf_free(Received(mem, received), received)
         /\ NextDevice /\ UNCHANGED <<pc, copyTo, buf, tx_buf, tx_to>>
      \/ /\ pc' = "flood" /\ copyTo' = 0 /\ buf' = received
         /\ mem' = Received(mem, received) /\ UNCHANGED <<VIGOR_DEVICE, tx_buf, tx_to>>
      \/ /\ dst \in DeviceIds \ {VIGOR_DEVICE}
         /\ pc' = "send" /\ tx_buf' = received /\ tx_to' = dst
         /\ mem' = Received(mem, received) /\ UNCHANGED <<VIGOR_DEVICE, copyTo, buf>>
  BY Zenon DEF PollFrame
<1> HIDE DEF received
<1>5. CASE /\ mem' = rte_pktmbuf_free(Received(mem, received), received)
           /\ NextDevice /\ UNCHANGED <<pc, copyTo, buf, tx_buf, tx_to>>
  <2>1. LoopShape'
    BY <1>2, <1>5, NextDeviceIsDevice, Zenon DEF LoopShape, NextDevice
  <2>2. Held' = Held
    BY <1>5, Zenon DEF Held
  <2>3. Balanced(mem', Less(More(Held, received), received))
    BY <1>1, <1>3, <1>5, HeldType, MoreLess, FreeBalances, Zenon
  <2> QED
    BY <1>1, <1>2, <1>5, <2>1, <2>2, <2>3, HeldType, MoreLess, LoopKeeps, Zenon
<1>6. CASE /\ pc' = "flood" /\ copyTo' = 0 /\ buf' = received
           /\ mem' = Received(mem, received) /\ UNCHANGED <<VIGOR_DEVICE, tx_buf, tx_to>>
  <2>1. LoopShape'
    BY <1>1, <1>2, <1>6, Sizes DEF LoopShape
  <2>2. Held' = More(Held, received)
    BY <1>1, <1>2, <1>6, HeldMore, Zenon
  <2> QED
    BY <1>3, <1>6, <2>1, <2>2, LoopKeeps, Zenon
<1>7. CASE /\ dst \in DeviceIds \ {VIGOR_DEVICE}
           /\ pc' = "send" /\ tx_buf' = received /\ tx_to' = dst
           /\ mem' = Received(mem, received) /\ UNCHANGED <<VIGOR_DEVICE, copyTo, buf>>
  <2>1. LoopShape'
    BY <1>1, <1>2, <1>7, Zenon DEF LoopShape
  <2>2. Held' = More(Held, received)
    BY <1>1, <1>2, <1>7, HeldMore, Zenon
  <2> QED
    BY <1>3, <1>7, <2>1, <2>2, LoopKeeps, Zenon
<1> QED
  BY <1>4, <1>5, <1>6, <1>7, Zenon

LEMMA FreeSentStep == ASSUME LoopInv, FreeSent PROVE LoopInv'
<1> DEFINE b == Head(mem.txq[tx_to])
<1>1. Balanced(mem, Held) /\ tx_to \in DeviceIds
  BY Zenon DEF LoopInv, LoopShape
<1>2. b \in Buffers /\ Balanced(Dequeue(mem, tx_to), More(Held, b))
  BY <1>1, DequeueBalances, Zenon DEF FreeSent
<1>3. mem' = rte_pktmbuf_free(Dequeue(mem, tx_to), b)
  BY Zenon DEF FreeSent
<1> HIDE DEF b
<1>4. Balanced(mem', Held)
  BY <1>2, <1>3, HeldType, MoreLess, FreeBalances
<1>5. LoopShape' /\ Held' = Held /\ pc' # "exited"
  BY Zenon DEF LoopInv, LoopShape, Held, FreeSent
<1> QED
  BY <1>4, <1>5, LoopKeeps, Zenon

LEMMA TransmitStep == ASSUME LoopInv, Transmit PROVE LoopInv'
<1>1. /\ Balanced(mem, Held) /\ LoopShape /\ tx_to \in DeviceIds
      /\ tx_buf \in Buffers /\ tx_buf # 0 /\ Held[tx_buf] >= 1
  BY DEF LoopInv, LoopShape, Transmit, Held
<1>2. LoopShape' /\ pc' # "exited"
  BY <1>1, Sizes, NextDeviceIsDevice DEF LoopShape, Transmit, Continue, NextDevice, DeviceIds
<1>3. Held' = Less(Held, tx_buf)
  <2>1. buf' = buf /\ tx_buf' = 0
    BY Zenon DEF Transmit
  <2> QED
    BY <1>1, <2>1, PoolsApart DEF Held, Less, Buffers
<1>4. Balanced(mem', Less(Held, tx_buf))
  BY <1>1, EnqueueBalances, FreeBalances, Zenon DEF Transmit
<1> QED
  BY <1>2, <1>3, <1>4, LoopKeeps, Zenon

LEMMA FloodEndStep == ASSUME LoopInv, FloodEnd PROVE LoopInv'
<1>1. /\ Balanced(mem, Held) /\ LoopShape /\ buf \in Mbufs /\ buf \in Buffers /\ buf # 0
      /\ Held[buf] >= 1
  BY DEF LoopInv, LoopShape, FloodEnd, Held, Buffers
<1>2. LoopShape' /\ pc' # "exited"
  BY <1>1, Sizes, NextDeviceIsDevice DEF LoopShape, FloodEnd, NextDevice
<1>3. Held' = Less(Held, buf)
  <2>1. buf' = 0 /\ tx_buf' = tx_buf
    BY Zenon DEF FloodEnd
  <2> QED
    BY <1>1, <2>1, PoolsApart DEF Held, Less, Buffers
<1>4. Balanced(mem', Less(Held, buf))
  BY <1>1, FreeBalances, Zenon DEF FloodEnd
<1> QED
  BY <1>2, <1>3, <1>4, LoopKeeps, Zenon

\* A clone in use is held by a ring or by the call that sends it.
LEMMA CloneInRing ==
  ASSUME LoopInv, NEW c \in Clones, mem.refcnt[c] # 0, tx_buf # c
  PROVE  Places(c) # {}
<1>1. c \in Buffers /\ c \notin Mbufs /\ c # 0
  BY PoolsApart, Zenon
<1>2. /\ mem.refcnt[c]
           = Cardinality(PlacesIn(mem, c)) + Cardinality(ClonesOf(mem, c)) + Held[c]
      /\ mem.from \in [Clones -> Mbufs \cup {0}] /\ buf \in Mbufs \cup {0}
  BY <1>1, Zenon DEF LoopInv, LoopShape, Balanced, Mems
<1>3. ClonesOf(mem, c) = {} /\ Held[c] = 0
  BY <1>1, <1>2 DEF ClonesOf, Held
<1>4. Cardinality(PlacesIn(mem, c)) # 0
  BY <1>2, <1>3, Counted, FS_EmptySet
<1>5. PlacesIn(mem, c) = Places(c)
  BY Zenon DEF PlacesIn, Places, Slots
<1> QED
  BY <1>4, <1>5, FS_EmptySet, Zenon

LEMMA FloodStepStep == ASSUME LoopInv, FloodStep PROVE LoopInv'
<1>1. /\ Balanced(mem, Held) /\ LoopShape /\ buf \in Mbufs /\ buf \in Buffers /\ buf # 0
      /\ Held[buf] >= 1 /\ tx_buf = 0 /\ copyTo \in DeviceIds /\ pc = "flood"
      /\ mem \in Mems
  <2>1. /\ Balanced(mem, Held) /\ LoopShape /\ buf \in Mbufs /\ buf # 0 /\ tx_buf = 0
        /\ copyTo \in 0 .. DevicesCount /\ copyTo < DevicesCount /\ pc = "flood"
    BY Zenon DEF LoopInv, LoopShape, FloodStep
  <2>2. buf \in Buffers /\ Held[buf] >= 1 /\ copyTo \in DeviceIds /\ mem \in Mems
    BY <2>1, Sizes DEF Buffers, Held, DeviceIds, Balanced
  <2> QED
    BY <2>1, <2>2, Zenon
<1>2. CASE /\ copyTo' = copyTo + 1 /\ UNCHANGED <<VIGOR_DEVICE, buf, pc, tx_buf, tx_to, mem>>
  <2>1. LoopShape' /\ Held' = Held /\ pc' # "exited"
    BY <1>1, <1>2, Sizes DEF LoopShape, Held, DeviceIds
  <2> QED
    BY <1>1, <1>2, <2>1, LoopKeeps, Zenon
<1>3. CASE /\ mem.free \cap Clones # {}
           /\ mem' = rte_pktmbuf_clone(mem, buf, Least(mem.free \cap Clones))
           /\ tx_buf' = Least(mem.free \cap Clones)
           /\ tx_to' = copyTo /\ pc' = "send" /\ UNCHANGED <<VIGOR_DEVICE, buf, copyTo>>
  <2> DEFINE copy == Least(mem.free \cap Clones)
  <2>1. copy \in Clones /\ copy \in mem.free /\ copy \in Buffers /\ copy # 0
    <3>1. mem.free \cap Clones \in SUBSET Buffers
      BY Zenon DEF Buffers
    <3> QED
      BY <1>3, <3>1, LeastIn, PoolsApart, Zenon
  <2> HIDE DEF copy
  <2>2. mem' = rte_pktmbuf_clone(mem, buf, copy) /\ tx_buf' = copy
    BY <1>3, Zenon DEF copy
  <2>3. LoopShape'
    BY <1>1, <1>3, <2>1, <2>2, Sizes DEF LoopShape, DeviceIds
  <2>4. Held' = More(Held, copy)
    BY <1>1, <1>3, <2>1, <2>2, HeldMore, Zenon
  <2>5. Balanced(mem', More(Held, copy))
    BY <1>1, <2>1, <2>2, CloneBalances, Zenon
  <2> QED
    BY <1>3, <2>3, <2>4, <2>5, LoopKeeps, Zenon
<1>4. CASE /\ mem.free \cap Clones = {}
           /\ pc' = "exited" /\ UNCHANGED <<VIGOR_DEVICE, buf, copyTo, tx_buf, tx_to, mem>>
  <2>1. LoopShape' /\ Held' = Held
    BY <1>1, <1>4, Zenon DEF LoopShape, Held
  <2>2. ASSUME NEW c \in Clones PROVE Places(c) # {}
    <3>1. c \in Buffers /\ c # 0 /\ c \notin mem.free
      BY <1>4, PoolsApart, Zenon
    <3>2. mem.refcnt[c] # 0 /\ tx_buf # c
      BY <1>1, <3>1, Zenon DEF Balanced
    <3> QED
      BY <3>2, CloneInRing, Zenon
  <2>3. \A c \in Clones : Places(c)' = Places(c)
    BY <1>4, Zenon DEF Places
  <2> QED
    BY <1>1, <1>4, <2>1, <2>2, <2>3, Zenon DEF LoopInv, AllInRings
<1> QED
  BY <1>2, <1>3, <1>4, Zenon DEF FloodStep

LEMMA LoopStep == LoopInv /\ [LoopNext]_loopVars => LoopInv'
<1> SUFFICES ASSUME LoopInv, [LoopNext]_loopVars PROVE LoopInv'
  BY Zenon
<1>1. CASE UNCHANGED loopVars
  BY <1>1, Zenon DEF loopVars, LoopInv, LoopShape, Held, AllInRings, Places
<1>2. ASSUME NEW d \in DeviceIds, Arrive(d) PROVE LoopInv'
  BY <1>2, Zenon DEF Arrive, LoopInv, LoopShape, Held, AllInRings
<1>3. CASE lcore_main
  BY <1>3, PollNothingStep, PollFrameStep, FreeSentStep, TransmitStep, FloodEndStep,
     FloodStepStep, Zenon DEF lcore_main
<1> QED
  BY <1>1, <1>2, <1>3, Zenon DEF LoopNext

LEMMA LoopInvariant == LoopSpec => []LoopInv
BY LoopInitial, LoopStep, PTL DEF LoopSpec

\* No path of lcore_main and flood, with any mix of full rings, loses a buffer or
\* frees one twice: the reference counts are exact at every step.
THEOREM CountsExact == LoopSpec => []RefcntsExact
<1>1. LoopInv => RefcntsExact
  <2> SUFFICES ASSUME LoopInv, NEW b \in Buffers
               PROVE  mem.refcnt[b] = Holders(b) /\ (b \in mem.free <=> mem.refcnt[b] = 0)
    BY Zenon DEF RefcntsExact, Buffers
  <2>1. /\ mem.refcnt[b]
             = Cardinality(PlacesIn(mem, b)) + Cardinality(ClonesOf(mem, b)) + Held[b]
        /\ b \in mem.free <=> mem.refcnt[b] = 0
    BY Zenon DEF LoopInv, Balanced
  <2>2. PlacesIn(mem, b) = Places(b)
    BY Zenon DEF PlacesIn, Places, Slots
  <2>3. ClonesOf(mem, b) = {c \in Clones : mem.refcnt[c] > 0 /\ mem.from[c] = b}
    BY Zenon DEF ClonesOf
  <2>4. Held[b] = (IF buf = b THEN 1 ELSE 0) + (IF tx_buf = b THEN 1 ELSE 0)
    BY Zenon DEF Held
  <2>5. Holders(b) = Cardinality(PlacesIn(mem, b)) + Cardinality(ClonesOf(mem, b))
                       + (IF buf = b THEN 1 ELSE 0) + (IF tx_buf = b THEN 1 ELSE 0)
    BY <2>2, <2>3, Zenon DEF Holders
  <2> QED
    BY <2>1, <2>4, <2>5, Counted
<1> QED
  BY <1>1, LoopInvariant, PTL

\* Things that each have a slot of a ring to themselves are no more than the slots.
LEMMA NoMoreThanSlots ==
  ASSUME NEW S, IsFiniteSet(S), NEW f \in [S -> Slots],
         \A x, y \in S : f[x] = f[y] => x = y
  PROVE  Cardinality(S) <= DevicesCount * TxQueueSize
<1>1. f \in Injection(S, Slots)
  BY Zenon DEF Injection, IsInjective
<1> QED
  BY <1>1, SlotsFinite, FS_Injection

\* While no frame is in hand, a frame that is not in its pool is in a slot of a
\* ring, or a clone of it is.
LEMMA FrameInRing ==
  ASSUME LoopInv, pc = "poll", NEW b \in Mbufs, b \notin mem.free
  PROVE  \E p \in Slots : LET x == mem.txq[p[1]][p[2]]
                          IN  x = b \/ (x \in Clones /\ mem.from[x] = b)
<1>1. b \in Buffers /\ b # 0 /\ b \notin Clones /\ buf = 0 /\ tx_buf = 0
  BY PoolsApart, Zenon DEF LoopInv, LoopShape
<1>2. /\ mem.refcnt[b]
           = Cardinality(PlacesIn(mem, b)) + Cardinality(ClonesOf(mem, b)) + Held[b]
      /\ mem.refcnt[b] # 0
  BY <1>1, Zenon DEF LoopInv, Balanced
<1>3. Held[b] = 0
  BY <1>1 DEF Held
<1>4. PlacesIn(mem, b) # {} \/ ClonesOf(mem, b) # {}
  BY <1>2, <1>3, FS_EmptySet
<1>5. CASE PlacesIn(mem, b) # {}
  BY <1>5, Zenon DEF PlacesIn
<1>6. CASE ClonesOf(mem, b) # {}
  <2>1. PICK c \in Clones : mem.refcnt[c] > 0 /\ mem.from[c] = b
    BY <1>6, Zenon DEF ClonesOf
  <2>2. tx_buf # c /\ mem.refcnt[c] # 0
    BY <1>1, <2>1, PoolsApart
  <2>3. PICK p \in Slots : mem.txq[p[1]][p[2]] = c
    BY <2>2, CloneInRing, Zenon DEF Places, Slots
  <2> QED
    BY <2>1, <2>3, Zenon
<1> QED
  BY <1>4, <1>5, <1>6, Zenon

LEMMA BufferAtPoll ==
  ASSUME LoopInv, pc = "poll" PROVE mem.free \cap Mbufs # {}
<1> SUFFICES ASSUME mem.free \cap Mbufs = {} PROVE FALSE
  BY Zenon
<1> DEFINE Uses(b, p) == LET x == mem.txq[p[1]][p[2]]
                         IN  x = b \/ (x \in Clones /\ mem.from[x] = b)
           slot == [b \in Mbufs |-> CHOOSE p \in Slots : Uses(b, p)]
<1>1. \A b \in Mbufs : \E p \in Slots : Uses(b, p)
  BY FrameInRing, Zenon
<1>2. \A b, a \in Mbufs, p \in Slots : Uses(b, p) /\ Uses(a, p) => a = b
  BY PoolsApart, Zenon
<1> HIDE DEF Uses
<1>3. slot \in [Mbufs -> Slots] /\ \A b \in Mbufs : Uses(b, slot[b])
  BY <1>1, Zenon
<1> HIDE DEF slot
<1>4. \A b, a \in Mbufs : slot[b] = slot[a] => b = a
  BY <1>2, <1>3, Zenon
<1>5. Cardinality(Mbufs) <= DevicesCount * TxQueueSize
  BY <1>3, <1>4, ClonesFinite, NoMoreThanSlots, Zenon
<1> QED
  BY <1>5, ClonesFinite, Sizes

\* With the sizes main chooses, the rings can never hold every buffer: one is
\* left whenever lcore_main polls; and flood exits only when the transmit rings
\* hold every clone.
THEOREM PoolsLast == LoopSpec => []BuffersSuffice
<1>1. LoopInv => BuffersSuffice
  BY BufferAtPoll, Zenon DEF LoopInv, AllInRings, BuffersSuffice
<1> QED
  BY <1>1, LoopInvariant, PTL

\* With more clones than the transmit rings have room for, flood never exits the
\* program for want of a clone, whatever frames arrive and however slow the NICs.
\* MEMPOOL_BUFFER_COUNT is 256 and TX_QUEUE_SIZE 96: so it is with two devices,
\* and no longer with three.
THEOREM FloodNeverExits ==
  ASSUME CloneCount > DevicesCount * TxQueueSize
  PROVE  LoopSpec => [](pc # "exited")
<1>1. ASSUME LoopInv PROVE pc # "exited"
  <2> SUFFICES ASSUME pc = "exited" PROVE FALSE
    BY Zenon
  <2> DEFINE slot == [c \in Clones |-> CHOOSE p \in Slots : mem.txq[p[1]][p[2]] = c]
  <2>1. \A c \in Clones : \E p \in Slots : mem.txq[p[1]][p[2]] = c
    BY <1>1, Zenon DEF LoopInv, AllInRings, Places, Slots
  <2>2. slot \in [Clones -> Slots] /\ \A c \in Clones : mem.txq[slot[c][1]][slot[c][2]] = c
    BY <2>1, Zenon
  <2> HIDE DEF slot
  <2>3. \A c, e \in Clones : slot[c] = slot[e] => c = e
    BY <2>2, Zenon
  <2>4. Cardinality(Clones) <= DevicesCount * TxQueueSize
    BY <2>2, <2>3, ClonesFinite, NoMoreThanSlots, Zenon
  <2> QED
    BY <2>4, ClonesFinite, Sizes
<1> QED
  BY <1>1, LoopInvariant, PTL

-----------------------------------------------------------------------------
(* The tables of the bridge.                                               *)

\* gen_dyn_entries, for a table and a vector of devices.
EntriesOf(t, devices) ==
  {[addr |-> k, port |-> devices[t.map[k]], time |-> t.heap[t.map[k]]] :
   k \in {a \in Keys : t.map[a] # Absent}}

\* The stamps a table holds, by key.
StampsOf(t) ==
  [k \in Keys |-> IF t.map[k] = Absent THEN Absent ELSE t.heap[t.map[k]]]

\* What one frame needs of the table: it is coherent and its stamps lie in an
\* interval.
Within(t, low, high) ==
  /\ t \in Tables
  /\ Coherent(t)
  /\ \A i \in Live(t) : t.heap[i] \in low .. high

\* A coherent table tracks its own stamps, so the lemmas of the flow table
\* apply to it.
LEMMA WithinTracks ==
  ASSUME NEW t, NEW low \in Int, NEW high \in Int, Within(t, low, high)
  PROVE  StampsOf(t) \in Stamps /\ Tracks(t, StampsOf(t), low)
<1>1. \A k \in Keys : t.map[k] # Absent =>
        /\ t.map[k] \in Indexes /\ t.heap[t.map[k]] \in Times
        /\ t.heap[t.map[k]] # Absent /\ t.heap[t.map[k]] >= low
  BY DEF Within, Coherent, Live, Tables, Times, Free, Absent
<1>2. StampsOf(t) \in Stamps
  BY <1>1, Zenon DEF StampsOf, Stamps
<1>3. \A k \in Keys :
        /\ t.map[k] # Absent <=> StampsOf(t)[k] # Absent /\ StampsOf(t)[k] >= low
        /\ t.map[k] # Absent => StampsOf(t)[k] = t.heap[t.map[k]]
  BY <1>1, Zenon DEF StampsOf
<1> QED
  BY <1>2, <1>3, Zenon DEF Within, Tracks

\* Expiry keeps the table coherent and its entries become those that
\* expire_addresses keeps.
LEMMA ExpireWithin ==
  ASSUME NEW t, NEW low \in Int, NEW high \in Int, Within(t, low, high),
         NEW border \in Int, low <= border
  PROVE  Within(Expire(t, border), border, high)
<1> DEFINE e == Expire(t, border)
<1>1. t \in Tables
  BY Zenon DEF Within
<1>2. e \in Tables
  BY <1>1, ExpireType, Zenon
<1>3. Coherent(e)
  <2>1. StampsOf(t) \in Stamps /\ Tracks(t, StampsOf(t), low)
    BY WithinTracks, Zenon
  <2>2. Tracks(e, StampsOf(t), border)
    BY <1>1, <2>1, ExpireTracks, Zenon
  <2> QED
    BY <2>2, Zenon DEF Tracks
<1>4. e.heap = [i \in Indexes |->
                 IF i \in {j \in Live(t) : t.heap[j] < border} THEN Free ELSE t.heap[i]]
  BY <1>1, Zenon DEF Expire, Tables
<1>5. \A i \in Live(e) : e.heap[i] \in border .. high
  <2> SUFFICES ASSUME NEW i \in Live(e) PROVE e.heap[i] \in border .. high
    BY Zenon
  <2>1. i \in Indexes /\ e.heap[i] = t.heap[i] /\ i \in Live(t) /\ ~(t.heap[i] < border)
    BY <1>4, Zenon DEF Live
  <2>2. t.heap[i] \in low .. high
    BY <2>1, Zenon DEF Within
  <2> QED
    BY <2>1, <2>2
<1> QED
  BY <1>2, <1>3, <1>5, Zenon DEF Within

LEMMA ExpireEntries ==
  ASSUME NEW t, NEW low \in Int, NEW high \in Int, Within(t, low, high),
         NEW border \in Int, NEW d
  PROVE  EntriesOf(Expire(t, border), d)
           = Learning!expire_addresses(EntriesOf(t, d), border)
<1> DEFINE e == Expire(t, border)
           gone == {i \in Live(t) : t.heap[i] < border}
<1>1. /\ e.map = [k \in Keys |-> IF k \in {t.vec[i] : i \in gone} THEN Absent ELSE t.map[k]]
      /\ e.heap = [i \in Indexes |-> IF i \in gone THEN Free ELSE t.heap[i]]
  BY Zenon DEF Expire, Tables, Within
<1>2. \A k \in Keys : e.map[k] # Absent <=>
        t.map[k] # Absent /\ t.heap[t.map[k]] >= border
  <2> SUFFICES ASSUME NEW k \in Keys
               PROVE  e.map[k] # Absent <=>
                        t.map[k] # Absent /\ t.heap[t.map[k]] >= border
    BY Zenon
  <2>1. t.map[k] # Absent => /\ t.map[k] \in Live(t) /\ t.vec[t.map[k]] = k
                             /\ t.heap[t.map[k]] \in Int
    BY DEF Within, Coherent
  <2>2. k \in {t.vec[i] : i \in gone} <=> t.map[k] # Absent /\ t.map[k] \in gone
    <3>1. \A i \in gone : t.map[t.vec[i]] = i /\ i # Absent
      BY DEF Within, Coherent, Live, Indexes, Absent
    <3> QED
      BY <3>1, <2>1, Zenon
  <2> QED
    BY <1>1, <2>1, <2>2
<1>3. \A k \in Keys : e.map[k] # Absent =>
        /\ e.map[k] = t.map[k] /\ e.heap[t.map[k]] = t.heap[t.map[k]]
  <2> SUFFICES ASSUME NEW k \in Keys, e.map[k] # Absent
               PROVE  e.map[k] = t.map[k] /\ e.heap[t.map[k]] = t.heap[t.map[k]]
    BY Zenon
  <2>1. e.map[k] = t.map[k]
    BY <1>1, Zenon
  <2>2. t.map[k] \in Live(t) /\ t.heap[t.map[k]] >= border /\ t.heap[t.map[k]] \in Int
    BY <1>2 DEF Within, Coherent
  <2> QED
    BY <1>1, <2>1, <2>2 DEF Live
<1> HIDE DEF e
<1>4. EntriesOf(e, d) = {x \in EntriesOf(t, d) : x.time >= border}
  BY <1>2, <1>3 DEF EntriesOf
<1> QED
  BY <1>4, Zenon DEF Learning!expire_addresses, e

LEMMA HasKey ==
  ASSUME NEW t, NEW d, NEW a \in Keys
  PROVE  /\ Learning!has_key(EntriesOf(t, d), a) <=> t.map[a] # Absent
         /\ t.map[a] # Absent =>
              \E x \in EntriesOf(t, d) : x.addr = a /\ x.port = d[t.map[a]]
<1> DEFINE Entry(k) == [addr |-> k, port |-> d[t.map[k]], time |-> t.heap[t.map[k]]]
<1>1. \A x : x \in EntriesOf(t, d) <=> \E k \in Keys : t.map[k] # Absent /\ x = Entry(k)
  BY Zenon DEF EntriesOf
<1>2. \A k : Entry(k).addr = k /\ Entry(k).port = d[t.map[k]]
  BY Zenon
<1> HIDE DEF Entry
<1> QED
  BY <1>1, <1>2 DEF Learning!has_key

\* A known source is rejuvenated.
LEMMA RejuvenateWithin ==
  ASSUME NEW t, NEW low \in Int, NEW high \in Int, Within(t, low, high),
         NEW src \in Keys, t.map[src] # Absent,
         NEW time \in Times, low <= time, high <= time, NEW d
  PROVE  LET n == Rejuvenate(t, t.map[src], time)
         IN  /\ Within(n, low, time)
             /\ EntriesOf(n, d)
                  = Learning!rejuvenate_dyn_entry(EntriesOf(t, d), src, time)
<1> DEFINE i == t.map[src]
           n == Rejuvenate(t, i, time)
<1>0. time \in Int
  BY FlowTableAssumption DEF Times
<1>1. t \in Tables /\ i \in Live(t) /\ i \in Indexes /\ t.heap[i] # Free
  BY Zenon DEF Within, Coherent, Live
<1>2. n \in Tables
  BY <1>1, RejuvenateType, Zenon
<1>3. Coherent(n)
  BY <1>0, <1>1, WithinTracks, RejuvenateTracks DEF Tracks
<1>4. n.map = t.map /\ n.heap = [t.heap EXCEPT ![i] = time]
  BY <1>1, Zenon DEF Rejuvenate, Tables
<1>5. \A j \in Live(n) : n.heap[j] \in low .. time
  <2> SUFFICES ASSUME NEW j \in Live(n) PROVE n.heap[j] \in low .. time
    BY Zenon
  <2>1. CASE j = i
    BY <2>1, <1>0, <1>1, <1>4 DEF Tables
  <2>2. CASE j # i
    <3>1. j \in Live(t) /\ n.heap[j] = t.heap[j]
      BY <2>2, <1>1, <1>4, Zenon DEF Live, Tables
    <3>2. t.heap[j] \in low .. high
      BY <3>1, Zenon DEF Within
    <3> QED
      BY <1>0, <3>1, <3>2
  <2> QED
    BY <2>1, <2>2, Zenon
<1>6. \A k \in Keys : t.map[k] # Absent =>
        n.heap[t.map[k]] = IF k = src THEN time ELSE t.heap[t.map[k]]
  <2> SUFFICES ASSUME NEW k \in Keys, t.map[k] # Absent
               PROVE  n.heap[t.map[k]] = IF k = src THEN time ELSE t.heap[t.map[k]]
    BY Zenon
  <2>1. t.map[k] \in Indexes /\ t.vec[t.map[k]] = k /\ t.vec[i] = src
    BY Zenon DEF Within, Coherent, Live
  <2> QED
    BY <1>1, <1>4, <2>1, Zenon DEF Tables
<1>7. EntriesOf(n, d) = {IF x.addr = src THEN [x EXCEPT !.time = time] ELSE x :
                         x \in EntriesOf(t, d)}
  <2> DEFINE Entry(k) == [addr |-> k, port |-> d[t.map[k]], time |-> t.heap[t.map[k]]]
             New(k) == [addr |-> k, port |-> d[t.map[k]], time |-> n.heap[t.map[k]]]
             Known == {a \in Keys : t.map[a] # Absent}
  <2>1. EntriesOf(t, d) = {Entry(k) : k \in Known} /\ EntriesOf(n, d) = {New(k) : k \in Known}
    BY <1>4 DEF EntriesOf
  <2>2. \A k \in Known : New(k) = IF Entry(k).addr = src THEN [Entry(k) EXCEPT !.time = time]
                                  ELSE Entry(k)
    BY <1>6, Zenon
  <2> HIDE DEF Entry, New, Known, n
  <2> QED
    BY <2>1, <2>2
<1> QED
  BY <1>2, <1>3, <1>5, <1>7, Zenon DEF Within, Learning!rejuvenate_dyn_entry

\* The source is put at index i with its device.
Learnt(t, d, src, i, dev, time, n, D) ==
  n = Insert(t, src, i, time) /\ D = [d EXCEPT ![i] = dev]

\* An unknown source is learnt at a free index.
LEMMA InsertWithin ==
  ASSUME NEW t, NEW low \in Int, NEW high \in Int, Within(t, low, high),
         NEW src \in Keys, t.map[src] = Absent, NEW i \in Indexes \ Live(t),
         NEW time \in Times, low <= time, high <= time,
         NEW d \in [Indexes -> Devices], NEW dev \in Devices,
         NEW n, NEW D, Learnt(t, d, src, i, dev, time, n, D)
  PROVE  /\ Within(n, low, time)
         /\ EntriesOf(n, D) = Learning!add_dyn_entry(EntriesOf(t, d), src, dev, time)
<1> USE DEF Learnt
<1>0. time \in Int
  BY FlowTableAssumption DEF Times
<1>1. t \in Tables
  BY Zenon DEF Within
<1>2. n \in Tables
  BY <1>1, InsertType, Zenon
<1>3. Coherent(n)
  <2>1. StampsOf(t) \in Stamps /\ Tracks(t, StampsOf(t), low)
    BY WithinTracks, Zenon
  <2>2. Tracks(n, [StampsOf(t) EXCEPT ![src] = time], low)
    BY <1>0, <1>1, <2>1, InsertTracks, Zenon
  <2> QED
    BY <2>2, Zenon DEF Tracks
<1>4. n.map = [t.map EXCEPT ![src] = i] /\ n.heap = [t.heap EXCEPT ![i] = time]
  BY <1>1, Zenon DEF Insert, Tables
<1>5. \A j \in Live(n) : n.heap[j] \in low .. time
  <2> SUFFICES ASSUME NEW j \in Live(n) PROVE n.heap[j] \in low .. time
    BY Zenon
  <2>1. CASE j = i
    BY <2>1, <1>0, <1>1, <1>4 DEF Tables
  <2>2. CASE j # i
    <3>1. j \in Live(t) /\ n.heap[j] = t.heap[j]
      BY <2>2, <1>1, <1>4, Zenon DEF Live, Tables
    <3>2. t.heap[j] \in low .. high
      BY <3>1, Zenon DEF Within
    <3> QED
      BY <1>0, <3>1, <3>2
  <2> QED
    BY <2>1, <2>2, Zenon
<1>6. EntriesOf(n, D) = EntriesOf(t, d) \cup {[addr |-> src, port |-> dev, time |-> time]}
  <2> DEFINE Entry(k) == [addr |-> k, port |-> d[t.map[k]], time |-> t.heap[t.map[k]]]
             New(k) == [addr |-> k, port |-> D[n.map[k]], time |-> n.heap[n.map[k]]]
             Known == {a \in Keys : t.map[a] # Absent}
  <2>1. {a \in Keys : n.map[a] # Absent} = Known \cup {src}
    BY <1>1, <1>4 DEF Tables, Indexes, Absent
  <2>2. EntriesOf(t, d) = {Entry(k) : k \in Known}
    BY Zenon DEF EntriesOf
  <2>3. EntriesOf(n, D) = {New(k) : k \in Known \cup {src}}
    BY <2>1, Zenon DEF EntriesOf
  <2>4. New(src) = [addr |-> src, port |-> dev, time |-> time]
    BY <1>1, <1>4 DEF Tables
  <2>5. ASSUME NEW k \in Known PROVE New(k) = Entry(k)
    <3>1. k \in Keys /\ k # src /\ t.map[k] \in Live(t) /\ t.map[k] \in Indexes
      BY Zenon DEF Within, Coherent, Live
    <3>2. n.map[k] = t.map[k] /\ t.map[k] # i
      BY <1>1, <1>4, <3>1, Zenon DEF Tables
    <3>3. D[t.map[k]] = d[t.map[k]] /\ n.heap[t.map[k]] = t.heap[t.map[k]]
      BY <1>1, <1>4, <3>1, <3>2, Zenon DEF Tables
    <3> QED
      BY <3>2, <3>3, Zenon
  <2> HIDE DEF Entry, New, Known
  <2> QED
    BY <2>2, <2>3, <2>4, <2>5, Zenon
<1> QED
  BY <1>2, <1>3, <1>5, <1>6, Zenon DEF Within, Learning!add_dyn_entry

\* The abstract table is bridge_out of space exactly when every index is handed bridge_out.
LEMMA OutOfSpace ==
  ASSUME NEW t \in Tables, Coherent(t), NEW d
  PROVE  Learning!dyn_table_out_of_space(EntriesOf(t, d)) <=> Live(t) = Indexes
<1> DEFINE Entry(k) == [addr |-> k, port |-> d[t.map[k]], time |-> t.heap[t.map[k]]]
           E == EntriesOf(t, d)
           f == [i \in Live(t) |-> Entry(t.vec[i])]
<1>1. Live(t) \subseteq Indexes /\ \A i \in Live(t) : t.vec[i] \in Keys
  BY Zenon DEF Live, Tables
<1>2. IsFiniteSet(Indexes) /\ Cardinality(Indexes) = Capacity
  BY FS_Interval, FlowTableAssumption DEF Indexes
<1>3. /\ IsFiniteSet(Live(t)) /\ Cardinality(Live(t)) <= Capacity
      /\ Cardinality(Live(t)) = Capacity => Live(t) = Indexes
      /\ Cardinality(Live(t)) \in Nat
  BY <1>1, <1>2, FS_Subset, FS_CardinalityType, Zenon
<1>4. \A k : Entry(k).addr = k
  BY Zenon
<1>5. E = {Entry(k) : k \in {a \in Keys : t.map[a] # Absent}}
  BY Zenon DEF EntriesOf
<1>6. \A i \in Live(t) : t.map[t.vec[i]] = i /\ i # Absent
  BY <1>1 DEF Coherent, Indexes, Absent
<1>7. \A k \in Keys : t.map[k] # Absent => t.map[k] \in Live(t) /\ t.vec[t.map[k]] = k
  BY Zenon DEF Coherent
<1> HIDE DEF Entry, E
<1>8. f \in [Live(t) -> E]
  BY <1>1, <1>5, <1>6, Zenon
<1>9. \A i, j \in Live(t) : f[i] = f[j] => i = j
  BY <1>4, <1>6
<1>10. \A e \in E : \E i \in Live(t) : f[i] = e
  BY <1>5, <1>7
<1> HIDE DEF f
<1>11. ExistsBijection(Live(t), E)
  BY <1>8, <1>9, <1>10, Zenon DEF ExistsBijection, Bijection, Injection, Surjection, IsInjective
<1>12. Cardinality(E) = Cardinality(Live(t))
  BY <1>3, <1>11, FS_Bijection, Zenon
<1>13. Capacity <= Cardinality(E) <=> Live(t) = Indexes
  BY <1>2, <1>3, <1>12, FlowTableAssumption
<1>14. Learning!dyn_table_out_of_space(E) <=> Capacity <= Cardinality(E)
  BY Zenon DEF Learning!dyn_table_out_of_space, Learning!Cardinality, Cardinality
<1> QED
  BY <1>13, <1>14, Zenon DEF E

-----------------------------------------------------------------------------
(* The invariant and the refinement.                                       *)

BridgeInv == BridgeTypeOK /\ TablesCoherent

LEMMA BridgeInitial == BridgeInit => BridgeInv /\ Learning!Init
<1> SUFFICES ASSUME BridgeInit PROVE BridgeInv /\ Learning!Init
  BY Zenon
<1>1. 0 \in Times
  BY FlowTableAssumption DEF Times
<1>2. BridgeTypeOK
  BY <1>1, Zenon DEF BridgeTypeOK, BridgeInit
<1>3. Coherent(dynamic_ft) /\ Live(dynamic_ft) = {}
  <2>1. Live(dynamic_ft) = {}
    BY Zenon DEF BridgeInit, Empty, Live
  <2> QED
    BY <2>1, Zenon DEF BridgeInit, Empty, Coherent
<1>4. Entries = {}
  BY Zenon DEF BridgeInit, Empty, Entries
<1> QED
  BY <1>2, <1>3, <1>4, Zenon
     DEF BridgeInv, TablesCoherent, BridgeInit, Learning!Init, Learning!Flood, FLOOD_FRAME

\* One frame: the invariant is kept, the entries become what learn makes of the
\* unexpired ones, and the frame goes where the abstract table sends it.
LEMMA FrameStep ==
  ASSUME BridgeInv, NEW src \in Keys, NEW dst \in Keys,
         NEW device \in Devices, NEW time \in bridge_now .. MaxTime,
         nf_core_process(src, dst, device, time)
  PROVE  BridgeInv' /\ Learning!Frame(src, dst, device, time)
<1> DEFINE border == time - Expiration
           t == bridge_expire_entries(dynamic_ft, time)
           left == Learning!expire_addresses(Entries, border)
<1>1. /\ bridge_now \in Times /\ time \in Times /\ time \in Int /\ bridge_now \in Int /\ bridge_now <= time
      /\ border \in Int /\ bridge_now - Expiration \in Int /\ bridge_now - Expiration <= border
      /\ border <= time
  BY FlowTableAssumption, BridgeAssumption DEF BridgeInv, BridgeTypeOK, Times
<1>2. Within(dynamic_ft, bridge_now - Expiration, bridge_now) /\ values \in [Indexes -> Devices]
  BY Zenon DEF BridgeInv, BridgeTypeOK, TablesCoherent, Within
<1>3. Within(t, border, bridge_now)
  BY <1>1, <1>2, ExpireWithin, Zenon DEF bridge_expire_entries
<1>4. left = EntriesOf(t, values)
  <2>1. Entries = EntriesOf(dynamic_ft, values)
    BY Zenon DEF Entries, EntriesOf
  <2> QED
    BY <1>1, <1>2, <2>1, ExpireEntries, Zenon DEF bridge_expire_entries
<1>5. Learning!has_key(left, src) <=> t.map[src] # Absent
  BY <1>4, HasKey
<1>6. Learning!dyn_table_out_of_space(left) <=> Live(t) = Indexes
  BY <1>3, <1>4, OutOfSpace, Zenon DEF Within
<1>7. bridge_put_update_entry(t, src, device, time)
  BY Zenon DEF nf_core_process
<1>8. Entries' = EntriesOf(dynamic_ft', values')
  BY Zenon DEF Entries, EntriesOf
<1> HIDE DEF border, t, left
<1>9. /\ Within(dynamic_ft', border, time)
      /\ values' \in [Indexes -> Devices]
      /\ Entries' = Learning!learn(left, src, device, time)
  <2>1. CASE t.map[src] # Absent /\ dynamic_ft' = Rejuvenate(t, t.map[src], time)
             /\ values' = values
    <3>1. /\ Within(dynamic_ft', border, time)
          /\ EntriesOf(dynamic_ft', values)
               = Learning!rejuvenate_dyn_entry(EntriesOf(t, values), src, time)
      BY <1>1, <1>3, <2>1, RejuvenateWithin
    <3> QED
      BY <1>2, <1>4, <1>5, <1>8, <2>1, <3>1, Zenon DEF Learning!learn
  <2>2. ASSUME t.map[src] = Absent, NEW i \in Indexes \ Live(t),
               dynamic_ft' = Insert(t, src, i, time),
               values' = [values EXCEPT ![i] = device]
        PROVE  <1>9!:
    <3>1. /\ Within(dynamic_ft', border, time)
          /\ EntriesOf(dynamic_ft', values')
               = Learning!add_dyn_entry(EntriesOf(t, values), src, device, time)
      <4>1. /\ border \in Int /\ bridge_now \in Int /\ Within(t, border, bridge_now)
            /\ time \in Times /\ border <= time /\ bridge_now <= time
            /\ values \in [Indexes -> Devices]
        BY <1>1, <1>2, <1>3, Zenon
      <4>2. Learnt(t, values, src, i, device, time, dynamic_ft', values')
        BY <2>2, Zenon DEF Learnt
      <4>3. i \in Indexes \ Live(t) /\ t.map[src] = Absent
        BY <2>2, Zenon
      <4> QED
        BY <4>1, <4>2, <4>3, InsertWithin
    <3>2. values' \in [Indexes -> Devices]
      BY <1>2, <2>2, Zenon
    <3>3. Live(t) # Indexes
      BY <2>2, Zenon
    <3> QED
      BY <1>4, <1>5, <1>6, <1>8, <2>2, <3>1, <3>2, <3>3, Zenon DEF Learning!learn
  <2>3. CASE t.map[src] = Absent /\ Live(t) = Indexes /\ dynamic_ft' = t /\ values' = values
    <3>1. Within(t, border, time)
      BY <1>1, <1>3 DEF Within
    <3> QED
      BY <1>2, <1>4, <1>5, <1>6, <1>8, <2>3, <3>1, Zenon DEF Learning!learn
  <2> QED
    BY <1>7, <2>1, <2>2, <2>3, Zenon DEF bridge_put_update_entry
<1>10. bridge_out' = bridge_get_device(dynamic_ft', values', dst) /\ bridge_now' = time
  BY Zenon DEF nf_core_process
<1>11. bridge_out' \in Devices \cup {FLOOD_FRAME}
  <2>1. dynamic_ft'.map[dst] # Absent => dynamic_ft'.map[dst] \in Indexes
    BY <1>9, Zenon DEF Within, Coherent, Live
  <2> QED
    BY <1>9, <1>10, <2>1, Zenon DEF bridge_get_device, FLOOD_FRAME
<1>12. BridgeInv'
  BY <1>1, <1>9, <1>10, <1>11, Zenon DEF BridgeInv, BridgeTypeOK, TablesCoherent, Within, border
<1>13. \/ /\ Learning!has_key(Entries', dst)
          /\ \E e \in Entries' : e.addr = dst /\ bridge_out' = e.port
       \/ ~Learning!has_key(Entries', dst) /\ bridge_out' = Learning!Flood
  BY <1>8, <1>10, HasKey DEF bridge_get_device, Learning!Flood
<1>14. Learning!Frame(src, dst, device, time)
  BY <1>9, <1>10, <1>13, Zenon DEF Learning!Frame, left, border
<1> QED
  BY <1>12, <1>14, Zenon

LEMMA BridgeStep ==
  ASSUME BridgeInv, [BridgeNext]_bridgeVars
  PROVE  BridgeInv' /\ [Learning!Next]_(Learning!vars)
<1>1. CASE UNCHANGED bridgeVars
  BY <1>1, Zenon DEF bridgeVars, BridgeInv, BridgeTypeOK, TablesCoherent, Learning!vars, Entries
<1>2. ASSUME NEW src \in Keys, NEW dst \in Keys, NEW device \in Devices,
             NEW time \in bridge_now .. MaxTime, nf_core_process(src, dst, device, time)
      PROVE  BridgeInv' /\ Learning!Next
  <2>1. BridgeInv' /\ Learning!Frame(src, dst, device, time)
    BY <1>2, FrameStep, Zenon
  <2>2. frame' = <<src, dst, device>>
    BY <1>2, Zenon DEF nf_core_process
  <2> QED
    BY <2>1, <2>2, Zenon DEF Learning!Next
<1> QED
  BY <1>1, <1>2, Zenon DEF BridgeNext

\* After every frame the map, the key vector and the chain of the bridge agree,
\* and every entry is younger than the expiration time (bridge_expire_entries,
\* bridge_put_update_entry).
THEOREM BridgeTables == BridgeSpec => []TablesCoherent
<1>1. BridgeInit => BridgeInv
  BY BridgeInitial, Zenon
<1>2. BridgeInv /\ [BridgeNext]_bridgeVars => BridgeInv'
  BY BridgeStep, Zenon
<1>3. BridgeInv => TablesCoherent
  BY Zenon DEF BridgeInv
<1> QED
  BY <1>1, <1>2, <1>3, PTL DEF BridgeSpec

\* The bridge implements the abstract table of bridge-abstract-state.h: every
\* frame expires, learns or rejuvenates entries and is sent as expire_addresses,
\* add_dyn_entry and rejuvenate_dyn_entry say.
THEOREM BridgeLearns == BridgeSpec => ImplementsMacTable
<1>1. BridgeInit => BridgeInv /\ Learning!Init
  BY BridgeInitial, Zenon
<1>2. BridgeInv /\ [BridgeNext]_bridgeVars => BridgeInv' /\ [Learning!Next]_(Learning!vars)
  BY BridgeStep, Zenon
<1> QED
  BY <1>1, <1>2, PTL DEF BridgeSpec, ImplementsMacTable, Learning!Spec
=============================================================================
