----------------------------- MODULE HashProofs -----------------------------
(***************************************************************************)
(* The hash tables.  libVig's map, for every capacity, any keys and every  *)
(* hash function: its chains count what they should after any calls, so    *)
(* that a lookup finds exactly the keys that are stored, and the table     *)
(* implements the contract of map.h as KeyMap states it.  The double map:  *)
(* its two tables lead to the same values until both are erased.  What the *)
(* two share is proved of any arrays.  And the load balancer's consistent  *)
(* hashing table, for every height and number of backends: lb_fill_cht     *)
(* trips over no assertion but the ones on its arguments, and fills in     *)
(* every row the priority list of all backends.                            *)
(***************************************************************************)
EXTENDS HashMap, DoubleMap, Cht, FiniteSetTheorems, TLAPS

-----------------------------------------------------------------------------
(* Slots and probes.                                                       *)

LEMMA LeastElement ==
  ASSUME NEW T \in SUBSET Nat, T # {}
  PROVE  \E x \in T : \A y \in T : x <= y
<1>1. PICK x \in T : \A y \in T : <<y, x>> \notin OpToRel(<, Nat)
  BY NatLessThanWellFounded, WFMin, Zenon
<1>2. \A y \in T : ~(y < x)
  BY <1>1, Zenon DEF OpToRel
<1> QED
  BY <1>2

LEMMA ModBelow ==
  ASSUME NEW x \in Int, NEW y \in Nat \ {0}
  PROVE  x % y \in 0 .. y - 1
OBVIOUS

LEMMA ProbeIsNat == ASSUME NEW h \in Int, NEW s \in Slots PROVE Probe(h, s) \in Nat
<1>1. loop(h) \in 0 .. capacity - 1
  BY ModBelow, CapacityAssumption, Zenon DEF loop
<1> QED
  BY <1>1, CapacityAssumption DEF Probe, Slots

LEMMA SlotsCounted == IsFiniteSet(Slots) /\ Cardinality(Slots) = capacity
<1>1. 0 \in Int /\ capacity - 1 \in Int /\ capacity \in Int /\ ~(0 > capacity - 1)
  BY CapacityAssumption
<1>2. /\ IsFiniteSet(0 .. capacity - 1)
      /\ Cardinality(0 .. capacity - 1)
           = IF 0 > capacity - 1 THEN 0 ELSE (capacity - 1) - 0 + 1
  BY <1>1, FS_Interval, Zenon
<1> QED
  BY <1>1, <1>2 DEF Slots

-----------------------------------------------------------------------------
(* Tables.  The lemmas are about arrays of any names, since the double map *)
(* has two of each: bb, ky, kh and chn are the busy bits, the keys of the  *)
(* slots, their hashes and the chains, hsh is the hash function.           *)

BusyIn(bb) == {s \in Slots : bb[s] # 0}

\* The busy slots whose key is counted in the chain of slot t.
OverIn(bb, kh, t) == {s \in BusyIn(bb) : t \in Passed(kh[s], s)}

\* Busy slots carry their keys' hashes, no key is in two of them, and the chains
\* are exact.
Sound(bb, ky, kh, chn, hsh, K) ==
  /\ bb \in [Slots -> {0, 1}] /\ ky \in [Slots -> K] /\ hsh \in [K -> Int]
  /\ kh \in [Slots -> Int] /\ chn \in [Slots -> Int]
  /\ \A s \in BusyIn(bb) : kh[s] = hsh[ky[s]]
  /\ \A s, t \in BusyIn(bb) : ky[s] = ky[t] => s = t
  /\ \A t \in Slots : chn[t] = Cardinality(OverIn(bb, kh, t))

LEMMA BusyFinite ==
  ASSUME NEW bb
  PROVE  /\ BusyIn(bb) \subseteq Slots /\ IsFiniteSet(BusyIn(bb))
         /\ \A kh, t : IsFiniteSet(OverIn(bb, kh, t))
<1>1. BusyIn(bb) \in SUBSET Slots /\ \A kh, t : OverIn(bb, kh, t) \in SUBSET Slots
  BY Zenon DEF BusyIn, OverIn
<1> QED
  BY <1>1, SlotsCounted, FS_Subset, Zenon

\* A table that is not full has a first free slot on the way of every probe.
LEMMA FreeSlotFound ==
  ASSUME NEW bb, BusyIn(bb) # Slots, NEW h \in Int
  PROVE  FirstEmpty(bb, h) \in Slots \ BusyIn(bb) /\ FirstEmpty(bb, h) # -1
<1>1. PICK free \in Slots : bb[free] = 0
  BY Zenon DEF BusyIn
<1> DEFINE ways == {Probe(h, s) : s \in {t \in Slots : bb[t] = 0}}
<1>2. ways \in SUBSET Nat /\ ways # {}
  BY <1>1, ProbeIsNat, Zenon
<1>3. PICK w \in ways : \A v \in ways : w <= v
  BY <1>2, LeastElement, Zenon
<1>4. PICK s \in Slots : bb[s] = 0 /\ w = Probe(h, s)
  BY <1>3, Zenon
<1>5. \A t \in Passed(h, s) : bb[t] # 0
  <2> SUFFICES ASSUME NEW t \in Slots, Probe(h, t) < Probe(h, s), bb[t] = 0
               PROVE  FALSE
    BY Zenon DEF Passed
  <2>1. Probe(h, t) \in ways
    BY Zenon
  <2>2. Probe(h, s) <= Probe(h, t) /\ Probe(h, s) \in Nat /\ Probe(h, t) \in Nat
    BY <1>3, <1>4, <2>1, ProbeIsNat, Zenon
  <2> QED
    BY <2>2
<1>6. FirstEmpty(bb, h) \in Slots /\ bb[FirstEmpty(bb, h)] = 0
  BY <1>4, <1>5, Zenon DEF FirstEmpty
<1>7. \A x \in Slots : x # -1
  BY CapacityAssumption DEF Slots
<1> QED
  BY <1>6, <1>7, Zenon DEF BusyIn

\* A stored key is in one slot, and the erasing loop finds it.
LEMMA KeySlot ==
  ASSUME NEW bb, NEW ky, NEW kh, NEW chn, NEW hsh, NEW K, Sound(bb, ky, kh, chn, hsh, K),
         NEW s \in BusyIn(bb)
  PROVE  /\ s \in Slots /\ s # -1 /\ ky[s] \in K /\ kh[s] = hsh[ky[s]] /\ kh[s] \in Int
         /\ Match(bb, ky, kh, ky[s], hsh[ky[s]], s)
         /\ \A t \in Slots : Match(bb, ky, kh, ky[s], hsh[ky[s]], t) => t = s
         /\ FirstMatch(bb, ky, kh, ky[s], hsh[ky[s]]) = s
<1>1. /\ s \in Slots /\ ky[s] \in K /\ kh[s] = hsh[ky[s]] /\ kh[s] \in Int
      /\ Match(bb, ky, kh, ky[s], hsh[ky[s]], s)
      /\ \A t \in Slots : Match(bb, ky, kh, ky[s], hsh[ky[s]], t) => t = s
  <2>1. s \in Slots /\ bb[s] # 0
    BY Zenon DEF BusyIn
  <2>2. ky[s] \in K /\ kh[s] = hsh[ky[s]] /\ kh[s] \in Int
    BY <2>1, Zenon DEF Sound
  <2>3. Match(bb, ky, kh, ky[s], hsh[ky[s]], s)
    BY <2>1, <2>2, Zenon DEF Match, SameHash
  <2>4. \A t \in Slots : Match(bb, ky, kh, ky[s], hsh[ky[s]], t) => t \in BusyIn(bb) /\ ky[t] = ky[s]
    BY Zenon DEF BusyIn, Match, SameHash
  <2>5. \A t \in BusyIn(bb) : ky[t] = ky[s] => t = s
    BY Zenon DEF Sound
  <2> QED
    BY <2>1, <2>2, <2>3, <2>4, <2>5, Zenon
<1>2. s # -1 /\ s \notin Passed(hsh[ky[s]], s)
  BY <1>1, ProbeIsNat, CapacityAssumption DEF Passed, Slots
<1>3. \A t \in Passed(hsh[ky[s]], s) : ~Match(bb, ky, kh, ky[s], hsh[ky[s]], t)
  BY <1>1, <1>2, Zenon DEF Passed
<1>4. FirstMatch(bb, ky, kh, ky[s], hsh[ky[s]]) = s
  BY <1>1, <1>3, Zenon DEF FirstMatch
<1> QED
  BY <1>1, <1>2, <1>4, Zenon

\* The lookup does not stop before it comes to a stored key: the chain of every
\* slot on its way counts that key.  (map_impl_get, find_key)
LEMMA LookupFinds ==
  ASSUME NEW bb, NEW ky, NEW kh, NEW chn, NEW hsh, NEW K, Sound(bb, ky, kh, chn, hsh, K),
         NEW s \in BusyIn(bb)
  PROVE  find_key(bb, ky, kh, chn, ky[s], hsh[ky[s]]) = s
<1> DEFINE h == hsh[ky[s]]
           M(t) == Match(bb, ky, kh, ky[s], h, t)
           Found(t) == M(t) /\ \A u \in Passed(h, t) :
                                 ~M(u) /\ ~(~SameHash(bb, kh, h, u) /\ chn[u] = 0)
<1>1. /\ s \in Slots /\ kh[s] = h /\ kh[s] \in Int
      /\ M(s) /\ \A t \in Slots : M(t) => t = s
  BY KeySlot
<1>2. ASSUME NEW u \in Passed(h, s) PROVE ~M(u) /\ chn[u] # 0
  <2>1. u \in Slots /\ u # s
    BY <1>1, ProbeIsNat DEF Passed
  <2>2. s \in OverIn(bb, kh, u)
    BY <1>1, Zenon DEF OverIn
  <2>3. Cardinality(OverIn(bb, kh, u)) # 0
    BY <2>2, BusyFinite, FS_EmptySet, Zenon
  <2> QED
    BY <1>1, <2>1, <2>3, Zenon DEF Sound
<1>3. Found(s) /\ \A t \in Slots : Found(t) => t = s
  BY <1>1, <1>2, Zenon
<1>4. find_key(bb, ky, kh, chn, ky[s], h)
        = IF \E t \in Slots : Found(t) THEN CHOOSE t \in Slots : Found(t) ELSE -1
  BY Zenon DEF find_key
<1> HIDE DEF Found, h
<1> QED
  BY <1>1, <1>3, <1>4, Zenon DEF h

LEMMA LookupMisses ==
  ASSUME NEW bb, NEW ky, NEW kh, NEW chn, NEW h, NEW key, \A s \in BusyIn(bb) : ky[s] # key
  PROVE  find_key(bb, ky, kh, chn, key, h) = -1
<1>1. \A s \in Slots : ~Match(bb, ky, kh, key, h, s)
  BY Zenon DEF BusyIn, Match, SameHash
<1> QED
  BY <1>1, Zenon DEF find_key

\* A sound table gets a new key at a free slot s.  Its keys are ky1 then, which
\* may differ from ky at the slots that are not busy.
NewKey(bb, ky, kh, chn, hsh, K, key, s, ky1) ==
  /\ Sound(bb, ky, kh, chn, hsh, K)
  /\ key \in K /\ \A x \in BusyIn(bb) : ky[x] # key
  /\ s \in Slots \ BusyIn(bb)
  /\ ky1 \in [Slots -> K] /\ ky1[s] = key /\ \A x \in BusyIn(bb) : ky1[x] = ky[x]

\* The table with the key at s is sound.
KeyIsPut(bb, kh, chn, hsh, K, key, s, ky1) ==
  LET bb1 == [bb EXCEPT ![s] = 1]
  IN  /\ BusyIn(bb1) = BusyIn(bb) \cup {s}
      /\ Sound(bb1, ky1, [kh EXCEPT ![s] = hsh[key]],
               [t \in Slots |-> IF t \in Passed(hsh[key], s) THEN chn[t] + 1 ELSE chn[t]],
               hsh, K)

\* A put counts its key where its probe passed, and nothing else.
LEMMA SoundPut ==
  ASSUME NEW bb, NEW ky, NEW kh, NEW chn, NEW hsh, NEW K, NEW key, NEW s, NEW ky1,
         NewKey(bb, ky, kh, chn, hsh, K, key, s, ky1)
  PROVE  KeyIsPut(bb, kh, chn, hsh, K, key, s, ky1)
<1> DEFINE bb1 == [bb EXCEPT ![s] = 1]
           kh1 == [kh EXCEPT ![s] = hsh[key]]
           chn1 == [t \in Slots |-> IF t \in Passed(hsh[key], s) THEN chn[t] + 1 ELSE chn[t]]
<1>0. /\ Sound(bb, ky, kh, chn, hsh, K)
      /\ key \in K /\ \A x \in BusyIn(bb) : ky[x] # key
      /\ s \in Slots \ BusyIn(bb)
      /\ ky1 \in [Slots -> K] /\ ky1[s] = key /\ \A x \in BusyIn(bb) : ky1[x] = ky[x]
  BY Zenon DEF NewKey
<1>1. bb1 \in [Slots -> {0, 1}] /\ kh1 \in [Slots -> Int] /\ chn1 \in [Slots -> Int]
  BY <1>0 DEF Sound
<1>2. BusyIn(bb1) = BusyIn(bb) \cup {s}
  BY <1>0 DEF BusyIn, Sound
<1>3. kh1[s] = hsh[key] /\ \A x \in BusyIn(bb) : x # s /\ kh1[x] = kh[x]
  BY <1>0, Zenon DEF BusyIn, Sound
<1>4. \A t \in Slots : chn1[t] = IF t \in Passed(hsh[key], s) THEN chn[t] + 1 ELSE chn[t]
  BY Zenon
<1> HIDE DEF bb1, kh1, chn1
<1>5. \A x \in BusyIn(bb1) : kh1[x] = hsh[ky1[x]]
  BY <1>0, <1>2, <1>3, Zenon DEF Sound
<1>6. \A x, y \in BusyIn(bb1) : ky1[x] = ky1[y] => x = y
  BY <1>0, <1>2, Zenon DEF Sound
<1>7. ASSUME NEW t \in Slots PROVE chn1[t] = Cardinality(OverIn(bb1, kh1, t))
  <2> DEFINE over == OverIn(bb, kh, t)
  <2>1. OverIn(bb1, kh1, t) = IF t \in Passed(hsh[key], s) THEN over \cup {s} ELSE over
    BY <1>0, <1>2, <1>3, Zenon DEF OverIn
  <2>2. s \notin over /\ IsFiniteSet(over) /\ chn[t] = Cardinality(over)
    <3>1. s \notin over
      BY <1>0, Zenon DEF OverIn
    <3>2. chn[t] = Cardinality(over)
      BY <1>0, Zenon DEF Sound
    <3> QED
      BY <3>1, <3>2, BusyFinite, Zenon
  <2> HIDE DEF over
  <2>3. Cardinality(over \cup {s}) = Cardinality(over) + 1
    BY <2>2, FS_AddElement, Zenon
  <2> QED
    BY <1>4, <2>1, <2>2, <2>3, Zenon
<1>8. Sound(bb1, ky1, kh1, chn1, hsh, K)
  BY <1>0, <1>1, <1>5, <1>6, <1>7, Zenon DEF Sound
<1> QED
  BY <1>2, <1>8, Zenon DEF bb1, kh1, chn1, KeyIsPut

\* The table without the key at s is sound.
KeyIsErased(bb, ky, kh, chn, hsh, K, s) ==
  LET bb1 == [bb EXCEPT ![s] = 0]
  IN  /\ BusyIn(bb1) = BusyIn(bb) \ {s}
      /\ Sound(bb1, ky, kh,
               [t \in Slots |-> IF t \in Passed(hsh[ky[s]], s) THEN chn[t] - 1 ELSE chn[t]],
               hsh, K)

\* An erase takes back exactly the steps that the put of its key took.
LEMMA SoundErase ==
  ASSUME NEW bb, NEW ky, NEW kh, NEW chn, NEW hsh, NEW K, Sound(bb, ky, kh, chn, hsh, K),
         NEW s \in BusyIn(bb)
  PROVE  KeyIsErased(bb, ky, kh, chn, hsh, K, s)
<1> DEFINE h == hsh[ky[s]]
           bb1 == [bb EXCEPT ![s] = 0]
           chn1 == [t \in Slots |-> IF t \in Passed(h, s) THEN chn[t] - 1 ELSE chn[t]]
<1>1. s \in Slots /\ kh[s] = h
  BY KeySlot
<1>2. bb1 \in [Slots -> {0, 1}] /\ chn1 \in [Slots -> Int]
  <2>1. \A t \in Slots : chn[t] \in Int /\ chn[t] - 1 \in Int
    BY DEF Sound
  <2>2. chn1 \in [Slots -> Int]
    BY <2>1, Zenon
  <2>3. bb1 \in [Slots -> {0, 1}]
    BY Zenon DEF Sound
  <2> QED
    BY <2>2, <2>3, Zenon
<1>3. BusyIn(bb1) = BusyIn(bb) \ {s}
  BY <1>1 DEF BusyIn, Sound
<1>4. \A t \in Slots : chn1[t] = IF t \in Passed(h, s) THEN chn[t] - 1 ELSE chn[t]
  BY Zenon
<1> HIDE DEF h, bb1, chn1
<1>5. ASSUME NEW t \in Slots PROVE chn1[t] = Cardinality(OverIn(bb1, kh, t))
  <2> DEFINE over == OverIn(bb, kh, t)
  <2>1. OverIn(bb1, kh, t) = over \ {s}
    BY <1>3, Zenon DEF OverIn
  <2>2. s \in over <=> t \in Passed(h, s)
    BY <1>1, Zenon DEF OverIn
  <2>3. IsFiniteSet(over) /\ chn[t] = Cardinality(over)
    BY BusyFinite, Zenon DEF Sound
  <2> HIDE DEF over
  <2>4. Cardinality(over \ {s}) = IF s \in over THEN Cardinality(over) - 1 ELSE Cardinality(over)
    BY <2>3, FS_RemoveElement, Zenon
  <2> QED
    BY <1>4, <2>1, <2>2, <2>3, <2>4, Zenon
<1>6. /\ \A x \in BusyIn(bb1) : kh[x] = hsh[ky[x]]
      /\ \A x, y \in BusyIn(bb1) : ky[x] = ky[y] => x = y
  BY <1>3, Zenon DEF Sound
<1>7. Sound(bb1, ky, kh, chn1, hsh, K)
  <2>1. ky \in [Slots -> K] /\ hsh \in [K -> Int] /\ kh \in [Slots -> Int]
    BY Zenon DEF Sound
  <2> QED
    BY <2>1, <1>2, <1>5, <1>6, Zenon DEF Sound
<1> QED
  BY <1>3, <1>7, Zenon DEF bb1, chn1, h, KeyIsErased

\* An empty table.
LEMMA SoundEmpty ==
  ASSUME NEW ky, NEW kh, NEW hsh, NEW K,
         ky \in [Slots -> K], hsh \in [K -> Int], kh \in [Slots -> Int]
  PROVE  LET zero == [s \in Slots |-> 0]
         IN  BusyIn(zero) = {} /\ Sound(zero, ky, kh, zero, hsh, K)
<1> DEFINE zero == [s \in Slots |-> 0]
<1>1. zero \in [Slots -> {0, 1}] /\ zero \in [Slots -> Int] /\ \A s \in Slots : zero[s] = 0
  OBVIOUS
<1> HIDE DEF zero
<1>2. BusyIn(zero) = {} /\ \A t : OverIn(zero, kh, t) = {}
  BY <1>1, Zenon DEF BusyIn, OverIn
<1>3. Sound(zero, ky, kh, zero, hsh, K)
  BY <1>1, <1>2, FS_EmptySet, Zenon DEF Sound
<1> QED
  BY <1>2, <1>3, Zenon DEF zero

-----------------------------------------------------------------------------
(* The map.                                                                *)

TypeOK ==
  /\ busybits \in [Slots -> {0, 1}]
  /\ keyps \in [Slots -> Keys]
  /\ khs \in [Slots -> Int]
  /\ chns \in [Slots -> Int]
  /\ vals \in [Slots -> Values]
  /\ khash \in [Keys -> Int]

MapInv == TypeOK /\ ChainsCount

LEMMA MapIsSound ==
  ASSUME MapInv
  PROVE  Sound(busybits, keyps, khs, chns, khash, Keys) /\ BusyIn(busybits) = Busy
<1>1. BusyIn(busybits) = Busy
  BY Zenon DEF BusyIn, Busy
<1> QED
  BY <1>1, Zenon DEF MapInv, TypeOK, ChainsCount, Sound, OverIn

LEMMA SoundIsMap ==
  ASSUME Sound(busybits', keyps', khs', chns', khash', Keys), vals' \in [Slots -> Values],
         size' = Cardinality(BusyIn(busybits'))
  PROVE  MapInv'
<1>1. BusyIn(busybits') = Busy'
  BY Zenon DEF BusyIn, Busy, Slots
<1>2. \A x, t : Passed(khs[x], t)' = Passed(khs'[x], t)
  BY Zenon DEF Passed, Slots, Probe, loop
<1>3. TypeOK'
  BY Zenon DEF TypeOK, Sound, Slots
<1>4. ChainsCount'
  BY <1>1, <1>2, Zenon DEF ChainsCount, Sound, OverIn, Slots
<1> QED
  BY <1>3, <1>4, Zenon DEF MapInv

\* A put fills one slot that was free.
LEMMA PutStep ==
  ASSUME MapInv, NEW key \in Keys, NEW value \in Values, map_put(key, value)
  PROVE  /\ MapInv'
         /\ \E s \in Slots \ Busy :
              /\ Busy' = Busy \cup {s}
              /\ keyps' = [keyps EXCEPT ![s] = key]
              /\ vals' = [vals EXCEPT ![s] = value]
<1> DEFINE h == khash[key]
           s == FirstEmpty(busybits, h)
<1>1. /\ Sound(busybits, keyps, khs, chns, khash, Keys)
      /\ BusyIn(busybits) = Busy /\ IsFiniteSet(Busy) /\ h \in Int
  BY MapIsSound, BusyFinite, Zenon DEF MapInv, TypeOK
<1>2. Busy # Slots
  <2>1. Cardinality(Busy) < capacity /\ capacity \in Nat
    BY CapacityAssumption, Zenon DEF map_put
  <2> QED
    BY <2>1, SlotsCounted
<1>3. s \in Slots \ Busy /\ s # -1
  BY <1>1, <1>2, FreeSlotFound, Zenon
<1>4. /\ busybits' = [busybits EXCEPT ![s] = 1]
      /\ keyps' = [keyps EXCEPT ![s] = key]
      /\ khs' = [khs EXCEPT ![s] = h]
      /\ vals' = [vals EXCEPT ![s] = value]
      /\ chns' = [t \in Slots |-> IF t \in (IF s = -1 THEN Slots ELSE Passed(h, s))
                                  THEN chns[t] + 1 ELSE chns[t]]
      /\ khash' = khash /\ size' = size + 1 /\ key \notin Stored
  BY Zenon DEF map_put, map_impl_put, find_empty
<1> HIDE DEF s
<1>5. chns' = [t \in Slots |-> IF t \in Passed(h, s) THEN chns[t] + 1 ELSE chns[t]]
  BY <1>3, <1>4, Zenon
<1>6. /\ keyps' \in [Slots -> Keys] /\ keyps'[s] = key
      /\ \A x \in Busy : keyps'[x] = keyps[x] /\ keyps[x] # key
      /\ vals' \in [Slots -> Values]
  BY <1>3, <1>4, Zenon DEF MapInv, TypeOK, Busy, Stored
<1>7. BusyIn(busybits') = Busy \cup {s} /\ Sound(busybits', keyps', khs', chns', khash', Keys)
  <2>1. NewKey(busybits, keyps, khs, chns, khash, Keys, key, s, keyps')
    BY <1>1, <1>3, <1>6, Zenon DEF NewKey
  <2>2. KeyIsPut(busybits, khs, chns, khash, Keys, key, s, keyps')
    BY <2>1, SoundPut
  <2> QED
    BY <1>1, <1>4, <1>5, <2>2, Zenon DEF KeyIsPut
<1>8. size' = Cardinality(Busy \cup {s})
  <2>1. Cardinality(Busy \cup {s}) = Cardinality(Busy) + 1
    BY <1>1, <1>3, FS_AddElement, Zenon
  <2> QED
    BY <1>4, <2>1, Zenon DEF MapInv, ChainsCount
<1>9. MapInv' /\ Busy' = Busy \cup {s}
  BY <1>6, <1>7, <1>8, SoundIsMap, Zenon DEF BusyIn, Busy, Slots
<1> QED
  BY <1>3, <1>4, <1>9, Zenon

\* An erase frees the slot of its key.
LEMMA EraseStep ==
  ASSUME MapInv, NEW key \in Keys, map_erase(key)
  PROVE  /\ MapInv'
         /\ \E s \in Busy : keyps[s] = key /\ Busy' = Busy \ {s} /\ out' = {key}
<1>1. PICK s \in Busy : keyps[s] = key
  BY Zenon DEF map_erase, Stored
<1>2. /\ Sound(busybits, keyps, khs, chns, khash, Keys)
      /\ BusyIn(busybits) = Busy /\ IsFiniteSet(Busy)
  BY MapIsSound, BusyFinite, Zenon
<1>3. FirstMatch(busybits, keyps, khs, key, khash[key]) = s /\ s # -1
  BY <1>1, <1>2, KeySlot
<1>4. /\ busybits' = [busybits EXCEPT ![s] = 0]
      /\ out' = {key}
      /\ chns' = [t \in Slots |-> IF t \in Passed(khash[keyps[s]], s) THEN chns[t] - 1 ELSE chns[t]]
      /\ size' = size - 1 /\ UNCHANGED <<keyps, khs, vals, khash>>
  BY <1>1, <1>3, Zenon DEF map_erase, find_key_remove_chain
<1>5. BusyIn(busybits') = Busy \ {s} /\ Sound(busybits', keyps', khs', chns', khash', Keys)
  <2>1. KeyIsErased(busybits, keyps, khs, chns, khash, Keys, s)
    BY <1>2, SoundErase
  <2> QED
    BY <1>2, <1>4, <2>1, Zenon DEF KeyIsErased
<1>6. size' = Cardinality(Busy \ {s}) /\ vals' \in [Slots -> Values]
  <2>1. Cardinality(Busy \ {s}) = Cardinality(Busy) - 1
    BY <1>2, FS_RemoveElement, Zenon
  <2> QED
    BY <1>4, <2>1, Zenon DEF MapInv, ChainsCount, TypeOK
<1>7. MapInv' /\ Busy' = Busy \ {s}
  BY <1>5, <1>6, SoundIsMap, Zenon DEF BusyIn, Busy, Slots
<1> QED
  BY <1>1, <1>4, <1>7, Zenon

LEMMA MapStep == MapInv /\ [Next]_vars => MapInv'
<1> SUFFICES ASSUME MapInv, [Next]_vars PROVE MapInv'
  BY Zenon
<1>1. ASSUME UNCHANGED <<arrays, size, khash>> PROVE MapInv'
  BY <1>1 DEF arrays, MapInv, TypeOK, ChainsCount, Busy, Passed, Slots, Probe, loop
<1>2. CASE UNCHANGED vars
  BY <1>1, <1>2, Zenon DEF vars, arrays
<1>3. ASSUME NEW key \in Keys, map_get(key) PROVE MapInv'
  BY <1>1, <1>3, Zenon DEF map_get
<1>4. CASE map_size
  BY <1>1, <1>4, Zenon DEF map_size
<1> QED
  BY <1>2, <1>3, <1>4, PutStep, EraseStep, Zenon DEF Next

LEMMA MapInit == Init => MapInv
<1> SUFFICES ASSUME Init PROVE MapInv
  BY Zenon
<1>1. TypeOK
  <2>1. khash \in [Keys -> Int] /\ khs \in [Slots -> Int]
    BY HashesAssumption, Zenon DEF Init, map_allocate
  <2>2. busybits \in [Slots -> {0, 1}] /\ chns \in [Slots -> Int]
    BY DEF Init, map_allocate
  <2> QED
    BY <2>1, <2>2, Zenon DEF Init, TypeOK
<1>2. Busy = {}
  BY Zenon DEF Init, map_allocate, Busy
<1>3. \A t \in Slots : {s \in Busy : t \in Passed(khs[s], s)} = {}
  BY <1>2, Zenon
<1>4. ChainsCount
  BY <1>2, <1>3, FS_EmptySet, Zenon DEF Init, map_allocate, ChainsCount
<1> QED
  BY <1>1, <1>4, Zenon DEF MapInv

LEMMA MapInvariant == Spec => []MapInv
BY MapInit, MapStep, PTL DEF Spec

\* For every capacity, set of keys and hash function, the chain of every slot
\* counts the stored keys whose probe passed it, after any puts and erases.
\* (find_empty, find_key_remove_chain)
THEOREM ChainsExact == Spec => []ChainsCount
<1>1. MapInv => ChainsCount
  BY Zenon DEF MapInv
<1> QED
  BY <1>1, MapInvariant, PTL

-----------------------------------------------------------------------------
(* The contract of map.h.                                                  *)

LEMMA SameCardinality == \A S : Map!Cardinality(S) = Cardinality(S)
BY Zenon DEF Map!Cardinality, Cardinality, Map!IsFiniteSet, IsFiniteSet

\* As many keys are stored as slots are busy.
LEMMA StoredCounted == ASSUME MapInv PROVE Cardinality(Stored) = Cardinality(Busy)
<1> DEFINE f == [s \in Busy |-> keyps[s]]
<1>1. f \in Bijection(Busy, Stored)
  BY Zenon DEF Bijection, Injection, Surjection, IsInjective, Stored, MapInv, ChainsCount
<1>2. ExistsBijection(Busy, Stored)
  BY <1>1, Zenon DEF ExistsBijection
<1> QED
  BY <1>2, BusyFinite, MapIsSound, FS_Bijection

LEMMA ContentsAre ==
  ASSUME MapInv
  PROVE  /\ DOMAIN Contents = Stored
         /\ \A s \in Busy : keyps[s] \in Stored /\ Contents[keyps[s]] = vals[s]
<1>1. DOMAIN Contents = Stored /\ \A key \in Stored : Contents[key] = vals[SlotOf(key)]
  BY Zenon DEF Contents
<1>2. \A s \in Busy : keyps[s] \in Stored /\ SlotOf(keyps[s]) = s
  BY Zenon DEF Stored, SlotOf, MapInv, ChainsCount
<1> QED
  BY <1>1, <1>2, Zenon

\* A call that leaves the arrays alone leaves the partial function alone.
LEMMA ContentsKept == ASSUME UNCHANGED arrays PROVE UNCHANGED Contents
BY DEF arrays, Contents, Stored, SlotOf, Busy

LEMMA GetSimulates ==
  ASSUME MapInv, NEW key \in Keys, map_get(key)
  PROVE  Map!Get(key)
<1>1. UNCHANGED Contents
  BY ContentsKept, Zenon DEF map_get, arrays
<1>2. CASE key \in Stored
  <2>1. PICK s \in Busy : keyps[s] = key
    BY <1>2, Zenon DEF Stored
  <2>2. find_key(busybits, keyps, khs, chns, key, khash[key]) = s /\ s # -1
    BY <2>1, LookupFinds, KeySlot, MapIsSound
  <2>3. ret' = 1 /\ out' = {vals[s]}
    BY <2>2, Zenon DEF map_get
  <2>4. key \in DOMAIN Contents /\ Contents[key] = vals[s]
    BY <2>1, ContentsAre, Zenon
  <2> QED
    BY <1>1, <2>3, <2>4, Zenon DEF Map!Get
<1>3. CASE key \notin Stored
  <2>1. ret' = 0 /\ out' = {}
    <3>1. find_key(busybits, keyps, khs, chns, key, khash[key]) = -1
      BY <1>3, LookupMisses, MapIsSound, Zenon DEF Stored
    <3> QED
      BY <3>1, Zenon DEF map_get
  <2>2. key \notin DOMAIN Contents
    BY <1>3, ContentsAre, Zenon
  <2> QED
    BY <1>1, <2>1, <2>2, Zenon DEF Map!Get
<1> QED
  BY <1>2, <1>3, Zenon

LEMMA PutSimulates ==
  ASSUME MapInv, MapInv', NEW key \in Keys, NEW value \in Values, map_put(key, value)
  PROVE  Map!Put(key, value)
<1>1. PICK s \in Slots \ Busy :
           /\ Busy' = Busy \cup {s}
           /\ keyps' = [keyps EXCEPT ![s] = key]
           /\ vals' = [vals EXCEPT ![s] = value]
  BY PutStep, Zenon
<1>2. /\ keyps'[s] = key /\ vals'[s] = value
      /\ \A x \in Busy : x # s /\ keyps'[x] = keyps[x] /\ vals'[x] = vals[x]
  BY <1>1, Zenon DEF MapInv, TypeOK, Busy
<1>3. Stored' = Stored \cup {key}
  BY <1>1, <1>2, Zenon DEF Stored
<1>4. /\ key \notin Stored /\ ret' = 0 /\ out' = {}
      /\ Cardinality(Stored) < capacity
  BY StoredCounted, Zenon DEF map_put
<1>5. \A x, y \in Busy' : keyps'[x] = keyps'[y] => x = y
  BY Zenon DEF MapInv, ChainsCount
<1>6. ASSUME NEW k \in Stored'
      PROVE  vals'[SlotOf(k)'] = IF k = key THEN value ELSE Contents[k]
  <2>1. PICK x \in Busy' : keyps'[x] = k
    BY Zenon DEF Stored
  <2>2. SlotOf(k)' = x
    BY <1>5, <2>1, Zenon DEF SlotOf
  <2>3. x = s => k = key /\ vals'[x] = value
    BY <1>2, <2>1, Zenon
  <2>4. x # s => x \in Busy /\ k # key /\ vals'[x] = Contents[k]
    BY <1>1, <1>2, <1>4, <2>1, ContentsAre, Zenon
  <2> QED
    BY <2>2, <2>3, <2>4, Zenon
<1>7. Contents' = [k \in Stored \cup {key} |-> IF k = key THEN value ELSE Contents[k]]
  <2>1. Contents' = [k \in Stored' |-> vals'[SlotOf(k)']]
    BY Zenon DEF Contents
  <2> QED
    BY <1>3, <1>6, <2>1, Zenon
<1>8. DOMAIN Contents = Stored
  BY ContentsAre, Zenon
<1> QED
  BY <1>4, <1>7, <1>8, SameCardinality, Zenon DEF Map!Put

LEMMA EraseSimulates ==
  ASSUME MapInv, MapInv', NEW key \in Keys, map_erase(key)
  PROVE  Map!Erase(key)
<1>1. PICK s \in Busy : keyps[s] = key /\ Busy' = Busy \ {s} /\ out' = {key}
  BY EraseStep, Zenon
<1>2. key \in Stored /\ ret' = 0 /\ keyps' = keyps /\ vals' = vals
  BY Zenon DEF map_erase
<1>3. \A x, y \in Busy : keyps[x] = keyps[y] => x = y
  BY Zenon DEF MapInv, ChainsCount
<1>4. Stored' = Stored \ {key}
  BY <1>1, <1>2, <1>3, Zenon DEF Stored
<1>5. ASSUME NEW k \in Stored' PROVE vals'[SlotOf(k)'] = Contents[k]
  <2>1. PICK x \in Busy' : keyps'[x] = k
    BY Zenon DEF Stored
  <2>2. SlotOf(k)' = x
    BY <1>1, <1>2, <1>3, <2>1, Zenon DEF SlotOf
  <2> QED
    BY <1>1, <1>2, <2>1, <2>2, ContentsAre, Zenon
<1>6. Contents' = [k \in Stored \ {key} |-> Contents[k]]
  <2>1. Contents' = [k \in Stored' |-> vals'[SlotOf(k)']]
    BY Zenon DEF Contents
  <2> QED
    BY <1>4, <1>5, <2>1, Zenon
<1> QED
  BY <1>1, <1>2, <1>6, ContentsAre, Zenon DEF Map!Erase

LEMMA MapSimulates == MapInv /\ MapInv' /\ [Next]_vars => [Map!Next]_(Map!vars)
<1> SUFFICES ASSUME MapInv, MapInv', [Next]_vars PROVE [Map!Next]_(Map!vars)
  BY Zenon
<1>1. CASE UNCHANGED vars
  BY <1>1, ContentsKept, Zenon DEF vars, arrays, Map!vars
<1>2. ASSUME map_size PROVE Map!Size
  <2>1. UNCHANGED Contents
    BY <1>2, ContentsKept, Zenon DEF map_size
  <2>2. ret' = Cardinality(DOMAIN Contents) /\ out' = {}
    BY <1>2, ContentsAre, StoredCounted, Zenon DEF map_size, MapInv, ChainsCount
  <2> QED
    BY <2>1, <2>2, SameCardinality, Zenon DEF Map!Size
<1> QED
  BY <1>1, <1>2, GetSimulates, PutSimulates, EraseSimulates, Zenon DEF Next, Map!Next

\* For every capacity, set of keys and hash function, the table implements the
\* partial function of map.h: a lookup finds a key if and only if it was put
\* and not erased since, with its value.  (map_get, map_put, map_erase)
THEOREM MapRefinement == Spec => ImplementsKeyMap
<1>1. Init => Map!Init
  <2> SUFFICES ASSUME Init PROVE Map!Init
    BY Zenon
  <2>1. Stored = {}
    BY Zenon DEF Init, map_allocate, Stored, Busy
  <2>2. Contents = [k \in {} |-> 0]
    BY <2>1, Zenon DEF Contents
  <2> QED
    BY <2>2, Zenon DEF Init, map_allocate, Map!Init
<1>2. MapInv /\ MapInv' /\ [Next]_vars => [Map!Next]_(Map!vars)
  BY MapSimulates, Zenon
<1> QED
  BY <1>1, <1>2, MapInvariant, PTL DEF Spec, ImplementsKeyMap, Map!Spec

-----------------------------------------------------------------------------
(* The double map.  Its lemmas are about one of its tables, of either keys *)
(* and of any arrays.                                                      *)

\* The keys of the slots, when kv has the keys of the values.
KeysOf(ind, kv) == [s \in Slots |-> kv[ind[s]]]

\* The table is sound and leads to the indexes of U, and to no others.
Holds(bb, kh, chn, ind, hsh, K, kv, U) ==
  /\ Sound(bb, KeysOf(ind, kv), kh, chn, hsh, K)
  /\ ind \in [Slots -> Slots] /\ kv \in [Slots -> K]
  /\ {ind[s] : s \in BusyIn(bb)} = U

\* What Holds says of single slots and indexes.
LEMMA HoldsMeans ==
  ASSUME NEW bb, NEW kh, NEW chn, NEW ind, NEW hsh, NEW K, NEW kv, NEW U,
         Holds(bb, kh, chn, ind, hsh, K, kv, U)
  PROVE  /\ \A s \in BusyIn(bb) : /\ s \in Slots /\ ind[s] \in U
                                  /\ KeysOf(ind, kv)[s] = kv[ind[s]]
         /\ \A x \in U : x \in Slots /\ \E s \in BusyIn(bb) : ind[s] = x
         /\ \A s, t \in BusyIn(bb) : kv[ind[s]] = kv[ind[t]] => s = t
<1>1. \A s \in BusyIn(bb) : s \in Slots
  BY Zenon DEF BusyIn
<1>2. \A s \in Slots : ind[s] \in Slots /\ KeysOf(ind, kv)[s] = kv[ind[s]]
  BY Zenon DEF Holds, KeysOf
<1>3. \A s, t \in BusyIn(bb) : KeysOf(ind, kv)[s] = KeysOf(ind, kv)[t] => s = t
  BY Zenon DEF Holds, Sound
<1>4. \A x : x \in U <=> \E s \in BusyIn(bb) : ind[s] = x
  BY Zenon DEF Holds
<1>5. \A s \in BusyIn(bb) : /\ s \in Slots /\ ind[s] \in U
                            /\ KeysOf(ind, kv)[s] = kv[ind[s]]
  BY <1>1, <1>2, <1>4, Zenon
<1>6. \A x \in U : x \in Slots /\ \E s \in BusyIn(bb) : ind[s] = x
  BY <1>1, <1>2, <1>4, Zenon
<1>7. \A s, t \in BusyIn(bb) : kv[ind[s]] = kv[ind[t]] => s = t
  BY <1>3, <1>5, Zenon
<1> QED
  BY <1>5, <1>6, <1>7, Zenon

\* A lookup leads to the index in use whose value has the key.
Finds(bb, kh, chn, ind, hsh, kv, U, key) ==
  LET slot == find_key(bb, KeysOf(ind, kv), kh, chn, key, hsh[key])
  IN  {ind[s] : s \in {slot} \ {-1}} = {x \in U : kv[x] = key}

LEMMA HoldsGet ==
  ASSUME NEW bb, NEW kh, NEW chn, NEW ind, NEW hsh, NEW K, NEW kv, NEW U,
         Holds(bb, kh, chn, ind, hsh, K, kv, U), NEW key
  PROVE  Finds(bb, kh, chn, ind, hsh, kv, U, key)
<1> DEFINE slot == find_key(bb, KeysOf(ind, kv), kh, chn, key, hsh[key])
<1>1. Sound(bb, KeysOf(ind, kv), kh, chn, hsh, K)
  BY Zenon DEF Holds
<1>2. CASE \E s \in BusyIn(bb) : kv[ind[s]] = key
  <2>1. PICK s \in BusyIn(bb) : kv[ind[s]] = key
    BY <1>2, Zenon
  <2>2. KeysOf(ind, kv)[s] = key /\ ind[s] \in U
    BY <2>1, HoldsMeans
  <2>3. slot = s /\ s # -1
    <3>1. find_key(bb, KeysOf(ind, kv), kh, chn, KeysOf(ind, kv)[s], hsh[KeysOf(ind, kv)[s]]) = s
      BY <1>1, LookupFinds
    <3>2. s # -1
      BY <1>1, KeySlot
    <3> QED
      BY <2>2, <3>1, <3>2, Zenon
  <2>4. \A x \in U : kv[x] = key => x = ind[s]
    BY <2>1, HoldsMeans
  <2> HIDE DEF slot
  <2>5. {ind[t] : t \in {slot} \ {-1}} = {ind[s]}
    BY <2>3, Zenon
  <2>6. {x \in U : kv[x] = key} = {ind[s]}
    BY <2>1, <2>2, <2>4, Zenon
  <2> QED
    BY <2>5, <2>6, Zenon DEF slot, Finds
<1>3. CASE ~\E s \in BusyIn(bb) : kv[ind[s]] = key
  <2>1. \A s \in BusyIn(bb) : KeysOf(ind, kv)[s] # key
    BY <1>3, HoldsMeans
  <2>2. slot = -1
    BY <2>1, LookupMisses
  <2>3. \A x \in U : kv[x] # key
    BY <1>3, HoldsMeans
  <2> HIDE DEF slot
  <2> QED
    BY <2>2, <2>3, Zenon DEF slot, Finds
<1> QED
  BY <1>2, <1>3, Zenon

\* A key that no lookup finds comes with an index x that is not in use.  What the
\* value at that index was before does not matter.
NewIndex(bb, kh, chn, ind, hsh, K, kv, U, x, key, kv1) ==
  /\ Holds(bb, kh, chn, ind, hsh, K, kv, U)
  /\ x \in Slots \ U /\ key \in K /\ \A y \in U : kv[y] # key
  /\ kv1 \in [Slots -> K] /\ kv1[x] = key /\ \A y \in U : kv1[y] = kv[y]

IndexIsPut(bb, kh, chn, ind, hsh, K, U, x, key, kv1) ==
  LET s == FirstEmpty(bb, hsh[key])
  IN  Holds([bb EXCEPT ![s] = 1], [kh EXCEPT ![s] = hsh[key]],
            find_empty(bb, chn, hsh[key]), [ind EXCEPT ![s] = x], hsh, K, kv1, U \cup {x})

\* A put leads to the new index too.
LEMMA HoldsPut ==
  ASSUME NEW bb, NEW kh, NEW chn, NEW ind, NEW hsh, NEW K, NEW kv, NEW U, NEW x, NEW key,
         NEW kv1, NewIndex(bb, kh, chn, ind, hsh, K, kv, U, x, key, kv1)
  PROVE  IndexIsPut(bb, kh, chn, ind, hsh, K, U, x, key, kv1)
<1> DEFINE s == FirstEmpty(bb, hsh[key])
           B == BusyIn(bb)
           ind1 == [ind EXCEPT ![s] = x]
           bb1 == [bb EXCEPT ![s] = 1]
           kh1 == [kh EXCEPT ![s] = hsh[key]]
           chn1 == [t \in Slots |-> IF t \in Passed(hsh[key], s) THEN chn[t] + 1 ELSE chn[t]]
<1>0. /\ Holds(bb, kh, chn, ind, hsh, K, kv, U)
      /\ x \in Slots \ U /\ key \in K /\ \A y \in U : kv[y] # key
      /\ kv1 \in [Slots -> K] /\ kv1[x] = key /\ \A y \in U : kv1[y] = kv[y]
  BY Zenon DEF NewIndex
<1>1. /\ Sound(bb, KeysOf(ind, kv), kh, chn, hsh, K) /\ hsh[key] \in Int
      /\ ind \in [Slots -> Slots] /\ {ind[t] : t \in B} = U
  BY <1>0, Zenon DEF Holds, Sound
<1>2. B # Slots
  <2> SUFFICES ASSUME B = Slots PROVE FALSE
    BY Zenon
  <2>1. \A t, u \in Slots : ind[t] = ind[u] => t = u
    BY <1>0, HoldsMeans
  <2>2. ind \in Injection(Slots, Slots)
    BY <1>1, <2>1, Zenon DEF Injection, IsInjective
  <2>3. ind \in Surjection(Slots, Slots)
    BY <2>2, SlotsCounted, FS_Injection, Zenon
  <2>4. PICK t \in Slots : ind[t] = x
    BY <1>0, <2>3, Zenon DEF Surjection
  <2>5. ind[t] \in {ind[u] : u \in B}
    BY <2>4, Zenon
  <2>6. {ind[u] : u \in B} = U
    BY <1>1, Zenon
  <2> QED
    BY <1>0, <2>4, <2>5, <2>6, Zenon
<1>3. s \in Slots \ B /\ s # -1
  BY <1>1, <1>2, FreeSlotFound, Zenon
<1>4. find_empty(bb, chn, hsh[key]) = chn1
  BY <1>3, Zenon DEF find_empty
<1> HIDE DEF s
<1>5. /\ ind1 \in [Slots -> Slots] /\ ind1[s] = x
      /\ \A t \in B : t \in Slots /\ ind1[t] = ind[t] /\ ind[t] \in U
  BY <1>0, <1>1, <1>3, Zenon DEF BusyIn
<1> HIDE DEF ind1
<1>6. /\ KeysOf(ind1, kv1) \in [Slots -> K] /\ KeysOf(ind1, kv1)[s] = key
      /\ \A t \in B : /\ KeysOf(ind1, kv1)[t] = KeysOf(ind, kv)[t]
                      /\ KeysOf(ind, kv)[t] # key
  BY <1>0, <1>3, <1>5, Zenon DEF KeysOf
<1>7. BusyIn(bb1) = B \cup {s} /\ Sound(bb1, KeysOf(ind1, kv1), kh1, chn1, hsh, K)
  <2>1. NewKey(bb, KeysOf(ind, kv), kh, chn, hsh, K, key, s, KeysOf(ind1, kv1))
    BY <1>0, <1>1, <1>3, <1>6, Zenon DEF NewKey
  <2>2. KeyIsPut(bb, kh, chn, hsh, K, key, s, KeysOf(ind1, kv1))
    BY <2>1, SoundPut
  <2> QED
    BY <2>2, Zenon DEF KeyIsPut
<1> HIDE DEF bb1, kh1, chn1
<1>8. {ind1[t] : t \in BusyIn(bb1)} = U \cup {x}
  <2>1. \A t \in BusyIn(bb1) : ind1[t] \in U \cup {x}
    BY <1>5, <1>7, Zenon
  <2>2. \A y \in U : \E t \in B : ind1[t] = y
    <3>1. \A y : y \in U <=> \E t \in B : ind[t] = y
      BY <1>0, Zenon DEF Holds
    <3> QED
      BY <1>5, <3>1, Zenon
  <2>3. \A y \in U \cup {x} : \E t \in BusyIn(bb1) : ind1[t] = y
    BY <1>5, <1>7, <2>2, Zenon
  <2> QED
    BY <2>1, <2>3
<1>9. Holds(bb1, kh1, chn1, ind1, hsh, K, kv1, U \cup {x})
  BY <1>0, <1>5, <1>7, <1>8, Zenon DEF Holds
<1> QED
  BY <1>4, <1>9, Zenon DEF s, bb1, kh1, ind1, IndexIsPut

IndexIsErased(bb, kh, chn, ind, hsh, K, kv, U, x) ==
  LET removed == find_key_remove_chain(bb, KeysOf(ind, kv), kh, chn, kv[x], hsh[kv[x]])
  IN  Holds(removed.busybits, kh, removed.chns, ind, hsh, K, kv, U \ {x})

\* An erase of the key of a value that is in use.
LEMMA HoldsErase ==
  ASSUME NEW bb, NEW kh, NEW chn, NEW ind, NEW hsh, NEW K, NEW kv, NEW U,
         Holds(bb, kh, chn, ind, hsh, K, kv, U), NEW x \in U
  PROVE  IndexIsErased(bb, kh, chn, ind, hsh, K, kv, U, x)
<1> DEFINE ky == KeysOf(ind, kv)
           removed == find_key_remove_chain(bb, ky, kh, chn, kv[x], hsh[kv[x]])
<1>1. Sound(bb, ky, kh, chn, hsh, K) /\ ind \in [Slots -> Slots] /\ kv \in [Slots -> K]
  BY Zenon DEF Holds
<1>2. PICK s \in BusyIn(bb) : ind[s] = x
  BY HoldsMeans
<1>3. s \in Slots /\ ky[s] = kv[x] /\ \A t \in BusyIn(bb) : ind[t] = x => t = s
  BY <1>2, HoldsMeans
<1>4. FirstMatch(bb, ky, kh, kv[x], hsh[kv[x]]) = s /\ s # -1
  BY <1>1, <1>3, KeySlot
<1> DEFINE bb1 == [bb EXCEPT ![s] = 0]
           chn1 == [t \in Slots |-> IF t \in Passed(hsh[ky[s]], s) THEN chn[t] - 1 ELSE chn[t]]
<1>5. removed.busybits = bb1 /\ removed.chns = chn1
  BY <1>3, <1>4 DEF find_key_remove_chain
<1>6. BusyIn(bb1) = BusyIn(bb) \ {s} /\ Sound(bb1, ky, kh, chn1, hsh, K)
  <2>1. KeyIsErased(bb, ky, kh, chn, hsh, K, s)
    BY <1>1, SoundErase
  <2> QED
    BY <2>1, Zenon DEF KeyIsErased
<1> HIDE DEF bb1, chn1, removed
<1>7. {ind[t] : t \in BusyIn(bb1)} = U \ {x}
  <2>1. \A y : y \in U <=> \E t \in BusyIn(bb) : ind[t] = y
    BY Zenon DEF Holds
  <2>2. \A t \in BusyIn(bb1) : ind[t] \in U \ {x}
    BY <1>3, <1>6, <2>1, Zenon
  <2>3. \A y \in U \ {x} : \E t \in BusyIn(bb1) : ind[t] = y
    BY <1>2, <1>6, <2>1, Zenon
  <2> QED
    BY <2>2, <2>3, Zenon
<1>8. Holds(bb1, kh, chn1, ind, hsh, K, kv, U \ {x})
  BY <1>1, <1>6, <1>7, Zenon DEF Holds
<1> QED
  BY <1>5, <1>8, Zenon DEF removed, IndexIsErased

\* The keys of the values.
keys_a == [x \in Slots |-> dm_values[x][1]]
keys_b == [x \in Slots |-> dm_values[x][2]]

HoldsA == Holds(bbs_a, khs_a, chns_a, inds_a, hsh_a, KeysA, keys_a, Used)
HoldsB == Holds(bbs_b, khs_b, chns_b, inds_b, hsh_b, KeysB, keys_b, Used)

\* Both tables lead to the indexes in use.  An index that expires has left the
\* chain and is in use until it is erased.
DmapInv ==
  /\ dm_values \in [Slots -> KeysA \X KeysB] /\ dm_chain \in [Slots -> Int] /\ clock \in Nat
  /\ at \in {"idle", "loop", "erase"} /\ expired \in Slots
  /\ at = "erase" => dm_chain[expired] = NoTime
  /\ HoldsA /\ HoldsB
  /\ n_vals = Cardinality(Used)

LEMMA UsedFinite ==
  ASSUME expired \in Slots
  PROVE  Used \subseteq Slots /\ IsFiniteSet(Used)
<1>1. Used \subseteq Slots
  BY Zenon DEF Used, InChain
<1> QED
  BY <1>1, SlotsCounted, FS_Subset, Zenon

\* The key pointers of both tables lead to the keys of the values.
LEMMA Pointers ==
  ASSUME inds_a \in [Slots -> Slots], inds_b \in [Slots -> Slots]
  PROVE  kps_a = KeysOf(inds_a, keys_a) /\ kps_b = KeysOf(inds_b, keys_b)
<1>1. \A s \in Slots : /\ keys_a[inds_a[s]] = dm_values[inds_a[s]][1]
                       /\ keys_b[inds_b[s]] = dm_values[inds_b[s]][2]
  BY Zenon DEF keys_a, keys_b
<1> QED
  BY <1>1, Zenon DEF kps_a, kps_b, KeysOf

\* What the invariant says of the keys.
LEMMA DmapKeys ==
  ASSUME DmapInv
  PROVE  /\ kps_a = KeysOf(inds_a, keys_a) /\ kps_b = KeysOf(inds_b, keys_b)
         /\ Used \subseteq Slots /\ IsFiniteSet(Used)
         /\ \A x \in Slots : keys_a[x] = dm_values[x][1] /\ keys_b[x] = dm_values[x][2]
<1>1. inds_a \in [Slots -> Slots] /\ inds_b \in [Slots -> Slots]
  BY Zenon DEF DmapInv, HoldsA, HoldsB, Holds
<1>2. kps_a = KeysOf(inds_a, keys_a) /\ kps_b = KeysOf(inds_b, keys_b)
  BY <1>1, Pointers, Zenon
<1>3. Used \subseteq Slots /\ IsFiniteSet(Used)
  BY UsedFinite, Zenon DEF DmapInv
<1>4. \A x \in Slots : keys_a[x] = dm_values[x][1] /\ keys_b[x] = dm_values[x][2]
  BY Zenon DEF keys_a, keys_b
<1> QED
  BY <1>2, <1>3, <1>4, Zenon

\* A lookup in either table.
LEMMA DmapGets ==
  ASSUME DmapInv
  PROVE  /\ \A key : dmap_get_a(key) = {x \in Used : dm_values[x][1] = key}
         /\ \A key : dmap_get_b(key) = {x \in Used : dm_values[x][2] = key}
<1>1. ASSUME NEW key PROVE dmap_get_a(key) = {x \in Used : dm_values[x][1] = key}
  <2>1. Finds(bbs_a, khs_a, chns_a, inds_a, hsh_a, keys_a, Used, key)
    BY HoldsGet DEF DmapInv, HoldsA
  <2>2. dmap_get_a(key) = {x \in Used : keys_a[x] = key}
    BY <2>1, DmapKeys, Zenon DEF Finds, dmap_get_a, slot_a
  <2>3. \A x \in Used : keys_a[x] = dm_values[x][1]
    BY DmapKeys, Zenon
  <2> QED
    BY <2>2, <2>3, Zenon
<1>2. ASSUME NEW key PROVE dmap_get_b(key) = {x \in Used : dm_values[x][2] = key}
  <2>1. Finds(bbs_b, khs_b, chns_b, inds_b, hsh_b, keys_b, Used, key)
    BY HoldsGet DEF DmapInv, HoldsB
  <2>2. dmap_get_b(key) = {x \in Used : keys_b[x] = key}
    BY <2>1, DmapKeys, Zenon DEF Finds, dmap_get_b, slot_b
  <2>3. \A x \in Used : keys_b[x] = dm_values[x][2]
    BY DmapKeys, Zenon
  <2> QED
    BY <2>2, <2>3, Zenon
<1> QED
  BY <1>1, <1>2, Zenon

LEMMA DmapInitially == ASSUME DmapInit PROVE DmapInv
<1> DEFINE zero == [s \in Slots |-> 0]
<1>1. 0 \in Slots /\ zero \in [Slots -> Slots] /\ zero \in [Slots -> Int]
      /\ NoTime \in Int
  BY CapacityAssumption DEF Slots, NoTime
<1>2. PICK v \in KeysA \X KeysB : dm_values = [x \in Slots |-> v]
  BY <1>1, Zenon DEF DmapInit
<1>3. /\ bbs_a = zero /\ khs_a = zero /\ chns_a = zero /\ inds_a = zero
      /\ bbs_b = zero /\ khs_b = zero /\ chns_b = zero /\ inds_b = zero
      /\ dm_chain = [x \in Slots |-> NoTime]
      /\ clock = 0 /\ expired = 0 /\ at = "idle" /\ n_vals = 0
  BY <1>1, Zenon DEF DmapInit
<1>4. dm_values \in [Slots -> KeysA \X KeysB] /\ v[1] \in KeysA /\ v[2] \in KeysB
  BY <1>2
<1>5. keys_a \in [Slots -> KeysA] /\ keys_b \in [Slots -> KeysB]
  BY <1>2, <1>4, Zenon DEF keys_a, keys_b
<1>6. Used = {}
  BY <1>1, <1>3, Zenon DEF Used, InChain
<1>7. KeysOf(zero, keys_a) \in [Slots -> KeysA] /\ KeysOf(zero, keys_b) \in [Slots -> KeysB]
  BY <1>1, <1>5, Zenon DEF KeysOf
<1> HIDE DEF zero
<1>8. HoldsA
  <2>1. BusyIn(zero) = {} /\ Sound(zero, KeysOf(zero, keys_a), zero, zero, hsh_a, KeysA)
    BY <1>1, <1>7, DmapAssumption, SoundEmpty DEF zero
  <2> QED
    BY <1>1, <1>3, <1>5, <1>6, <2>1, Zenon DEF HoldsA, Holds
<1>9. HoldsB
  <2>1. BusyIn(zero) = {} /\ Sound(zero, KeysOf(zero, keys_b), zero, zero, hsh_b, KeysB)
    BY <1>1, <1>7, DmapAssumption, SoundEmpty DEF zero
  <2> QED
    BY <1>1, <1>3, <1>5, <1>6, <2>1, Zenon DEF HoldsB, Holds
<1>10. n_vals = Cardinality(Used)
  BY <1>3, <1>6, FS_EmptySet, Zenon
<1>11. dm_chain \in [Slots -> Int] /\ clock \in Nat
  BY <1>1, <1>3
<1> QED
  BY <1>1, <1>3, <1>4, <1>8, <1>9, <1>10, <1>11, Zenon DEF DmapInv

\* A put into both tables, at an index that is in neither.
LEMMA AddFlow ==
  ASSUME DmapInv, NEW value \in KeysA \X KeysB, NEW time \in clock .. MaxClock,
         add_flow(value, time)
  PROVE  DmapInv'
<1>1. PICK x \in Slots \ InChain : /\ dm_chain' = [dm_chain EXCEPT ![x] = time]
                                  /\ dmap_put(value, x)
  BY Zenon DEF add_flow
<1>2. /\ at = "idle" /\ at' = at /\ expired' = expired /\ clock' = time
      /\ dmap_get_a(value[1]) = {} /\ dmap_get_b(value[2]) = {}
  BY Zenon DEF add_flow
<1>3. /\ dm_values' = [dm_values EXCEPT ![x] = value] /\ PutA(value[1], x) /\ PutB(value[2], x)
      /\ n_vals' = n_vals + 1
  BY <1>1, Zenon DEF dmap_put
<1>4. Used = InChain /\ x \in Slots \ Used
  BY <1>1, <1>2, DmapKeys, Zenon DEF Used
<1>5. time \in Nat /\ time \in Int /\ time # NoTime /\ value[1] \in KeysA /\ value[2] \in KeysB
  <2>1. clock \in Nat
    BY Zenon DEF DmapInv
  <2> QED
    BY <2>1 DEF NoTime
<1>6. /\ dm_chain' \in [Slots -> Int] /\ dm_chain'[x] = time
      /\ \A y \in Slots \ {x} : dm_chain'[y] = dm_chain[y]
  BY <1>1, <1>4, <1>5, Zenon DEF DmapInv
<1>7. Used' = Used \cup {x}
  <2>1. InChain' = {y \in Slots : dm_chain'[y] # NoTime} /\ InChain = {y \in Slots : dm_chain[y] # NoTime}
    BY Zenon DEF InChain, Slots, NoTime
  <2>2. Used' = InChain'
    BY <1>2, Zenon DEF Used
  <2> QED
    BY <1>4, <1>5, <1>6, <2>1, <2>2, Zenon
<1>8. /\ dm_values' \in [Slots -> KeysA \X KeysB] /\ dm_values'[x] = value
      /\ \A y \in Slots \ {x} : dm_values'[y] = dm_values[y]
  BY <1>3, <1>4, Zenon DEF DmapInv
<1>9. /\ keys_a' \in [Slots -> KeysA] /\ keys_a'[x] = value[1]
      /\ \A y \in Used : keys_a'[y] = keys_a[y] /\ keys_a[y] # value[1]
  <2>1. \A y \in Slots : keys_a'[y] = dm_values'[y][1] /\ dm_values'[y][1] \in KeysA
    <3>1. \A y \in Slots : keys_a'[y] = dm_values'[y][1]
      BY Zenon DEF keys_a, Slots
    <3>2. \A y \in Slots : dm_values'[y] \in KeysA \X KeysB
      BY <1>8, Zenon
    <3>3. \A v \in KeysA \X KeysB : v[1] \in KeysA
      OBVIOUS
    <3> QED
      BY <3>1, <3>2, <3>3, Zenon
  <2>2. keys_a' \in [Slots -> KeysA]
    BY <2>1, Zenon DEF keys_a, Slots
  <2>3. \A y \in Used : dm_values[y][1] # value[1]
    BY <1>2, DmapGets, Zenon
  <2>4. keys_a'[x] = value[1]
    BY <1>4, <1>8, <2>1, Zenon
  <2>5. \A y \in Used : y \in Slots \ {x} /\ keys_a[y] = dm_values[y][1]
    BY <1>4, DmapKeys, Zenon
  <2>6. ASSUME NEW y \in Used PROVE keys_a'[y] = keys_a[y] /\ keys_a[y] # value[1]
    <3>1. y \in Slots /\ dm_values'[y] = dm_values[y] /\ keys_a[y] = dm_values[y][1]
      BY <1>8, <2>5, Zenon
    <3>2. keys_a'[y] = dm_values[y][1] /\ dm_values[y][1] # value[1]
      BY <2>1, <2>3, <3>1, Zenon
    <3> QED
      BY <3>1, <3>2, Zenon
  <2> QED
    BY <2>2, <2>4, <2>6, Zenon
<1>10. /\ keys_b' \in [Slots -> KeysB] /\ keys_b'[x] = value[2]
       /\ \A y \in Used : keys_b'[y] = keys_b[y] /\ keys_b[y] # value[2]
  <2>1. \A y \in Slots : keys_b'[y] = dm_values'[y][2] /\ dm_values'[y][2] \in KeysB
    <3>1. \A y \in Slots : keys_b'[y] = dm_values'[y][2]
      BY Zenon DEF keys_b, Slots
    <3>2. \A y \in Slots : dm_values'[y] \in KeysA \X KeysB
      BY <1>8, Zenon
    <3>3. \A v \in KeysA \X KeysB : v[2] \in KeysB
      OBVIOUS
    <3> QED
      BY <3>1, <3>2, <3>3, Zenon
  <2>2. keys_b' \in [Slots -> KeysB]
    BY <2>1, Zenon DEF keys_b, Slots
  <2>3. \A y \in Used : dm_values[y][2] # value[2]
    BY <1>2, DmapGets, Zenon
  <2>4. keys_b'[x] = value[2]
    BY <1>4, <1>8, <2>1, Zenon
  <2>5. \A y \in Used : y \in Slots \ {x} /\ keys_b[y] = dm_values[y][2]
    BY <1>4, DmapKeys, Zenon
  <2>6. ASSUME NEW y \in Used PROVE keys_b'[y] = keys_b[y] /\ keys_b[y] # value[2]
    <3>1. y \in Slots /\ dm_values'[y] = dm_values[y] /\ keys_b[y] = dm_values[y][2]
      BY <1>8, <2>5, Zenon
    <3>2. keys_b'[y] = dm_values[y][2] /\ dm_values[y][2] # value[2]
      BY <2>1, <2>3, <3>1, Zenon
    <3> QED
      BY <3>1, <3>2, Zenon
  <2> QED
    BY <2>2, <2>4, <2>6, Zenon
<1>11. HoldsA'
  <2>1. NewIndex(bbs_a, khs_a, chns_a, inds_a, hsh_a, KeysA, keys_a, Used, x, value[1], keys_a')
    BY <1>4, <1>5, <1>9, Zenon DEF NewIndex, DmapInv, HoldsA
  <2>2. IndexIsPut(bbs_a, khs_a, chns_a, inds_a, hsh_a, KeysA, Used, x, value[1], keys_a')
    BY <2>1, HoldsPut
  <2> QED
    BY <1>3, <1>7, <2>2, Zenon DEF IndexIsPut, PutA, HoldsA
<1>12. HoldsB'
  <2>1. NewIndex(bbs_b, khs_b, chns_b, inds_b, hsh_b, KeysB, keys_b, Used, x, value[2], keys_b')
    BY <1>4, <1>5, <1>10, Zenon DEF NewIndex, DmapInv, HoldsB
  <2>2. IndexIsPut(bbs_b, khs_b, chns_b, inds_b, hsh_b, KeysB, Used, x, value[2], keys_b')
    BY <2>1, HoldsPut
  <2> QED
    BY <1>3, <1>7, <2>2, Zenon DEF IndexIsPut, PutB, HoldsB
<1>13. n_vals' = Cardinality(Used')
  <2>1. Cardinality(Used \cup {x}) = Cardinality(Used) + 1
    BY <1>4, DmapKeys, FS_AddElement, Zenon
  <2> QED
    BY <1>3, <1>7, <2>1, Zenon DEF DmapInv
<1> QED
  BY <1>2, <1>5, <1>6, <1>8, <1>11, <1>12, <1>13, Zenon DEF DmapInv, Slots

\* An erase of the expired index from both tables; neither changes the keys of the
\* value.
LEMMA EraseBoth ==
  ASSUME DmapInv, EraseExpired
  PROVE  DmapInv'
<1>1. /\ at = "erase" /\ at' = "loop" /\ dmap_erase(expired)
      /\ dm_chain' = dm_chain /\ clock' = clock /\ expired' = expired
  BY Zenon DEF EraseExpired
<1>2. /\ EraseA(dm_values[expired][1]) /\ EraseB(dm_values[expired][2]) /\ n_vals' = n_vals - 1
      /\ dm_values' = dm_values /\ khs_a' = khs_a /\ inds_a' = inds_a /\ khs_b' = khs_b /\ inds_b' = inds_b
  BY <1>1, Zenon DEF dmap_erase
<1>3. expired \in Slots /\ expired \in Used /\ expired \notin InChain
  BY <1>1, Zenon DEF DmapInv, Used, InChain
<1>4. Used' = Used \ {expired}
  <2>1. InChain' = InChain
    BY <1>1, Zenon DEF InChain, Slots, NoTime
  <2>2. Used = InChain \cup {expired}
    BY <1>1, Zenon DEF Used
  <2>3. Used' = InChain'
    BY <1>1, Zenon DEF Used
  <2> QED
    BY <1>3, <2>1, <2>2, <2>3, Zenon
<1>5. keys_a' = keys_a /\ keys_b' = keys_b
  BY <1>2, Zenon DEF keys_a, keys_b, Slots
<1>6. keys_a[expired] = dm_values[expired][1] /\ keys_b[expired] = dm_values[expired][2]
  BY <1>3, DmapKeys, Zenon
<1>7. HoldsA'
  <2>1. IndexIsErased(bbs_a, khs_a, chns_a, inds_a, hsh_a, KeysA, keys_a, Used, expired)
    BY <1>3, HoldsErase DEF DmapInv, HoldsA
  <2> QED
    BY <1>2, <1>4, <1>5, <1>6, <2>1, DmapKeys, Zenon DEF IndexIsErased, EraseA, HoldsA
<1>8. HoldsB'
  <2>1. IndexIsErased(bbs_b, khs_b, chns_b, inds_b, hsh_b, KeysB, keys_b, Used, expired)
    BY <1>3, HoldsErase DEF DmapInv, HoldsB
  <2> QED
    BY <1>2, <1>4, <1>5, <1>6, <2>1, DmapKeys, Zenon DEF IndexIsErased, EraseB, HoldsB
<1>9. n_vals' = Cardinality(Used')
  <2>1. Cardinality(Used \ {expired}) = Cardinality(Used) - 1
    BY <1>3, DmapKeys, FS_RemoveElement, Zenon
  <2> QED
    BY <1>2, <1>4, <2>1, Zenon DEF DmapInv
<1> QED
  BY <1>1, <1>2, <1>7, <1>8, <1>9, Zenon DEF DmapInv, Slots

\* The steps that leave both tables, and the indexes in use, alone.
LEMMA TablesAlone ==
  ASSUME DmapInv, UNCHANGED <<dm_values, n_vals, tables>>, Used' = Used,
         dm_chain' \in [Slots -> Int], clock' \in Nat, at' \in {"idle", "loop", "erase"},
         expired' \in Slots, at' = "erase" => dm_chain'[expired'] = NoTime
  PROVE  DmapInv'
<1>1. /\ dm_values' = dm_values /\ n_vals' = n_vals
      /\ bbs_a' = bbs_a /\ khs_a' = khs_a /\ chns_a' = chns_a /\ inds_a' = inds_a
      /\ bbs_b' = bbs_b /\ khs_b' = khs_b /\ chns_b' = chns_b /\ inds_b' = inds_b
  BY Zenon DEF tables
<1>2. keys_a' = keys_a /\ keys_b' = keys_b
  BY <1>1, Zenon DEF keys_a, keys_b, Slots
<1>3. HoldsA' /\ HoldsB'
  BY <1>1, <1>2, Zenon DEF DmapInv, HoldsA, HoldsB
<1> QED
  BY <1>1, <1>3, Zenon DEF DmapInv, Slots, NoTime

LEMMA DmapStep == DmapInv /\ [DmapNext]_dmapVars => DmapInv'
<1> SUFFICES ASSUME DmapInv, [DmapNext]_dmapVars PROVE DmapInv'
  BY Zenon
<1>1. CASE \E value \in KeysA \X KeysB, time \in clock .. MaxClock : add_flow(value, time)
  BY <1>1, AddFlow, Zenon
<1>2. ASSUME NEW x \in Slots, NEW time \in clock .. MaxClock, rejuvenate(x, time)
      PROVE  DmapInv'
  <2>1. /\ at = "idle" /\ at' = at /\ expired' = expired /\ x \in InChain /\ clock' = time
        /\ dm_chain' = [dm_chain EXCEPT ![x] = time] /\ UNCHANGED <<dm_values, n_vals, tables>>
    BY <1>2, Zenon DEF rejuvenate
  <2>2. time \in Nat /\ time \in Int /\ time # NoTime
    <3>1. clock \in Nat
      BY Zenon DEF DmapInv
    <3> QED
      BY <3>1 DEF NoTime
  <2>3. /\ x \in Slots /\ dm_chain' \in [Slots -> Int] /\ dm_chain'[x] = time /\ dm_chain[x] # NoTime
        /\ \A y \in Slots \ {x} : dm_chain'[y] = dm_chain[y]
    BY <2>1, <2>2, DmapKeys, Zenon DEF DmapInv, InChain
  <2>4. Used' = Used
    <3>1. InChain' = {y \in Slots : dm_chain'[y] # NoTime} /\ InChain = {y \in Slots : dm_chain[y] # NoTime}
      BY Zenon DEF InChain, Slots, NoTime
    <3>2. Used' = InChain' /\ Used = InChain
      BY <2>1, Zenon DEF Used
    <3> QED
      BY <2>2, <2>3, <3>1, <3>2, Zenon
  <2>5. expired' \in Slots /\ at' \in {"idle", "loop", "erase"} /\ at' # "erase"
    BY <2>1 DEF DmapInv
  <2> QED
    BY <2>1, <2>2, <2>3, <2>4, <2>5, TablesAlone, Zenon
<1>3. ASSUME NEW time, expire_items(time) PROVE DmapInv'
  <2>1. /\ at = "idle" /\ at' = "loop" /\ expired' = expired /\ clock' = clock /\ dm_chain' = dm_chain
        /\ UNCHANGED <<dm_values, n_vals, tables>>
    BY <1>3, Zenon DEF expire_items
  <2>2. Used' = Used
    BY <2>1 DEF Used, InChain
  <2>3. at' # "erase"
    BY <2>1
  <2> QED
    BY <2>1, <2>2, <2>3, TablesAlone, Zenon DEF DmapInv
<1>4. CASE ExpireOneIndex
  <2>1. at = "loop" /\ UNCHANGED <<dm_values, n_vals, tables>> /\ clock' = clock /\ Used = InChain
    BY <1>4 DEF ExpireOneIndex, Used
  <2>2. ASSUME NEW x \in InChain, dm_chain' = [dm_chain EXCEPT ![x] = NoTime], expired' = x, at' = "erase"
        PROVE  DmapInv'
    <3>1. /\ x \in Slots /\ dm_chain' \in [Slots -> Int] /\ dm_chain'[x] = NoTime
          /\ \A y \in Slots \ {x} : dm_chain'[y] = dm_chain[y]
      <4>1. NoTime \in Int /\ x \in Slots
        BY DmapKeys DEF NoTime, InChain
      <4> QED
        BY <2>2, <4>1, Zenon DEF DmapInv
    <3>2. Used' = Used
      <4>1. InChain' = {y \in Slots : dm_chain'[y] # NoTime} /\ InChain = {y \in Slots : dm_chain[y] # NoTime}
        BY Zenon DEF InChain, Slots, NoTime
      <4>2. Used' = InChain' \cup {x}
        BY <2>2, Zenon DEF Used
      <4>3. InChain' = InChain \ {x}
        BY <3>1, <4>1, Zenon
      <4> QED
        BY <2>1, <4>2, <4>3, Zenon
    <3> QED
      BY <2>1, <2>2, <3>1, <3>2, TablesAlone, Zenon DEF DmapInv
  <2>3. ASSUME at' = "idle", UNCHANGED <<dm_chain, expired>> PROVE DmapInv'
    <3>1. dm_chain' = dm_chain /\ expired' = expired
      BY <2>3, Zenon
    <3>2. Used' = Used /\ at' # "erase"
      BY <2>1, <2>3, <3>1 DEF Used, InChain
    <3> QED
      BY <2>1, <2>3, <3>1, <3>2, TablesAlone, Zenon DEF DmapInv
  <2> QED
    BY <1>4, <2>2, <2>3, Zenon DEF ExpireOneIndex
<1>5. CASE EraseExpired
  BY <1>5, EraseBoth, Zenon
<1>6. CASE UNCHANGED dmapVars
  <2>1. /\ UNCHANGED <<dm_values, n_vals, tables>>
        /\ dm_chain' = dm_chain /\ clock' = clock /\ expired' = expired /\ at' = at
    BY <1>6, Zenon DEF dmapVars
  <2>2. Used' = Used
    BY <2>1, Zenon DEF Used, InChain, Slots, NoTime
  <2> QED
    BY <2>1, <2>2, TablesAlone, Zenon DEF DmapInv
<1> QED
  BY <1>1, <1>2, <1>3, <1>4, <1>5, <1>6, Zenon DEF DmapNext

\* Both tables of the double map lead to exactly the values in use, under their
\* keys, and n_vals counts them: for every capacity, all keys and hashes, and
\* whatever expires in between.  (dmap_put, dmap_erase, expire_items)
THEOREM TablesInSync == DmapSpec => []DoubleMapInSync
<1>1. DmapInit => DmapInv
  BY DmapInitially, Zenon
<1>2. DmapInv /\ [DmapNext]_dmapVars => DmapInv'
  BY DmapStep, Zenon
<1>3. DmapInv => DoubleMapInSync
  <2> SUFFICES ASSUME DmapInv PROVE DoubleMapInSync
    BY Zenon
  <2>1. n_vals = Cardinality(Used)
    BY Zenon DEF DmapInv
  <2> QED
    BY <2>1, DmapGets, Zenon DEF DoubleMapInSync
<1> QED
  BY <1>1, <1>2, <1>3, PTL DEF DmapSpec

-----------------------------------------------------------------------------
(* The consistent hashing table.  Division, and what a prime divides.      *)

LEMMA Division ==
  ASSUME NEW x \in Nat, NEW n \in Nat \ {0}
  PROVE  /\ x \div n \in Int /\ x % n \in 0 .. n - 1
         /\ x % n = x - n * (x \div n)
OBVIOUS

LEMMA DivisionUnique ==
  ASSUME NEW x \in Nat, NEW n \in Nat \ {0}, NEW q \in Int, NEW r \in 0 .. n - 1,
         x = n * q + r
  PROVE  x \div n = q /\ x % n = r
<1>1. x \div n = q
  OBVIOUS
<1> QED
  BY <1>1, Division

\* A prime that divides neither of two numbers does not divide their product:
\* the least multiplier would leave a smaller one as the remainder of the prime.
LEMMA PrimeProduct ==
  ASSUME NEW h \in Nat, IsPrime(h), NEW s \in 1 .. h - 1, NEW d \in 1 .. h - 1,
         NEW k \in Int, s * d = h * k
  PROVE  FALSE
<1> DEFINE T == {x \in 1 .. h - 1 : \E z \in Int : x * d = h * z}
<1>0. h \in Nat \ {0} /\ h > 1
  BY DEF IsPrime
<1>1. T \in SUBSET Nat /\ s \in T
  OBVIOUS
<1>2. PICK m \in T : \A y \in T : m <= y
  BY <1>1, LeastElement, Zenon
<1>3. PICK z \in Int : m * d = h * z
  BY <1>2, Zenon
<1>4. m \in 1 .. h - 1
  BY <1>2, Zenon
<1> HIDE DEF T
<1>5. m # 1
  <2> SUFFICES ASSUME m = 1 PROVE FALSE
    BY Zenon
  <2>1. d = h * z
    BY <1>3
  <2>2. d = h * 0 + d /\ d = h * z + 0
    BY <2>1, <1>0
  <2>3. d % h = d /\ d % h = 0
    BY <2>2, <1>0, DivisionUnique
  <2> QED
    BY <2>3
<1>6. h % m # 0
  BY <1>4, <1>5, <1>0 DEF IsPrime
<1> DEFINE q == h \div m
           r == h % m
<1>7. q \in Int /\ r \in 0 .. m - 1 /\ h = m * q + r
  BY <1>4, Division
<1> HIDE DEF q, r
<1>8. r \in 1 .. m - 1
  BY <1>6, <1>7, <1>4 DEF r
<1>9. r * d = h * (d - q * z)
  <2>1. r * d = h * d - (m * q) * d
    BY <1>7, <1>8, <1>4
  <2>2. (m * q) * d = q * (m * d)
    BY <1>7, <1>4
  <2>3. q * (m * d) = h * (q * z)
    BY <1>3, <1>7
  <2>4. q * z \in Int /\ h * (d - q * z) = h * d - h * (q * z)
    BY <1>7
  <2> QED
    BY <2>1, <2>2, <2>3, <2>4, Zenon
<1>10. d - q * z \in Int
  BY <1>7
<1>11. r \in T
  BY <1>8, <1>9, <1>10, <1>4 DEF T
<1> QED
  BY <1>11, <1>2, <1>8, <1>4

\* Trial division up to the root is enough.  (the first assertion)
LEMMA TrialDivision ==
  ASSUME NEW h \in Nat, h > 1
  PROVE  IsPrime(h) <=> \A d \in 2 .. h : d * d <= h => d * (h \div d) # h
<1>1. ASSUME IsPrime(h), NEW d \in 2 .. h, d * d <= h, d * (h \div d) = h
      PROVE  FALSE
  <2>1. d * d >= 2 * d
    OBVIOUS
  <2>2. d \in 2 .. h - 1
    BY <1>1, <2>1
  <2>3. h % d = 0
    BY <1>1, Division
  <2> QED
    BY <1>1, <2>2, <2>3, Zenon DEF IsPrime
<1>2. ASSUME NEW d \in 2 .. h - 1, h % d = 0
      PROVE  \E e \in 2 .. h : e * e <= h /\ e * (h \div e) = h
  <2> DEFINE e == h \div d
  <2>1. e \in Int /\ h = d * e
    BY <1>2, Division
  <2> HIDE DEF e
  <2>2. e >= 2 /\ e < h
    <3>1. ~(e <= 0)
      <4> SUFFICES ASSUME e <= 0 PROVE FALSE
        BY Zenon
      <4>1. d * e <= d * 0
        BY <2>1
      <4> QED
        BY <4>1, <2>1
    <3>2. e # 1
      BY <2>1
    <3>3. d * e >= 2 * e
      BY <2>1, <3>1
    <3> QED
      BY <2>1, <3>1, <3>2, <3>3
  <2>3. CASE d <= e
    <3>1. d * d <= d * e
      BY <2>3, <2>1
    <3>2. d * (h \div d) = h
      BY <2>1, Zenon DEF e
    <3> QED
      BY <2>1, <3>1, <3>2
  <2>4. CASE e < d
    <3>1. e * e <= e * d /\ e * d = d * e
      BY <2>4, <2>1, <2>2
    <3>2. h = e * d + 0
      BY <2>1
    <3>3. h \div e = d
      BY <3>2, <2>1, <2>2, DivisionUnique
    <3> QED
      BY <2>1, <2>2, <3>1, <3>3
  <2> QED
    BY <2>1, <2>3, <2>4
<1> QED
  BY <1>1, <1>2, Zenon DEF IsPrime

-----------------------------------------------------------------------------
(* The permutations, and the order they give the backends in a row.        *)

LEMMA PermutationInjective ==
  ASSUME NEW h \in Nat, IsPrime(h), NEW b \in 0 .. h - 2
  PROVE  /\ \A p \in 0 .. h - 1 : permutation(h, b, p) \in 0 .. h - 1
         /\ \A p, q \in 0 .. h - 1 : permutation(h, b, p) = permutation(h, b, q) => p = q
<1> DEFINE o == (b * 31) % h
           s == (b % h) + 1
<1>0. h \in Nat \ {0} /\ h > 1
  BY DEF IsPrime
<1>1. o \in Nat
  <2>1. b * 31 \in Nat
    OBVIOUS
  <2> QED
    BY <1>0, <2>1, Division
<1>2. s \in 1 .. h - 1
  <2>1. b = h * 0 + b
    BY <1>0
  <2>2. b % h = b
    BY <1>0, <2>1, DivisionUnique
  <2> QED
    BY <2>2
<1>3. \A p : permutation(h, b, p) = (o + s * p) % h
  BY Zenon DEF permutation
<1> HIDE DEF o, s
<1>4. ASSUME NEW p \in 0 .. h - 1 PROVE o + s * p \in Nat
  <2>1. s * p \in Nat
    BY <1>2
  <2> QED
    BY <1>1, <2>1
<1>5. ASSUME NEW p \in 0 .. h - 1 PROVE permutation(h, b, p) \in 0 .. h - 1
  <2>1. (o + s * p) % h \in 0 .. h - 1
    BY <1>0, <1>4, Division
  <2> QED
    BY <1>3, <2>1, Zenon
<1>6. ASSUME NEW p \in 0 .. h - 1, NEW q \in 0 .. h - 1,
             permutation(h, b, p) = permutation(h, b, q), p < q
      PROVE  FALSE
  <2> DEFINE x == (o + s * p) \div h
             y == (o + s * q) \div h
             r == (o + s * p) % h
  <2>1. x \in Int /\ r = (o + s * p) - h * x
    BY <1>0, <1>4, Division, Zenon
  <2>2. y \in Int /\ r = (o + s * q) - h * y
    BY <1>0, <1>3, <1>4, <1>6, Division, Zenon
  <2> HIDE DEF x, y, r
  <2>3. s * p \in Int /\ s * q \in Int /\ h * x \in Int /\ h * y \in Int
    BY <1>2, <2>1, <2>2
  <2>4. s * q - s * p = h * y - h * x
    BY <1>1, <1>2, <2>1, <2>2, <2>3
  <2>5. s * (q - p) = s * q - s * p /\ h * (y - x) = h * y - h * x
    BY <1>2, <2>1, <2>2
  <2>6. q - p \in 1 .. h - 1 /\ y - x \in Int /\ s * (q - p) = h * (y - x)
    BY <1>6, <2>1, <2>2, <2>4, <2>5
  <2> QED
    BY <1>2, <2>6, PrimeProduct, Zenon
<1> QED
  BY <1>5, <1>6

LEMMA Interval ==
  ASSUME NEW n \in Nat
  PROVE  IsFiniteSet(0 .. n - 1) /\ Cardinality(0 .. n - 1) = n
<1>1. 0 \in Int /\ n - 1 \in Int
  OBVIOUS
<1>2. /\ IsFiniteSet(0 .. n - 1)
      /\ Cardinality(0 .. n - 1) = IF 0 > n - 1 THEN 0 ELSE (n - 1) - 0 + 1
  BY <1>1, FS_Interval, Zenon
<1> QED
  BY <1>2

\* The permutation of a backend comes to every row, at one position.
LEMMA Positions ==
  ASSUME NEW h \in Nat, IsPrime(h), NEW b \in 0 .. h - 2, NEW row \in 0 .. h - 1
  PROVE  /\ Position(h, b, row) \in 0 .. h - 1
         /\ \A p \in 0 .. h - 1 : permutation(h, b, p) = row <=> p = Position(h, b, row)
<1> DEFINE S == 0 .. h - 1
           f == [p \in S |-> permutation(h, b, p)]
<1>1. f \in Injection(S, S)
  BY PermutationInjective DEF Injection, IsInjective
<1>2. IsFiniteSet(S)
  BY Interval, Zenon
<1>3. f \in Surjection(S, S)
  BY <1>1, <1>2, FS_Injection, Zenon
<1>4. \E p \in S : permutation(h, b, p) = row
  BY <1>3, Zenon DEF Surjection
<1>5. Position(h, b, row) \in S /\ permutation(h, b, Position(h, b, row)) = row
  BY <1>4, Zenon DEF Position
<1> QED
  BY <1>5, PermutationInjective, Zenon

\* A priority list is a strict order of all backends, so ranks are distinct and
\* grow along the list.
LEMMA Ranks ==
  ASSUME NEW h \in Nat, IsPrime(h), NEW n \in 1 .. h - 1, NEW row \in 0 .. h - 1,
         NEW b \in 0 .. n - 1, NEW c \in 0 .. n - 1
  PROVE  /\ Rank(h, n, row, b) \in Nat
         /\ b = c \/ Before(h, row, b, c) \/ Before(h, row, c, b)
         /\ Before(h, row, b, c) => Rank(h, n, row, b) < Rank(h, n, row, c)
<1> DEFINE S == 0 .. n - 1
           R(x) == {y \in S : Before(h, row, y, x)}
<1>1. \A x \in S : Position(h, x, row) \in Int
  <2>1. S \subseteq 0 .. h - 2
    OBVIOUS
  <2> QED
    BY <2>1, Positions
<1>2. \A x \in S : IsFiniteSet(R(x))
  <2>1. n \in Nat
    OBVIOUS
  <2>2. \A x : R(x) \in SUBSET S
    BY Zenon
  <2> QED
    BY <2>1, <2>2, Interval, FS_Subset, Zenon
<1>3. \A x : Rank(h, n, row, x) = Cardinality(R(x))
  BY Zenon DEF Rank
<1>4. ASSUME Before(h, row, b, c)
      PROVE  R(b) \subseteq R(c) /\ b \in R(c) /\ b \notin R(b)
  BY <1>1, <1>4 DEF Before
<1>5. b = c \/ Before(h, row, b, c) \/ Before(h, row, c, b)
  BY <1>1 DEF Before
<1> HIDE DEF R
<1>6. ASSUME Before(h, row, b, c)
      PROVE  Cardinality(R(b)) < Cardinality(R(c))
  <2>1. R(b) \in SUBSET R(c) /\ R(b) # R(c) /\ IsFiniteSet(R(c))
    BY <1>2, <1>4, <1>6, Zenon
  <2>2. Cardinality(R(b)) <= Cardinality(R(c)) /\ Cardinality(R(b)) # Cardinality(R(c))
    BY <2>1, FS_Subset, Zenon
  <2>3. Cardinality(R(b)) \in Nat /\ Cardinality(R(c)) \in Nat
    BY <1>2, FS_CardinalityType, Zenon
  <2> QED
    BY <2>2, <2>3
<1> QED
  BY <1>2, <1>3, <1>5, <1>6, FS_CardinalityType

-----------------------------------------------------------------------------
(* The invariant of the loops.                                             *)

\* The first cells of the table are as promised.
Filled(cells) ==
  \A n \in 0 .. cells - 1 :
    /\ cht[n] \in Backends
    /\ Rank(cht_height, backend_capacity, n \div backend_capacity, cht[n]) = n % backend_capacity

\* The backends that come to row i before bknd does at perm_pos: the loops carry
\* the two from cell to cell, and have passed exactly these.
Taken ==
  {b \in Backends : \/ Position(cht_height, b, i) < perm_pos
                    \/ Position(cht_height, b, i) = perm_pos /\ b < bknd}

Filling ==
  /\ i \in 0 .. cht_height - 1 /\ j \in 0 .. backend_capacity
  /\ bknd \in Backends /\ perm_pos \in 0 .. cht_height
  /\ j < backend_capacity => perm_pos < cht_height
  /\ j = Cardinality(Taken)
  /\ Filled(i * backend_capacity + j)

Suitable == IsPrime(cht_height) /\ backend_capacity < cht_height

ChtInv ==
  /\ cht_height \in Nat \ {0} /\ backend_capacity \in Nat \ {0}
  /\ cht \in [0 .. cht_height * backend_capacity - 1 -> Int]
  /\ pc \in {"check", "fill", "filled", "abort"}
  /\ pc = "check" => i = 0 /\ j = 0 /\ bknd = 0 /\ perm_pos = 0
  /\ pc \in {"fill", "filled"} => Suitable
  /\ pc = "abort" => ~Suitable
  /\ pc = "fill" => Filling
  /\ pc = "filled" => Filled(cht_height * backend_capacity)

\* Where a cell lies.
LEMMA CellOf ==
  ASSUME NEW r \in Nat, NEW n \in Nat \ {0}, NEW k \in 0 .. n - 1
  PROVE  /\ r * n + k \in Nat /\ (r * n + k) \div n = r /\ (r * n + k) % n = k
         /\ \A h \in Nat : r < h => r * n + k < h * n
<1>1. r * n \in Nat /\ r * n + k = n * r + k
  OBVIOUS
<1>2. r * n + k \in Nat
  BY <1>1
<1>3. (r * n + k) \div n = r /\ (r * n + k) % n = k
  BY <1>1, <1>2, DivisionUnique
<1>4. ASSUME NEW h \in Nat, r < h PROVE r * n + k < h * n
  <2>1. (r + 1) * n <= h * n
    BY <1>4
  <2>2. (r + 1) * n = r * n + n /\ h * n \in Nat
    OBVIOUS
  <2> QED
    BY <1>1, <2>1, <2>2
<1> QED
  BY <1>2, <1>3, <1>4, Zenon

LEMMA BackendPositions ==
  ASSUME ChtInv, Suitable, i \in 0 .. cht_height - 1, NEW b \in Backends
  PROVE  /\ Position(cht_height, b, i) \in 0 .. cht_height - 1
         /\ \A p \in 0 .. cht_height - 1 :
              permutation(cht_height, b, p) = i <=> p = Position(cht_height, b, i)
<1>1. cht_height \in Nat /\ b \in 0 .. cht_height - 2
  BY DEF ChtInv, Suitable, Backends
<1> QED
  BY <1>1, Positions, Zenon DEF Suitable

LEMMA TakenFinite == ASSUME ChtInv PROVE IsFiniteSet(Taken) /\ Taken \subseteq Backends
                     /\ IsFiniteSet(Backends) /\ Cardinality(Backends) = backend_capacity
<1>1. IsFiniteSet(Backends) /\ Cardinality(Backends) = backend_capacity
  BY Interval, Zenon DEF ChtInv, Backends
<1>2. Taken \in SUBSET Backends
  BY Zenon DEF Taken
<1> QED
  BY <1>1, <1>2, FS_Subset, Zenon

\* One step of the search passes backend bknd: it joins the backends taken if it
\* comes to the row here; at the end of the permutations all have come.
LEMMA AdvanceTaken ==
  ASSUME ChtInv, Suitable, Filling, j < backend_capacity, Advance,
         UNCHANGED <<cht_height, backend_capacity, i>>
  PROVE  /\ bknd' \in Backends /\ perm_pos' \in 0 .. cht_height
         /\ permutation(cht_height, bknd, perm_pos) = i =>
              bknd \notin Taken /\ Taken' = Taken \cup {bknd}
         /\ permutation(cht_height, bknd, perm_pos) # i => Taken' = Taken
         /\ ~(perm_pos' < cht_height) => Taken' = Backends
<1> DEFINE P == [b \in Backends |-> Position(cht_height, b, i)]
<1>1. /\ cht_height \in Nat /\ backend_capacity \in Nat \ {0}
      /\ bknd \in 0 .. backend_capacity - 1 /\ perm_pos \in 0 .. cht_height - 1
      /\ Backends = 0 .. backend_capacity - 1
  BY DEF ChtInv, Filling, Backends
<1>2. \A b \in Backends : P[b] \in 0 .. cht_height - 1
  BY BackendPositions, Zenon DEF Filling
<1>3. permutation(cht_height, bknd, perm_pos) = i <=> P[bknd] = perm_pos
  BY <1>1, BackendPositions, Zenon DEF Filling
<1>4. /\ Taken = {b \in Backends : P[b] < perm_pos \/ (P[b] = perm_pos /\ b < bknd)}
      /\ Taken' = {b \in Backends : P[b] < perm_pos' \/ (P[b] = perm_pos' /\ b < bknd')}
  BY Zenon DEF Taken, Backends
<1>5. \/ bknd = backend_capacity - 1 /\ bknd' = 0 /\ perm_pos' = perm_pos + 1
      \/ bknd < backend_capacity - 1 /\ bknd' = bknd + 1 /\ perm_pos' = perm_pos
  BY <1>1 DEF Advance
<1> HIDE DEF P
<1>6. bknd' \in Backends /\ perm_pos' \in 0 .. cht_height
  BY <1>1, <1>5
<1>7. P[bknd] = perm_pos => bknd \notin Taken
  BY <1>1, <1>4
<1>8. \A b \in Backends : b \in Taken' <=> b \in Taken \/ (b = bknd /\ P[bknd] = perm_pos)
  BY <1>1, <1>2, <1>4, <1>5
<1>9. Taken \subseteq Backends /\ Taken' \subseteq Backends /\ bknd \in Backends
  BY <1>1, <1>4, Zenon
<1>10. ~(perm_pos' < cht_height) => Taken' = Backends
  BY <1>1, <1>2, <1>4, <1>6
<1> QED
  BY <1>3, <1>6, <1>7, <1>8, <1>9, <1>10, Zenon

\* The backends that come to the row before the one that is taken.
LEMMA RankTaken ==
  ASSUME ChtInv, Suitable, Filling, j < backend_capacity,
         permutation(cht_height, bknd, perm_pos) = i
  PROVE  Rank(cht_height, backend_capacity, i, bknd) = j
<1>1. perm_pos \in 0 .. cht_height - 1 /\ bknd \in Backends
  BY DEF ChtInv, Filling
<1>2. Position(cht_height, bknd, i) = perm_pos
  BY <1>1, BackendPositions, Zenon DEF Filling
<1>3. {c \in Backends : Before(cht_height, i, c, bknd)} = Taken
  BY <1>2, Zenon DEF Before, Taken
<1> QED
  BY <1>3, Zenon DEF Rank, Backends, Filling

LEMMA ChtInitial == ChtInit => ChtInv
<1> SUFFICES ASSUME ChtInit PROVE ChtInv
  BY Zenon
<1>1. cht_height \in Nat \ {0} /\ backend_capacity \in Nat \ {0}
  BY ChtAssumption DEF ChtInit
<1>2. cht \in [0 .. cht_height * backend_capacity - 1 -> Int]
  BY DEF ChtInit
<1> QED
  BY <1>1, <1>2, Zenon DEF ChtInit, ChtInv

LEMMA CheckStep == ASSUME ChtInv, Check PROVE ChtInv'
<1>1. /\ cht_height \in Nat \ {0} /\ backend_capacity \in Nat \ {0}
      /\ cht \in [0 .. cht_height * backend_capacity - 1 -> Int]
      /\ i = 0 /\ j = 0 /\ bknd = 0 /\ perm_pos = 0 /\ pc = "check"
  BY Zenon DEF ChtInv, Check
<1>2. /\ UNCHANGED <<cht_height, backend_capacity, cht, i, j, bknd, perm_pos>>
      /\ pc' = IF Suitable THEN "fill" ELSE "abort"
  <2>1. CASE cht_height > 1
    BY <1>1, <2>1, TrialDivision, Zenon DEF Check, Suitable
  <2>2. CASE cht_height = 1
    BY <1>1, <2>2 DEF Check, Suitable, IsPrime
  <2> QED
    BY <1>1, <2>1, <2>2
<1>3. ASSUME Suitable PROVE Filling'
  <2>1. /\ i' \in 0 .. cht_height' - 1 /\ j' \in 0 .. backend_capacity'
        /\ bknd' \in Backends' /\ perm_pos' \in 0 .. cht_height' /\ perm_pos' < cht_height'
    BY <1>1, <1>2 DEF Backends
  <2>2. Taken = {}
    <3>1. \A b \in Backends : Position(cht_height, b, i) \in Nat /\ b \in Nat
      BY <1>1, <1>3, BackendPositions DEF Backends
    <3> QED
      BY <1>1, <3>1 DEF Taken
  <2>3. Taken' = Taken
    BY <1>2, Zenon DEF Taken, Backends
  <2>4. j' = Cardinality(Taken')
    BY <1>1, <1>2, <2>2, <2>3, FS_EmptySet, Zenon
  <2>5. Filled(i * backend_capacity + j)'
    BY <1>1, <1>2 DEF Filled
  <2> QED
    BY <2>1, <2>4, <2>5, Zenon DEF Filling
<1>4. Suitable' = Suitable
  BY <1>2, Zenon DEF Suitable
<1> QED
  BY <1>1, <1>2, <1>3, <1>4, Zenon DEF ChtInv

LEMMA SkipStep == ASSUME ChtInv, Skip PROVE ChtInv'
<1>1. /\ Suitable /\ Filling /\ j < backend_capacity
      /\ UNCHANGED <<cht_height, backend_capacity, cht, i, j>> /\ Advance
      /\ permutation(cht_height, bknd, perm_pos) # i
  BY Zenon DEF ChtInv, Skip
<1>2. /\ bknd' \in Backends /\ perm_pos' \in 0 .. cht_height /\ Taken' = Taken
      /\ ~(perm_pos' < cht_height) => Taken' = Backends
  BY <1>1, AdvanceTaken, Zenon
<1>3. perm_pos' < cht_height
  <2>1. Taken # Backends
    BY <1>1, TakenFinite DEF Filling, ChtInv
  <2> QED
    BY <1>2, <2>1, Zenon
<1>4. Filled(i * backend_capacity + j)'
  BY <1>1, Zenon DEF Filling, Filled, Backends
<1>5. Filling'
  BY <1>1, <1>2, <1>3, <1>4, Zenon DEF Filling, Backends
<1>6. pc' = "fill" /\ Suitable'
  BY <1>1, <1>3, Zenon DEF Skip, Suitable
<1> QED
  BY <1>1, <1>5, <1>6, Zenon DEF ChtInv

LEMMA TakeStep == ASSUME ChtInv, Take PROVE ChtInv'
<1> DEFINE cell == i * backend_capacity + j
<1>1. /\ Suitable /\ Filling /\ j < backend_capacity
      /\ UNCHANGED <<cht_height, backend_capacity, i>> /\ Advance /\ j' = j + 1
      /\ permutation(cht_height, bknd, perm_pos) = i
      /\ cht' = [cht EXCEPT ![cell] = bknd]
  BY Zenon DEF ChtInv, Take
<1>2. /\ cht_height \in Nat \ {0} /\ backend_capacity \in Nat \ {0}
      /\ i \in 0 .. cht_height - 1 /\ j \in 0 .. backend_capacity - 1 /\ bknd \in Backends
      /\ cht \in [0 .. cht_height * backend_capacity - 1 -> Int]
  BY <1>1 DEF ChtInv, Filling
<1>3. /\ bknd' \in Backends /\ perm_pos' \in 0 .. cht_height
      /\ bknd \notin Taken /\ Taken' = Taken \cup {bknd}
      /\ ~(perm_pos' < cht_height) => Taken' = Backends
  BY <1>1, AdvanceTaken, Zenon
<1>4. j' = Cardinality(Taken')
  <2>1. Cardinality(Taken \cup {bknd}) = Cardinality(Taken) + 1
    BY <1>3, TakenFinite, FS_AddElement, Zenon
  <2> QED
    BY <1>1, <1>3, <2>1, Zenon DEF Filling
<1>5. j' < backend_capacity => perm_pos' < cht_height
  <2>1. Taken' = Backends => j' = backend_capacity
    BY <1>4, TakenFinite, Zenon
  <2> QED
    BY <1>2, <1>3, <2>1
<1>6. /\ cell \in 0 .. cht_height * backend_capacity - 1
      /\ cell \div backend_capacity = i /\ cell % backend_capacity = j
  <2>1. i \in Nat /\ i < cht_height /\ cht_height \in Nat
    BY <1>2
  <2>2. /\ cell \in Nat /\ cell < cht_height * backend_capacity
        /\ cell \div backend_capacity = i /\ cell % backend_capacity = j
    BY <1>2, <2>1, CellOf, Zenon
  <2> HIDE DEF cell
  <2>3. cht_height * backend_capacity \in Nat
    BY <1>2
  <2> QED
    BY <2>2, <2>3
<1>7. Rank(cht_height, backend_capacity, i, bknd) = j
  BY <1>1, RankTaken, Zenon
<1> HIDE DEF cell
<1>8. ASSUME NEW n \in 0 .. (cell + 1) - 1
      PROVE  /\ cht'[n] \in Backends
             /\ Rank(cht_height, backend_capacity, n \div backend_capacity, cht'[n])
                  = n % backend_capacity
  <2>1. CASE n = cell
    <3>1. cht'[cell] = bknd
      BY <1>1, <1>2, <1>6, Zenon
    <3> QED
      BY <1>2, <1>6, <1>7, <2>1, <3>1, Zenon
  <2>2. CASE n # cell
    <3>1. n \in 0 .. cell - 1 /\ n \in 0 .. cht_height * backend_capacity - 1
      BY <1>2, <1>6, <2>2
    <3>2. cht'[n] = cht[n]
      BY <1>1, <1>2, <2>2, <3>1, Zenon
    <3>3. Filled(cell)
      BY <1>1, Zenon DEF Filling, cell
    <3> QED
      BY <3>1, <3>2, <3>3, Zenon DEF Filled
  <2> QED
    BY <2>1, <2>2, Zenon
<1>9. Filled(i * backend_capacity + j)'
  <2>1. (i * backend_capacity + j)' = cell + 1
    BY <1>1, <1>2 DEF cell
  <2> QED
    BY <1>1, <1>8, <2>1, Zenon DEF Filled, Backends
<1>10. Filling'
  <2>1. j + 1 \in 0 .. backend_capacity
    BY <1>2
  <2>2. Backends' = Backends
    BY <1>1, Zenon DEF Backends
  <2> QED
    BY <1>1, <1>2, <1>3, <1>4, <1>5, <1>9, <2>1, <2>2, Zenon DEF Filling
<1>11. pc' = "fill" /\ Suitable'
  BY <1>1, <1>2, <1>5 DEF Take, Suitable
<1>12. cht' \in [0 .. cht_height' * backend_capacity' - 1 -> Int]
  <2>1. bknd \in Int
    BY <1>2 DEF Backends
  <2>2. cht' \in [0 .. cht_height * backend_capacity - 1 -> Int]
    BY <1>1, <1>2, <2>1, Zenon
  <2> QED
    BY <1>1, <2>2, Zenon
<1> QED
  BY <1>1, <1>2, <1>10, <1>11, <1>12, Zenon DEF ChtInv

LEMMA NextRowStep == ASSUME ChtInv, NextRow PROVE ChtInv'
<1>1. /\ Suitable /\ Filling /\ j = backend_capacity
      /\ UNCHANGED <<cht_height, backend_capacity, cht>>
      /\ i' = i + 1 /\ j' = 0 /\ bknd' = 0 /\ perm_pos' = 0
      /\ pc' = IF i + 1 = cht_height THEN "filled" ELSE "fill"
  BY Zenon DEF ChtInv, NextRow
<1>2. /\ cht_height \in Nat \ {0} /\ backend_capacity \in Nat \ {0}
      /\ i \in 0 .. cht_height - 1
  BY <1>1, Zenon DEF ChtInv, Filling
<1>3. i * backend_capacity + backend_capacity = (i + 1) * backend_capacity
  BY <1>2
<1>4. Filled((i + 1) * backend_capacity)
  BY <1>1, <1>3, Zenon DEF Filling
<1>5. \A n \in 0 .. (i + 1) * backend_capacity - 1 :
        /\ cht'[n] \in Backends'
        /\ Rank(cht_height', backend_capacity', n \div backend_capacity', cht'[n])
             = n % backend_capacity'
  BY <1>1, <1>4, Zenon DEF Filled, Backends
<1>6. (i * backend_capacity + j)' = (i + 1) * backend_capacity
  BY <1>1, <1>2
<1>7. Suitable'
  BY <1>1, Zenon DEF Suitable
<1>8. CASE i + 1 = cht_height
  <2>1. pc' = "filled" /\ Filled(cht_height * backend_capacity)'
    BY <1>1, <1>5, <1>8, Zenon DEF Filled
  <2> QED
    BY <1>1, <1>7, <2>1, Zenon DEF ChtInv
<1>9. CASE i + 1 # cht_height
  <2>1. pc' = "fill" /\ i' \in 0 .. cht_height - 1 /\ j' \in 0 .. backend_capacity
        /\ bknd' \in Backends /\ perm_pos' \in 0 .. cht_height /\ perm_pos' < cht_height
    BY <1>1, <1>2, <1>9 DEF Backends
  <2>2. Taken' = {}
    <3>1. \A b \in Backends : Position(cht_height, b, i + 1) \in Nat /\ b \in Nat
      <4>1. cht_height \in Nat /\ Backends \subseteq 0 .. cht_height - 2
            /\ i + 1 \in 0 .. cht_height - 1
        BY <1>1, <1>2, <1>9 DEF Suitable, Backends
      <4>2. \A b \in Backends : Position(cht_height, b, i + 1) \in 0 .. cht_height - 1
        BY <1>1, <4>1, Positions, Zenon DEF Suitable
      <4> QED
        BY <4>1, <4>2
    <3>2. Taken' = {b \in Backends : \/ Position(cht_height, b, i + 1) < 0
                                     \/ Position(cht_height, b, i + 1) = 0 /\ b < 0}
      BY <1>1, Zenon DEF Taken, Backends
    <3> QED
      BY <3>1, <3>2
  <2>3. j' = Cardinality(Taken')
    BY <1>1, <2>2, FS_EmptySet, Zenon
  <2>4. Filled(i * backend_capacity + j)'
    BY <1>5, <1>6, Zenon DEF Filled
  <2>5. Filling'
    BY <1>1, <2>1, <2>3, <2>4, Zenon DEF Filling, Backends
  <2> QED
    BY <1>1, <1>7, <2>1, <2>5, Zenon DEF ChtInv
<1> QED
  BY <1>8, <1>9, Zenon

LEMMA ChtStep == ChtInv /\ [ChtNext]_chtVars => ChtInv'
<1> SUFFICES ASSUME ChtInv, [ChtNext]_chtVars PROVE ChtInv'
  BY Zenon
<1>1. ASSUME UNCHANGED <<cht_height, backend_capacity, cht, i, j, bknd, perm_pos, pc>>
      PROVE  ChtInv'
  <2>1. Taken' = Taken
    BY <1>1, Zenon DEF Taken, Backends
  <2>2. /\ Filled(i * backend_capacity + j)' <=> Filled(i * backend_capacity + j)
        /\ Filled(cht_height * backend_capacity)' <=> Filled(cht_height * backend_capacity)
    BY <1>1, Zenon DEF Filled, Backends
  <2>3. (Filling' <=> Filling) /\ (Suitable' <=> Suitable)
    BY <1>1, <2>1, <2>2, Zenon DEF Filling, Suitable, Backends
  <2> QED
    BY <1>1, <2>2, <2>3, Zenon DEF ChtInv
<1>2. ASSUME NEW hash, NEW active, lb_find_preferred_available_backend(hash, active)
      PROVE  ChtInv'
  BY <1>1, <1>2, Zenon DEF lb_find_preferred_available_backend
<1>3. CASE UNCHANGED chtVars
  BY <1>1, <1>3, Zenon DEF chtVars
<1> QED
  BY <1>2, <1>3, CheckStep, SkipStep, TakeStep, NextRowStep, Zenon DEF ChtNext

LEMMA ChtInvariant == ChtSpec => []ChtInv
BY ChtInitial, ChtStep, PTL DEF ChtSpec

\* The assertions of lb_fill_cht: a height that is prime and above the capacity
\* passes them all, the ones in the loops included.
THEOREM AssertionsHold == ChtSpec => []AbortsOnlyOnArguments
<1>1. ChtInv => AbortsOnlyOnArguments
  BY DEF ChtInv, Suitable, AbortsOnlyOnArguments
<1> QED
  BY <1>1, ChtInvariant, PTL

\* The cells of one row of the filled table.
LEMMA FilledRow ==
  ASSUME ChtInv, pc = "filled", NEW r \in 0 .. cht_height - 1, NEW k \in Backends
  PROVE  /\ cht[r * backend_capacity + k] \in Backends
         /\ Rank(cht_height, backend_capacity, r, cht[r * backend_capacity + k]) = k
<1> DEFINE cell == r * backend_capacity + k
<1>1. /\ cht_height \in Nat /\ backend_capacity \in Nat \ {0}
      /\ r \in Nat /\ r < cht_height /\ k \in 0 .. backend_capacity - 1
      /\ cht_height * backend_capacity \in Nat
  BY DEF ChtInv, Backends
<1>2. /\ cell \in Nat /\ cell < cht_height * backend_capacity
      /\ cell \div backend_capacity = r /\ cell % backend_capacity = k
  <2>1. /\ cell \in Nat /\ cell \div backend_capacity = r /\ cell % backend_capacity = k
        /\ \A h \in Nat : r < h => cell < h * backend_capacity
    BY <1>1, CellOf
  <2> QED
    BY <1>1, <2>1, Zenon
<1> HIDE DEF cell
<1>3. cell \in 0 .. cht_height * backend_capacity - 1
  BY <1>1, <1>2
<1>4. cht[cell] \in Backends /\ Rank(cht_height, backend_capacity, r, cht[cell]) = k
  BY <1>2, <1>3, Zenon DEF ChtInv, Filled
<1> QED
  BY <1>4, Zenon DEF cell

\* The filled table: in every row all backends, by the position at which their
\* permutations come to it, whatever the height and the number of backends.
THEOREM ListsFilled == ChtSpec => []RowsArePriorityLists
<1>1. ASSUME ChtInv, pc = "filled", NEW r \in 0 .. cht_height - 1
      PROVE  LET Cell(k) == cht[r * backend_capacity + k]
             IN  /\ {Cell(k) : k \in Backends} = Backends
                 /\ \A k, l \in Backends : k < l => Before(cht_height, r, Cell(k), Cell(l))
  <2> DEFINE C == [k \in Backends |-> cht[r * backend_capacity + k]]
             R(b) == Rank(cht_height, backend_capacity, r, b)
  <2>1. C \in [Backends -> Backends] /\ \A k \in Backends : R(C[k]) = k
    BY <1>1, FilledRow, Zenon
  <2>2. \A b, c \in Backends :
          /\ R(b) \in Nat
          /\ b = c \/ Before(cht_height, r, b, c) \/ Before(cht_height, r, c, b)
          /\ Before(cht_height, r, b, c) => R(b) < R(c)
    <3>1. IsPrime(cht_height) /\ cht_height \in Nat /\ backend_capacity \in 1 .. cht_height - 1
      BY <1>1 DEF ChtInv, Suitable
    <3> QED
      BY <1>1, <3>1, Ranks, Zenon DEF Backends
  <2> HIDE DEF R
  <2>3. C \in Injection(Backends, Backends)
    BY <2>1, Zenon DEF Injection, IsInjective
  <2>4. C \in Surjection(Backends, Backends)
    BY <1>1, <2>3, TakenFinite, FS_Injection, Zenon
  <2>5. {C[k] : k \in Backends} = Backends
    BY <2>1, <2>4, Zenon DEF Surjection
  <2>6. ASSUME NEW k \in Backends, NEW l \in Backends, k < l
        PROVE  Before(cht_height, r, C[k], C[l])
    <3>1. C[k] \in Backends /\ C[l] \in Backends /\ R(C[k]) = k /\ R(C[l]) = l
      BY <2>1, Zenon
    <3>2. ~(k = l) /\ ~(l < k)
      BY <2>6, <1>1 DEF Backends, ChtInv
    <3> QED
      BY <2>2, <3>1, <3>2, Zenon
  <2> QED
    BY <2>5, <2>6, Zenon
<1>2. ChtInv => RowsArePriorityLists
  BY <1>1, Zenon DEF RowsArePriorityLists
<1> QED
  BY <1>2, ChtInvariant, PTL

\* The filled table is the one the load balancer is modelled with.
THEOREM TableAsPromised ==
  ChtSpec => [](pc = "filled" => cht = PriorityTable(cht_height, backend_capacity))
<1>1. ASSUME ChtInv, pc = "filled"
      PROVE  cht = PriorityTable(cht_height, backend_capacity)
  <2> DEFINE Cells == 0 .. cht_height * backend_capacity - 1
             R(n, b) == Rank(cht_height, backend_capacity, n \div backend_capacity, b)
  <2>1. cht \in [Cells -> Int]
    BY <1>1, Zenon DEF ChtInv
  <2>2. ASSUME NEW n \in Cells
        PROVE  cht[n] = CHOOSE b \in Backends : R(n, b) = n % backend_capacity
    <3>1. cht[n] \in Backends /\ R(n, cht[n]) = n % backend_capacity
      BY <1>1, Zenon DEF ChtInv, Filled
    <3>2. n \div backend_capacity \in 0 .. cht_height - 1
      <4>1. /\ cht_height \in Nat /\ backend_capacity \in Nat \ {0} /\ n \in Nat
            /\ n < cht_height * backend_capacity
        BY <1>1 DEF ChtInv
      <4> QED
        BY <4>1
    <3>3. IsPrime(cht_height) /\ cht_height \in Nat /\ backend_capacity \in 1 .. cht_height - 1
      BY <1>1 DEF ChtInv, Suitable
    <3>4. \A b, c \in Backends : b = c \/ R(n, b) < R(n, c) \/ R(n, c) < R(n, b)
      BY <3>2, <3>3, Ranks, Zenon DEF Backends
    <3>5. \A b \in Backends : R(n, b) \in Nat
      BY <3>2, <3>3, Ranks, Zenon DEF Backends
    <3> HIDE DEF R
    <3>6. \A b \in Backends : R(n, b) = n % backend_capacity => b = cht[n]
      BY <3>1, <3>4, <3>5
    <3> QED
      BY <3>1, <3>6, Zenon
  <2>3. cht = [n \in Cells |-> CHOOSE b \in Backends : R(n, b) = n % backend_capacity]
    BY <2>1, <2>2, Zenon
  <2> QED
    BY <2>3, Zenon DEF PriorityTable, Backends
<1> QED
  BY <1>1, ChtInvariant, PTL
=============================================================================
