-------------------------- MODULE FlowTableProofs --------------------------
(***************************************************************************)
(* What the operations on flow tables preserve, for tables of any size and *)
(* any keys.  The NFs keep a flow for as long as it is active: Tracks says *)
(* so of a table and of the times at which packets of the flows passed.    *)
(***************************************************************************)
EXTENDS FlowTable, TLAPS

Stamps == [Keys -> Times \cup {Absent}]

\* The table is coherent, holds exactly the keys stamped at or after the
\* border, and its chain has the stamps.
Tracks(t, stamps, border) ==
  /\ Coherent(t)
  /\ \A k \in Keys :
       /\ t.map[k] # Absent <=> stamps[k] # Absent /\ stamps[k] >= border
       /\ t.map[k] # Absent => stamps[k] = t.heap[t.map[k]]

\* An empty table tracks that nothing has been seen.
LEMMA EmptyTracks ==
  ASSUME NEW t \in Tables, Empty(t), NEW border \in Int
  PROVE  Tracks(t, [k \in Keys |-> Absent], border)
BY FlowTableAssumption DEF Tables, Empty, Tracks, Coherent, Live, Absent, Free

\* The operations return tables.
LEMMA ExpireType ==
  ASSUME NEW t \in Tables, NEW border \in Int
  PROVE  Expire(t, border) \in Tables
BY Zenon DEF Tables, Expire, Absent, Free

LEMMA InsertType ==
  ASSUME NEW t \in Tables, NEW key \in Keys, NEW i \in Indexes, NEW time \in Times
  PROVE  Insert(t, key, i, time) \in Tables
BY Zenon DEF Tables, Insert

LEMMA RejuvenateType ==
  ASSUME NEW t \in Tables, NEW i \in Indexes, NEW time \in Times
  PROVE  Rejuvenate(t, i, time) \in Tables
BY DEF Tables, Rejuvenate, Free

\* Expiry with a later border (expire_items_single_map) removes exactly the
\* keys stamped before it.
LEMMA ExpireTracks ==
  ASSUME NEW t \in Tables, NEW stamps \in Stamps,
         NEW old \in Int, NEW border \in Int, old <= border,
         Tracks(t, stamps, old)
  PROVE  Tracks(Expire(t, border), stamps, border)
<1> DEFINE gone == {i \in Live(t) : t.heap[i] < border}
           e == Expire(t, border)
<1>1. /\ e.map = [k \in Keys |-> IF k \in {t.vec[i] : i \in gone} THEN Absent ELSE t.map[k]]
      /\ e.vec = t.vec
      /\ e.heap = [i \in Indexes |-> IF i \in gone THEN Free ELSE t.heap[i]]
  BY DEF Expire, Tables
<1>2. Live(e) = Live(t) \ gone
  BY <1>1 DEF Live, Free, Tables
<1>3. ASSUME NEW k \in Keys
      PROVE  k \in {t.vec[i] : i \in gone} <=> t.map[k] \in gone
  BY DEF Tracks, Coherent, Tables, Live, Absent, Indexes
<1>4. \A i \in Live(t) : t.vec[i] \in Keys /\ t.heap[i] \in Int /\ i \in Int
  BY FlowTableAssumption DEF Tables, Live, Indexes, Times, Free
<1>5. Coherent(e)
  BY <1>1, <1>2, <1>3, <1>4 DEF Coherent, Tracks, Live, Absent
<1>6. ASSUME NEW k \in Keys
      PROVE  /\ e.map[k] # Absent <=> stamps[k] # Absent /\ stamps[k] >= border
             /\ e.map[k] # Absent => stamps[k] = e.heap[e.map[k]]
  <2>1. e.map[k] # Absent <=> t.map[k] # Absent /\ t.map[k] \notin gone
    BY <1>1, <1>3
  <2>2. stamps[k] \in Int
    BY DEF Stamps, Times, Absent
  <2>3. CASE t.map[k] = Absent
    BY <2>1, <2>2, <2>3 DEF Tracks
  <2>4. CASE t.map[k] # Absent
    <3>1. t.map[k] \in Live(t) /\ stamps[k] = t.heap[t.map[k]] /\ stamps[k] # Absent
      BY <2>4 DEF Tracks, Coherent
    <3>2. t.map[k] \in gone <=> stamps[k] < border
      BY <3>1
    <3>3. e.map[k] # Absent => e.map[k] = t.map[k] /\ e.heap[e.map[k]] = t.heap[t.map[k]]
      BY <1>1, <1>3, <2>1, <3>1 DEF Live
    <3>4. e.map[k] # Absent <=> stamps[k] # Absent /\ stamps[k] >= border
      BY <2>1, <2>2, <2>4, <3>1, <3>2
    <3> QED
      BY <3>1, <3>3, <3>4
  <2> QED
    BY <2>3, <2>4
<1> QED
  BY <1>5, <1>6 DEF Tracks

\* A key that is not in the table is put under an index that is free.
LEMMA InsertTracks ==
  ASSUME NEW t \in Tables, NEW stamps \in Stamps, NEW border \in Int,
         Tracks(t, stamps, border),
         NEW key \in Keys, t.map[key] = Absent,
         NEW i \in Indexes \ Live(t), NEW time \in Times, time >= border
  PROVE  Tracks(Insert(t, key, i, time), [stamps EXCEPT ![key] = time], border)
<1> DEFINE n == Insert(t, key, i, time)
           s == [stamps EXCEPT ![key] = time]
<1>1. /\ n.map = [t.map EXCEPT ![key] = i]
      /\ n.vec = [t.vec EXCEPT ![i] = key]
      /\ n.heap = [t.heap EXCEPT ![i] = time]
  BY DEF Insert, Tables
<1>2. Live(n) = Live(t) \cup {i}
  BY <1>1 DEF Live, Free, Tables, Times
<1>3. \A j \in Live(t) : j # i /\ t.vec[j] # key /\ n.vec[j] = t.vec[j] /\ t.vec[j] \in Keys
  <2> TAKE j \in Live(t)
  <2>1. j \in Indexes /\ j # i /\ t.vec[j] \in Keys
    BY DEF Live, Tables
  <2>2. t.map[t.vec[j]] = j /\ j # Absent
    BY <2>1, FlowTableAssumption DEF Tracks, Coherent, Indexes, Absent
  <2> QED
    BY <1>1, <2>1, <2>2 DEF Tables
<1>4. n.map[key] = i /\ n.vec[i] = key /\ n.heap[i] = time /\ i # Absent /\ time # Absent
  <2>1. i \in Indexes /\ i # Absent /\ time # Absent
    BY FlowTableAssumption DEF Indexes, Absent, Times
  <2> QED
    BY <1>1, <2>1 DEF Tables
<1>5. Coherent(n)
  <2>1. ASSUME NEW j \in Live(n) PROVE n.map[n.vec[j]] = j
    BY <1>1, <1>2, <1>3, <1>4 DEF Tracks, Coherent, Tables
  <2>2. ASSUME NEW k \in Keys, n.map[k] # Absent
        PROVE  n.map[k] \in Live(n) /\ n.vec[n.map[k]] = k
    <3>1. CASE k = key
      BY <1>2, <1>4, <3>1
    <3>2. CASE k # key
      <4>1. n.map[k] = t.map[k]
        BY <1>1, <3>2 DEF Tables
      <4> QED
        BY <1>2, <1>3, <2>2, <4>1 DEF Tracks, Coherent
    <3> QED
      BY <3>1, <3>2
  <2> QED
    BY <2>1, <2>2 DEF Coherent
<1>6. ASSUME NEW k \in Keys
      PROVE  /\ n.map[k] # Absent <=> s[k] # Absent /\ s[k] >= border
             /\ n.map[k] # Absent => s[k] = n.heap[n.map[k]]
  <2>1. CASE k = key
    BY <1>4, <2>1 DEF Stamps
  <2>2. CASE k # key
    <3>1. n.map[k] = t.map[k] /\ s[k] = stamps[k]
      BY <1>1, <2>2 DEF Tables, Stamps
    <3>2. t.map[k] # Absent => t.map[k] \in Live(t) /\ n.heap[t.map[k]] = t.heap[t.map[k]]
      BY <1>1, <1>3 DEF Tracks, Coherent, Tables, Live
    <3> QED
      BY <3>1, <3>2 DEF Tracks
  <2> QED
    BY <2>1, <2>2
<1> QED
  BY <1>5, <1>6 DEF Tracks

\* Rejuvenating an index stamps the key that owns it.
LEMMA RejuvenateTracks ==
  ASSUME NEW t \in Tables, NEW stamps \in Stamps, NEW border \in Int,
         Tracks(t, stamps, border),
         NEW i \in Live(t), NEW time \in Times, time >= border
  PROVE  Tracks(Rejuvenate(t, i, time), [stamps EXCEPT ![t.vec[i]] = time], border)
<1> DEFINE n == Rejuvenate(t, i, time)
           key == t.vec[i]
           s == [stamps EXCEPT ![key] = time]
<1>0. i \in Indexes /\ t.heap[i] # Free /\ key \in Keys
  BY DEF Live, Tables
<1>1. n.map = t.map /\ n.vec = t.vec /\ n.heap = [t.heap EXCEPT ![i] = time]
  BY <1>0 DEF Rejuvenate, Tables
<1>2. Live(n) = Live(t)
  BY <1>0, <1>1 DEF Live, Free, Tables, Times
<1>3. Coherent(n)
  BY <1>1, <1>2 DEF Coherent, Tracks
<1>4. t.map[key] = i /\ i # Absent /\ time # Absent
  BY <1>0 DEF Tracks, Coherent, Absent, Indexes, Times
<1>5. ASSUME NEW k \in Keys
      PROVE  /\ n.map[k] # Absent <=> s[k] # Absent /\ s[k] >= border
             /\ n.map[k] # Absent => s[k] = n.heap[n.map[k]]
  <2>1. CASE k = key
    BY <1>0, <1>1, <1>4, <2>1 DEF Stamps, Tables
  <2>2. CASE k # key
    <3>1. s[k] = stamps[k]
      BY <1>0, <2>2 DEF Stamps
    <3>2. t.map[k] # Absent => t.map[k] \in Live(t) /\ t.map[k] # i
      BY <2>2 DEF Tracks, Coherent
    <3>3. t.map[k] # Absent => n.heap[t.map[k]] = t.heap[t.map[k]]
      BY <1>1, <3>2 DEF Tables, Live
    <3> QED
      BY <1>1, <3>1, <3>3 DEF Tracks
  <2> QED
    BY <2>1, <2>2
<1> QED
  BY <1>3, <1>5 DEF Tracks
=============================================================================
