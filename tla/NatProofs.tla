----------------------------- MODULE NatProofs -----------------------------
(***************************************************************************)
(* The NAT keeps its promises for tables of any size, any flows and any    *)
(* expiration time.  The inductive invariant says that the table holds     *)
(* exactly the flows of which a packet was forwarded recently, and that    *)
(* each has been told the port of its index.  The loop that expires flows  *)
(* on behalf of the NAT and of every other network function does what the  *)
(* operator Expire says.                                                   *)
(***************************************************************************)
EXTENDS Nat, Expirator, FlowTableProofs, FiniteSetTheorems

Told(t) == \A f \in Keys : t.map[f] # Absent => told[f] = external_port(t.map[f])

NatInv ==
  /\ TypeOK
  /\ Tracks(table, seen, now - Expiration)
  /\ Told(table)

\* uint16 is a port, and does nothing to a number that is one.
LEMMA PortOfNat == ASSUME NEW x \in Int PROVE uint16(x) \in 0 .. Ports - 1
BY NatAssumption DEF uint16

LEMMA PortOfPort == ASSUME NEW x \in 0 .. Ports - 1 PROVE uint16(x) = x
BY NatAssumption DEF uint16

LEMMA NatInit == Init => NatInv
<1> SUFFICES ASSUME Init PROVE NatInv
  OBVIOUS
<1>1. TypeOK
  <2>1. 0 \in Times
    BY FlowTableAssumption DEF Times
  <2>2. told \in [Keys -> 0 .. Ports - 1 \cup {Absent}] /\ seen \in [Keys -> Times \cup {Absent}]
    BY DEF Init
  <2>3. undefined \in BOOLEAN /\ out \in {Drop}
    BY Zenon DEF Init
  <2> QED
    BY <2>1, <2>2, <2>3 DEF Init, TypeOK
<1>2. now - Expiration \in Int
  BY NatAssumption DEF Init
<1>3. Tracks(table, seen, now - Expiration)
  BY <1>2, EmptyTracks DEF Init
<1>4. Told(table)
  BY DEF Init, Empty, Told
<1> QED
  BY <1>1, <1>3, <1>4 DEF NatInv

\* What every packet starts with, flow_manager_expire, keeps the invariant for
\* the time of the packet.
LEMMA NatExpire ==
  ASSUME NatInv, NEW time \in now .. MaxTime
  PROVE  LET t == flow_manager_expire(table, time)
         IN  /\ time \in Times /\ time - Expiration \in Int
             /\ time - Expiration <= time
             /\ t \in Tables
             /\ Tracks(t, seen, time - Expiration)
             /\ Told(t)
<1> DEFINE t == flow_manager_expire(table, time)
<1>1. /\ time \in Times /\ now \in Int /\ Expiration \in Int
      /\ now - Expiration \in Int /\ time - Expiration \in Int
      /\ now - Expiration <= time - Expiration /\ time - Expiration <= time
  BY FlowTableAssumption, NatAssumption DEF NatInv, TypeOK, Times
<1>2. table \in Tables /\ seen \in Stamps
  BY DEF NatInv, TypeOK, Stamps
<1>3. t \in Tables
  BY <1>1, <1>2, ExpireType DEF flow_manager_expire
<1>4. Tracks(t, seen, time - Expiration)
  BY <1>1, <1>2, ExpireTracks DEF NatInv, flow_manager_expire
<1>5. \A f \in Keys : t.map[f] # Absent => t.map[f] = table.map[f]
  BY <1>2 DEF flow_manager_expire, Expire, Tables
<1>6. Told(t)
  BY <1>5 DEF NatInv, Told
<1> QED
  BY <1>1, <1>3, <1>4, <1>6

\* A packet that changes nothing but what expires.
LEMMA NatUnchanged ==
  ASSUME NatInv, NEW time \in now .. MaxTime, now' = time,
         table' = flow_manager_expire(table, time),
         out' \in {Drop} \cup {Refused(f) : f \in Keys}, undefined' \in BOOLEAN,
         told' = told, seen' = seen
  PROVE  NatInv'
<1>1. TypeOK'
  BY NatExpire DEF NatInv, TypeOK
<1> QED
  BY <1>1, NatExpire DEF NatInv, Told

LEMMA NatInternal ==
  ASSUME NatInv, NEW time \in now .. MaxTime, now' = time,
         NEW f \in Keys, Internal(f, time)
  PROVE  NatInv'
<1> DEFINE t == flow_manager_expire(table, time)
           Forward(i) == /\ out' = ToWan(external_port(i))
                         /\ told' = [told EXCEPT ![f] = external_port(i)]
                         /\ seen' = [seen EXCEPT ![f] = time]
<1>1. /\ time \in Times /\ time - Expiration \in Int /\ time - Expiration <= time
      /\ t \in Tables /\ Tracks(t, seen, time - Expiration) /\ Told(t)
      /\ time \in Int
  BY NatExpire, FlowTableAssumption DEF Times
<1>2. seen \in Stamps /\ told \in [Keys -> 0 .. Ports - 1 \cup {Absent}] /\ undefined' \in BOOLEAN
  BY DEF NatInv, TypeOK, Stamps, Internal
<1>3. ASSUME NEW i \in Indexes, Forward(i), table' \in Tables,
             Tracks(table', seen', time - Expiration),
             table'.map[f] = i, \A g \in Keys \ {f} : table'.map[g] = t.map[g]
      PROVE  NatInv'
  <2>1. external_port(i) \in 0 .. Ports - 1
    BY PortOfNat, NatAssumption, FlowTableAssumption DEF external_port, Indexes
  <2>2. TypeOK'
    <3>1. out' \in {ToWan(p) : p \in 0 .. Ports - 1}
      BY <1>3, <2>1
    <3>2. seen' \in [Keys -> Times \cup {Absent}] /\ told' \in [Keys -> 0 .. Ports - 1 \cup {Absent}]
      BY <1>1, <1>2, <1>3, <2>1 DEF Stamps
    <3> QED
      BY <1>1, <1>2, <1>3, <3>1, <3>2 DEF TypeOK
  <2>3. Told(table)'
    BY <1>1, <1>2, <1>3 DEF Told, external_port
  <2> QED
    BY <1>3, <2>2, <2>3 DEF NatInv
<1>4. CASE /\ t.map[f] # Absent
           /\ table' = Rejuvenate(t, t.map[f], time)
           /\ Forward(t.map[f])
  <2>1. t.map[f] \in Live(t) /\ t.map[f] \in Indexes /\ t.vec[t.map[f]] = f
    BY <1>1, <1>4 DEF Tracks, Coherent, Live
  <2>2. Tracks(table', seen', time - Expiration)
    BY <1>1, <1>2, <1>4, <2>1, RejuvenateTracks, Zenon
  <2>3. table' \in Tables /\ table'.map = t.map
    BY <1>1, <1>4, <2>1, RejuvenateType, Zenon DEF Rejuvenate, Tables
  <2> QED
    BY <1>3, <1>4, <2>1, <2>2, <2>3, Zenon
<1>5. ASSUME t.map[f] = Absent, NEW i \in Indexes \ Live(t),
             table' = Insert(t, f, i, time), Forward(i)
      PROVE  NatInv'
  <2>1. Tracks(table', seen', time - Expiration)
    BY <1>1, <1>2, <1>5, InsertTracks, Zenon
  <2>2. table' \in Tables /\ table'.map = [t.map EXCEPT ![f] = i]
    BY <1>1, <1>5, InsertType, Zenon DEF Insert, Tables
  <2>3. table'.map[f] = i /\ \A g \in Keys \ {f} : table'.map[g] = t.map[g]
    BY <1>1, <2>2 DEF Tables
  <2> QED
    BY <1>3, <1>5, <2>1, <2>2, <2>3, Zenon
<1>6. CASE table' = t /\ out' = Refused(f) /\ UNCHANGED <<told, seen>>
  BY <1>2, <1>6, NatUnchanged
<1> QED
  BY <1>4, <1>5, <1>6 DEF Internal

LEMMA NatExternal ==
  ASSUME NatInv, NEW time \in now .. MaxTime, now' = time,
         NEW port \in 0 .. Ports - 1, External(port, time)
  PROVE  NatInv'
<1> DEFINE t == flow_manager_expire(table, time)
           i == port - StartPort
<1>1. /\ time \in Times /\ time - Expiration \in Int /\ time - Expiration <= time
      /\ t \in Tables /\ Tracks(t, seen, time - Expiration) /\ Told(t)
      /\ time \in Int
  BY NatExpire, FlowTableAssumption DEF Times
<1>2. seen \in Stamps /\ undefined \in BOOLEAN /\ told' = told
  BY DEF NatInv, TypeOK, Stamps, External
<1>3. CASE i \in Live(t)
  <2>1. /\ table' = Rejuvenate(t, i, time) /\ out' = ToLan(t.vec[i], port)
        /\ seen' = [seen EXCEPT ![t.vec[i]] = time] /\ undefined' = undefined
    BY <1>3 DEF External
  <2>2. i \in Indexes /\ t.vec[i] \in Keys
    BY <1>1, <1>3 DEF Live, Tables
  <2>3. Tracks(table', seen', time - Expiration)
    BY <1>1, <1>2, <1>3, <2>1, RejuvenateTracks, Zenon
  <2>4. table' \in Tables /\ table'.map = t.map
    BY <1>1, <2>1, <2>2, RejuvenateType, Zenon DEF Rejuvenate, Tables
  <2>5. TypeOK'
    <3>1. out' \in {ToLan(f, p) : f \in Keys, p \in 0 .. Ports - 1}
      BY <2>1, <2>2
    <3>2. seen' \in [Keys -> Times \cup {Absent}]
      BY <1>1, <1>2, <2>1, Zenon DEF Stamps
    <3> QED
      BY <1>1, <1>2, <2>1, <2>4, <3>1, <3>2 DEF NatInv, TypeOK
  <2> QED
    BY <1>1, <1>2, <2>3, <2>4, <2>5 DEF NatInv, Told, external_port
<1>4. CASE i \notin Live(t)
  BY <1>2, <1>4, NatUnchanged, Zenon DEF External
<1> QED
  BY <1>3, <1>4

LEMMA NatStep == NatInv /\ [Next]_vars => NatInv'
<1> SUFFICES ASSUME NatInv, [Next]_vars PROVE NatInv'
  OBVIOUS
<1>1. CASE UNCHANGED vars
  BY <1>1 DEF NatInv, TypeOK, Told, vars, external_port
<1>2. ASSUME NEW time \in now .. MaxTime, Packet(time), now' = time PROVE NatInv'
  <2>1. CASE Other(time)
    BY <1>2, <2>1, NatUnchanged DEF Other, NatInv, TypeOK
  <2>2. ASSUME NEW f \in Keys, Internal(f, time) PROVE NatInv'
    BY <1>2, <2>2, NatInternal
  <2>3. ASSUME NEW port \in 0 .. Ports - 1, External(port, time) PROVE NatInv'
    BY <1>2, <2>3, NatExternal
  <2> QED
    BY <1>2, <2>1, <2>2, <2>3 DEF Packet
<1> QED
  BY <1>1, <1>2 DEF Next

LEMMA NatInvariant == Spec => []NatInv
BY NatInit, NatStep, PTL DEF Spec

\* After every packet the map, the vector and the chain of the NAT agree: no
\* index that nat-flowmanager.c reuses is left in the map under an old flow.
THEOREM TablesAgree == Spec => []TablesCoherent
<1>1. NatInv => TablesCoherent
  BY DEF NatInv, Tracks, TablesCoherent
<1> QED
  BY <1>1, NatInvariant, PTL

\* A flow is translated if and only if it is active, and it keeps the port it
\* was given (flow_manager_get_internal, flow_manager_get_external).
THEOREM FlowsMapped == Spec => []MappedWhileActive
<1>1. NatInv => MappedWhileActive
  BY DEF NatInv, Tracks, Told, MappedWhileActive, Active
<1> QED
  BY <1>1, NatInvariant, PTL

\* With no more indexes than ports from start_port on, active flows have distinct
\* ports. The 262144 flows that vignat/Makefile passes to --max-flows are more
\* than that: external_port cuts the sum to 16 bits and ports repeat.
THEOREM FlowsApart ==
  ASSUME StartPort + Capacity <= Ports
  PROVE  Spec => []PortsDistinct
<1>1. ASSUME NEW i \in Indexes PROVE external_port(i) = StartPort + i
  BY NatAssumption, FlowTableAssumption, PortOfPort DEF external_port, Indexes
<1>2. NatInv => PortsDistinct
  <2> SUFFICES ASSUME NatInv, NEW f \in Keys, NEW g \in Keys,
                      Active(f), Active(g), told[f] = told[g]
               PROVE  f = g
    BY DEF PortsDistinct
  <2>1. /\ table.map[f] # Absent /\ table.map[g] # Absent
        /\ table.map[f] \in Live(table) /\ table.map[g] \in Live(table)
        /\ table.vec[table.map[f]] = f /\ table.vec[table.map[g]] = g
    BY DEF NatInv, Tracks, Coherent, Active
  <2>2. table.map[f] \in Indexes /\ table.map[g] \in Indexes
    BY <2>1 DEF Live
  <2>3. StartPort + table.map[f] = StartPort + table.map[g]
    BY <1>1, <2>1, <2>2 DEF NatInv, Told
  <2>4. table.map[f] = table.map[g]
    BY <2>2, <2>3, NatAssumption, FlowTableAssumption DEF Indexes
  <2> QED
    BY <2>1, <2>4
<1> QED
  BY <1>2, NatInvariant, PTL

\* A packet from outside goes to the flow that was given its port and has been
\* active since, in a table of any size (flow_manager_get_external).
THEOREM RepliesDelivered == Spec => DeliveredToOwner
<1> DEFINE Delivered == out'.to = "lan" => /\ told[out'.flow] = out'.port
                                           /\ seen[out'.flow] >= now' - Expiration
<1>1. NatInv /\ [Next]_vars => [Delivered]_vars
  <2> SUFFICES ASSUME NatInv, NEW time \in now .. MaxTime, Packet(time), now' = time
               PROVE  Delivered
    BY DEF Next, vars
  <2> DEFINE t == flow_manager_expire(table, time)
  <2>1. t \in Tables /\ Tracks(t, seen, time - Expiration) /\ Told(t)
    BY NatExpire
  <2>2. CASE out'.to # "lan"
    BY <2>2
  <2>3. ASSUME NEW port \in 0 .. Ports - 1, port - StartPort \in Live(t),
               out' = ToLan(t.vec[port - StartPort], port)
        PROVE  Delivered
    <3> DEFINE i == port - StartPort
               f == t.vec[i]
    <3>1. f \in Keys /\ t.map[f] = i /\ i # Absent /\ i \in Indexes
      BY <2>1, <2>3, FlowTableAssumption DEF Tables, Live, Tracks, Coherent, Indexes, Absent
    <3>2. told[f] = external_port(i) /\ seen[f] >= time - Expiration
      BY <2>1, <3>1 DEF Told, Tracks
    <3>3. external_port(i) = port
      <4>1. StartPort + i = port
        BY NatAssumption
      <4> QED
        BY <4>1, PortOfPort DEF external_port
    <3> QED
      BY <2>3, <3>2, <3>3 DEF ToLan
  <2>4. \/ out'.to # "lan"
        \/ \E port \in 0 .. Ports - 1 : /\ port - StartPort \in Live(t)
                                        /\ out' = ToLan(t.vec[port - StartPort], port)
    <3>1. CASE Other(time)
      BY <3>1 DEF Other, Drop
    <3>2. ASSUME NEW f \in Keys, Internal(f, time) PROVE out'.to # "lan"
      BY <3>2 DEF Internal, Refused, ToWan
    <3>3. ASSUME NEW port \in 0 .. Ports - 1, External(port, time)
          PROVE  \/ out'.to # "lan"
                 \/ /\ port - StartPort \in Live(t)
                    /\ out' = ToLan(t.vec[port - StartPort], port)
      BY <3>3 DEF External, Drop
    <3> QED
      BY <3>1, <3>2, <3>3 DEF Packet
  <2> QED
    BY <2>2, <2>3, <2>4
<1> QED
  BY <1>1, NatInvariant, PTL DEF Spec, DeliveredToOwner

\* A flow is refused only when every index belongs to another flow that is
\* still active and was given the port of that index: no index is lost, however
\* often flows expire and indexes are reused (flow_manager_allocate_flow).
THEOREM RefusalsJustified == Spec => RefusedOnlyWhenFull
<1> DEFINE Owned(f) == \A i \in Indexes : \E g \in Keys \ {f} :
                         seen[g] >= now' - Expiration /\ told[g] = external_port(i)
           Justified == \A f \in Keys : out' = Refused(f) => Owned(f)
<1>1. NatInv /\ [Next]_vars => [Justified]_vars
  <2> SUFFICES ASSUME NatInv, NEW time \in now .. MaxTime, Packet(time), now' = time,
                      NEW f \in Keys, out' = Refused(f), NEW i \in Indexes
               PROVE  \E g \in Keys \ {f} :
                        seen[g] >= now' - Expiration /\ told[g] = external_port(i)
    BY DEF Next, vars
  <2> DEFINE t == flow_manager_expire(table, time)
  <2>1. t \in Tables /\ Tracks(t, seen, time - Expiration) /\ Told(t)
    BY NatExpire
  <2>2. PICK h \in Keys : Internal(h, time)
    <3>1. "flow" \in DOMAIN out' /\ "port" \notin DOMAIN out'
      BY DEF Refused
    <3>2. ~Other(time)
      BY <3>1 DEF Other, Drop
    <3>3. ASSUME NEW port \in 0 .. Ports - 1 PROVE ~External(port, time)
      BY <3>1 DEF External, Drop, ToLan
    <3> QED
      BY <3>2, <3>3 DEF Packet
  <2>3. t.map[h] = Absent /\ Live(t) = Indexes /\ out' = Refused(h)
    <3>1. ASSUME NEW p PROVE out' # ToWan(p)
      <4>1. "flow" \in DOMAIN out' /\ "flow" \notin DOMAIN ToWan(p)
        BY DEF Refused, ToWan
      <4> QED
        BY <4>1
    <3> HIDE DEF t
    <3> QED
      BY <2>2, <3>1 DEF Internal, t
  <2>4. h = f
    <3>1. out'.flow = f /\ out'.flow = h
      BY <2>3 DEF Refused
    <3> QED
      BY <3>1
  <2> DEFINE g == t.vec[i]
  <2>5. g \in Keys /\ t.map[g] = i /\ i # Absent
    <3> HIDE DEF t
    <3>1. g \in Keys /\ i # Absent
      BY <2>1, FlowTableAssumption DEF Tables, Indexes, Absent
    <3> QED
      BY <2>1, <2>3, <3>1 DEF Tracks, Coherent
  <2>6. g # f
    BY <2>3, <2>4, <2>5
  <2>7. seen[g] >= time - Expiration /\ told[g] = external_port(i)
    BY <2>1, <2>5 DEF Tracks, Told
  <2> QED
    BY <2>5, <2>6, <2>7
<1> QED
  BY <1>1, NatInvariant, PTL DEF Spec, RefusedOnlyWhenFull

-----------------------------------------------------------------------------
(* The loop of the expirator: the flow manager hands it the NAT's map,     *)
(* vector and chain.                                                       *)

\* The indexes the loop has taken off the chain.
Removed == {i \in Live(entry) : chain[i] = Free}

\* Those of which it has also erased the key.
Erased == IF pc = "erase" THEN Removed \ {index} ELSE Removed

\* So far the loop has removed indexes stamped before the border, has erased
\* exactly their keys, except the one it is about to erase, and has counted them.
ExpiratorInv ==
  /\ entry \in Tables /\ Coherent(entry)
  /\ border \in Int
  /\ vector = entry.vec
  /\ chain \in [Indexes -> Times \cup {Free}]
  /\ \A i \in Indexes : chain[i] # Free => chain[i] = entry.heap[i]
  /\ \A i \in Removed : entry.heap[i] < border
  /\ map \in [Keys -> Indexes \cup {Absent}]
  /\ \A k \in Keys : map[k] = IF entry.map[k] \in Erased THEN Absent ELSE entry.map[k]
  /\ count = Cardinality(Erased)
  /\ pc \in {"loop", "erase", "done"}
  /\ pc = "erase" => index \in Removed
  /\ pc = "done" => \A i \in Live(entry) : entry.heap[i] < border => i \in Removed

LEMMA NotAnIndex == Absent \notin Indexes
BY FlowTableAssumption DEF Absent, Indexes

\* In a coherent table an index that is handed out and its key lead to each other.
LEMMA OwnerOfKey ==
  ASSUME NEW t \in Tables, Coherent(t), NEW i \in Live(t), NEW k \in Keys
  PROVE  t.vec[i] \in Keys /\ (t.map[k] = i <=> k = t.vec[i])
<1>1. t.vec[i] \in Keys /\ t.map[t.vec[i]] = i
  BY DEF Tables, Coherent, Live
<1>2. i # Absent
  BY NotAnIndex DEF Live
<1> QED
  BY <1>1, <1>2 DEF Coherent

LEMMA RemovedFinite == Removed \subseteq Indexes /\ IsFiniteSet(Removed)
<1>1. IsFiniteSet(Indexes)
  BY FS_Interval, FlowTableAssumption DEF Indexes
<1>2. Removed \subseteq Indexes
  BY DEF Removed, Live
<1> QED
  BY <1>1, <1>2, FS_Subset

LEMMA ExpiratorInitial == ExpiratorInit => ExpiratorInv
<1> SUFFICES ASSUME ExpiratorInit PROVE ExpiratorInv
  OBVIOUS
<1>1. entry.heap \in [Indexes -> Times \cup {Free}] /\ entry.map \in [Keys -> Indexes \cup {Absent}]
  BY DEF ExpiratorInit, Tables
<1>2. Removed = {} /\ Erased = {}
  BY DEF ExpiratorInit, Removed, Erased, Live
<1>3. Cardinality({}) = 0
  BY FS_EmptySet
<1>4. border \in Int
  BY FlowTableAssumption DEF ExpiratorInit
<1> QED
  BY <1>1, <1>2, <1>3, <1>4 DEF ExpiratorInit, ExpiratorInv

\* The condition of the loop: the oldest index, if it is too old, is taken off
\* the chain; if it is not, no other is.
LEMMA ExpireOneStep ==
  ASSUME ExpiratorInv, dchain_expire_one_index
  PROVE  ExpiratorInv'
<1>1. /\ vector' = vector /\ map' = map /\ border' = border /\ count' = count
      /\ entry' = entry /\ pc = "loop"
  BY DEF dchain_expire_one_index
<1>2. Live(entry)' = Live(entry)
  BY <1>1 DEF Live
<1>3. Live(loop_table) = {i \in Indexes : chain[i] # Free}
  BY DEF Live, loop_table
<1>4. \A i \in Indexes : chain[i] # Free => i \in Live(entry) /\ chain[i] \in Int
  BY DEF ExpiratorInv, Live, Times, Free
<1>5. Erased = Removed
  BY <1>1 DEF Erased
<1>6. ASSUME NEW i \in Live(loop_table), chain[i] < border,
             chain' = [chain EXCEPT ![i] = Free], index' = i, pc' = "erase"
      PROVE  ExpiratorInv'
  <2>1. i \in Indexes /\ i \in Live(entry) /\ chain[i] # Free
    BY <1>3, <1>4, <1>6
  <2>2. Removed' = Removed \cup {i} /\ i \notin Removed
    BY <1>2, <1>6, <2>1 DEF ExpiratorInv, Removed, Live
  <2>3. Erased' = Erased
    BY <1>5, <1>6, <2>2 DEF Erased
  <2>4. chain' \in [Indexes -> Times \cup {Free}]
    BY <1>6 DEF ExpiratorInv
  <2>5. \A j \in Indexes : chain'[j] # Free => chain'[j] = entry.heap[j]
    BY <1>6, <2>1 DEF ExpiratorInv
  <2>6. \A j \in Removed' : entry.heap[j] < border
    BY <1>6, <2>1, <2>2 DEF ExpiratorInv
  <2> QED
    BY <1>1, <1>2, <1>6, <2>2, <2>3, <2>4, <2>5, <2>6 DEF ExpiratorInv
<1>7. ASSUME chain' = chain, pc' = "done",
             \A j \in Live(loop_table) : chain[j] >= border
      PROVE  ExpiratorInv'
  <2>1. Removed' = Removed /\ Erased' = Erased
    BY <1>1, <1>2, <1>5, <1>7 DEF Removed, Erased
  <2>2. ASSUME NEW j \in Live(entry), entry.heap[j] < border PROVE j \in Removed
    <3>1. j \in Indexes
      BY DEF Live
    <3>2. CASE chain[j] # Free
      <4>1. chain[j] >= border /\ chain[j] = entry.heap[j] /\ chain[j] \in Int /\ border \in Int
        BY <1>3, <1>4, <1>7, <3>1, <3>2 DEF ExpiratorInv
      <4> QED
        BY <2>2, <4>1
    <3> QED
      BY <3>2 DEF Removed
  <2> QED
    BY <1>1, <1>2, <1>7, <2>1, <2>2 DEF ExpiratorInv
<1>8. ASSUME NEW i \in Live(loop_table), Oldest(i), chain[i] >= border,
             chain' = chain, pc' = "done"
      PROVE  ExpiratorInv'
  <2>1. ASSUME NEW j \in Live(loop_table) PROVE chain[j] >= border
    <3>1. chain[i] <= chain[j] /\ chain[i] \in Int /\ chain[j] \in Int /\ border \in Int
      BY <1>3, <1>4, <1>8 DEF Oldest, ExpiratorInv
    <3> QED
      BY <1>8, <3>1
  <2> QED
    BY <1>7, <1>8, <2>1
<1>9. CASE Live(loop_table) = {} /\ pc' = "done" /\ chain' = chain
  BY <1>7, <1>9
<1> QED
  BY <1>6, <1>8, <1>9 DEF dchain_expire_one_index

\* The body of the loop: the key of the index taken off the chain is erased.
LEMMA EraseKeyStep ==
  ASSUME ExpiratorInv, EraseKey
  PROVE  ExpiratorInv'
<1>1. /\ vector' = vector /\ chain' = chain /\ border' = border /\ index' = index
      /\ entry' = entry /\ pc = "erase" /\ pc' = "loop" /\ count' = count + 1
      /\ map' = [map EXCEPT ![vector[index]] = Absent]
  BY DEF EraseKey
<1>2. Removed' = Removed /\ Erased' = Removed /\ Erased = Removed \ {index}
  BY <1>1 DEF Removed, Erased, Live
<1>3. index \in Removed /\ index \in Live(entry) /\ vector = entry.vec
  BY <1>1 DEF ExpiratorInv, Removed
<1>4. count' = Cardinality(Erased')
  <2>1. Cardinality(Removed \ {index}) = Cardinality(Removed) - 1 /\ Cardinality(Removed) \in Nat
    BY <1>3, RemovedFinite, FS_RemoveElement, FS_CardinalityType
  <2> QED
    BY <1>1, <1>2, <2>1 DEF ExpiratorInv
<1>5. ASSUME NEW k \in Keys
      PROVE  map'[k] = IF entry.map[k] \in Erased' THEN Absent ELSE entry.map[k]
  <2>1. entry.map[k] = index <=> k = vector[index]
    BY <1>3, OwnerOfKey DEF ExpiratorInv
  <2>2. map \in [Keys -> Indexes \cup {Absent}]
    BY DEF ExpiratorInv
  <2>3. map[k] = IF entry.map[k] \in Erased THEN Absent ELSE entry.map[k]
    BY DEF ExpiratorInv
  <2>4. CASE k = vector[index]
    BY <1>1, <1>2, <1>3, <2>1, <2>2, <2>4
  <2>5. CASE k # vector[index]
    BY <1>1, <1>2, <2>1, <2>2, <2>3, <2>5
  <2> QED
    BY <2>4, <2>5
<1>6. map' \in [Keys -> Indexes \cup {Absent}]
  BY <1>1 DEF ExpiratorInv
<1> QED
  BY <1>1, <1>2, <1>4, <1>5, <1>6 DEF ExpiratorInv

LEMMA ExpiratorInvariant == ExpiratorSpec => []ExpiratorInv
<1>1. ExpiratorInv /\ [ExpiratorNext]_expiratorVars => ExpiratorInv'
  <2> SUFFICES ASSUME ExpiratorInv, [ExpiratorNext]_expiratorVars PROVE ExpiratorInv'
    OBVIOUS
  <2>1. CASE UNCHANGED expiratorVars
    <3>1. Removed' = Removed /\ Erased' = Erased
      BY <2>1, Zenon DEF expiratorVars, Removed, Erased, Live
    <3> QED
      BY <2>1, <3>1, Zenon DEF expiratorVars, ExpiratorInv
  <2> QED
    BY <2>1, ExpireOneStep, EraseKeyStep DEF ExpiratorNext
<1> QED
  BY <1>1, ExpiratorInitial, PTL DEF ExpiratorSpec

\* What is left of a coherent table is the indexes not yet removed.
LEMMA LeftOnChain ==
  ASSUME ExpiratorInv
  PROVE  Live(loop_table) = Live(entry) \ Removed
<1>1. Live(loop_table) = {i \in Indexes : chain[i] # Free}
  BY DEF Live, loop_table
<1>2. \A i \in Indexes : chain[i] # Free => i \in Live(entry)
  BY DEF ExpiratorInv, Live
<1> QED
  BY <1>1, <1>2 DEF Removed, Live

\* expire_items_single_map calls map_erase only for keys of the map, and its
\* three structures are coherent each time it asks for the next index.
THEOREM LoopCoherent == ExpiratorSpec => []CoherentAtLoop
<1>1. ExpiratorInv => CoherentAtLoop
  <2> SUFFICES ASSUME ExpiratorInv PROVE CoherentAtLoop
    OBVIOUS
  <2>1. ASSUME pc = "erase" PROVE map[vector[index]] = index
    <3>1. index \in Removed /\ index \in Live(entry) /\ Erased = Removed \ {index}
      BY <2>1 DEF ExpiratorInv, Removed, Erased
    <3>2. vector[index] \in Keys /\ entry.map[vector[index]] = index
      BY <3>1 DEF ExpiratorInv, Coherent, Tables, Live
    <3> QED
      BY <3>1, <3>2 DEF ExpiratorInv
  <2>2. ASSUME pc # "erase" PROVE Coherent(loop_table)
    <3>1. \A k \in Keys : map[k] = IF entry.map[k] \in Removed THEN Absent ELSE entry.map[k]
      BY <2>2 DEF ExpiratorInv, Erased
    <3>2. Coherent(entry) /\ entry \in Tables /\ vector = entry.vec
      BY DEF ExpiratorInv
    <3>3. loop_table.map = map /\ loop_table.vec = vector
      BY DEF loop_table
    <3>4. ASSUME NEW i \in Live(loop_table) PROVE map[vector[i]] = i
      <4>1. i \in Live(entry) /\ i \notin Removed
        BY LeftOnChain
      <4>2. vector[i] \in Keys /\ entry.map[vector[i]] = i
        BY <3>2, <4>1 DEF Coherent, Tables, Live
      <4> QED
        BY <3>1, <4>1, <4>2
    <3>5. ASSUME NEW k \in Keys, map[k] # Absent
          PROVE  map[k] \in Live(loop_table) /\ vector[map[k]] = k
      <4>1. map[k] = entry.map[k] /\ entry.map[k] \notin Removed
        BY <3>1, <3>5
      <4>2. map[k] \in Live(entry) /\ vector[map[k]] = k
        BY <3>2, <3>5, <4>1 DEF Coherent
      <4> QED
        BY <4>1, <4>2, LeftOnChain
    <3> QED
      BY <3>3, <3>4, <3>5 DEF Coherent
  <2> QED
    BY <2>1, <2>2 DEF CoherentAtLoop
<1> QED
  BY <1>1, ExpiratorInvariant, PTL

\* When expire_items_single_map returns it has done what Expire says, the step
\* the network functions take before every packet, and it returns the number of
\* indexes it has freed.
THEOREM LoopExpires == ExpiratorSpec => []ExpiresExactly
<1>1. ExpiratorInv => ExpiresExactly
  <2> SUFFICES ASSUME ExpiratorInv, pc = "done"
               PROVE  /\ loop_table = Expire(entry, border)
                      /\ count = Cardinality(Live(entry) \ Live(loop_table))
    BY DEF ExpiresExactly
  <2> DEFINE gone == {i \in Live(entry) : entry.heap[i] < border}
             erased == {entry.vec[i] : i \in gone}
  <2>1. Removed = gone /\ Erased = Removed
    BY DEF ExpiratorInv, Removed, Erased
  <2>2. Live(entry) \ Live(loop_table) = Removed
    BY LeftOnChain DEF Removed
  <2>3. chain = [i \in Indexes |-> IF i \in gone THEN Free ELSE entry.heap[i]]
    <3>1. ASSUME NEW i \in Indexes
          PROVE  chain[i] = IF i \in gone THEN Free ELSE entry.heap[i]
      <4>1. i \in gone <=> i \in Live(entry) /\ chain[i] = Free
        BY <2>1 DEF Removed
      <4>2. chain[i] # Free => chain[i] = entry.heap[i]
        BY DEF ExpiratorInv
      <4> QED
        BY <4>1, <4>2 DEF Live
    <3>2. chain \in [Indexes -> Times \cup {Free}]
      BY DEF ExpiratorInv
    <3> HIDE DEF gone
    <3> QED
      BY <3>1, <3>2
  <2>4. map = [k \in Keys |-> IF k \in erased THEN Absent ELSE entry.map[k]]
    <3>1. ASSUME NEW k \in Keys PROVE k \in erased <=> entry.map[k] \in gone
      <4>1. \A i \in gone : entry.map[k] = i <=> k = entry.vec[i]
        BY OwnerOfKey DEF ExpiratorInv
      <4> HIDE DEF gone
      <4> QED
        BY <4>1
    <3>2. \A k \in Keys : map[k] = IF entry.map[k] \in gone THEN Absent ELSE entry.map[k]
      BY <2>1 DEF ExpiratorInv
    <3>3. map \in [Keys -> Indexes \cup {Absent}]
      BY DEF ExpiratorInv
    <3> HIDE DEF gone, erased
    <3> QED
      BY <3>1, <3>2, <3>3
  <2>5. /\ Expire(entry, border)
             = [entry EXCEPT
                  !.map = [k \in Keys |-> IF k \in erased THEN Absent ELSE entry.map[k]],
                  !.heap = [i \in Indexes |-> IF i \in gone THEN Free ELSE entry.heap[i]]]
    BY DEF Expire
  <2>6. entry = [map |-> entry.map, vec |-> entry.vec, heap |-> entry.heap]
    BY DEF ExpiratorInv, Tables
  <2>7. vector = entry.vec /\ count = Cardinality(Erased)
    BY DEF ExpiratorInv
  <2> HIDE DEF gone, erased
  <2>8. loop_table = Expire(entry, border)
    BY <2>3, <2>4, <2>5, <2>6, <2>7 DEF loop_table
  <2> QED
    BY <2>1, <2>2, <2>7, <2>8
<1> QED
  BY <1>1, ExpiratorInvariant, PTL
=============================================================================
