--------------------------- MODULE BalancerProofs ---------------------------
(***************************************************************************)
(* The load balancers that remember their connections.  VigLB, for tables  *)
(* of any sizes, any flows and backends, any expiration times and any hash *)
(* table: the tables of the backends stay coherent, the map of the flows   *)
(* leads to the index of the flow although flows are erased from it        *)
(* without freeing their index, and a flow stays with its backend while    *)
(* that backend is active.  Katran, for any number of cores, flows and     *)
(* servers, caches of any size and any timeouts: a connection stays with   *)
(* its server, and a flood enters no more than the limit in a cache.       *)
(***************************************************************************)
EXTENDS Balancer, FlowTableProofs, Katran

\* The lemmas about flow tables, for the table of the backends.
BP == INSTANCE FlowTableProofs WITH Keys <- Ips, Capacity <- BackendCapacity

TypeOK ==
  /\ flows \in Tables
  /\ flow_id_to_backend_id \in [Indexes -> BackendIds]
  /\ active \in BP!Tables
  /\ backends \in [BackendIds -> [ip : Ips, nic : Nics]]
  /\ now \in Times
  /\ heard \in BP!Stamps
  /\ served \in [Keys -> Ips \cup {None}]

\* The backends that are active are those whose heartbeat is recent, and the
\* copy of their address is right.
Known(b, border) ==
  /\ b \in BP!Tables
  /\ BP!Tracks(b, heard, border)
  /\ \A i \in BP!Live(b) : i \in BackendIds /\ backends[i].ip = b.vec[i]

\* The map of t leads from a flow to an index that holds it.
LeadsHome(t) ==
  \A f \in Keys : t.map[f] # Absent => t.map[f] \in Live(t) /\ t.vec[t.map[f]] = f

\* A flow of t that was served is assigned to the index of the backend that
\* served it, which is active in b.  The address in backends alone would not be
\* inductive: the index of a backend that expired is given to another one.
Assigned(t, b, serving) ==
  \A f \in Keys : serving[f] # None =>
    /\ b.map[serving[f]] # Absent
    /\ t.map[f] # Absent => flow_id_to_backend_id[t.map[f]] = b.map[serving[f]]

LbInv ==
  /\ TypeOK
  /\ Known(active, now - BackendExpiration)
  /\ LeadsHome(flows)
  /\ Assigned(flows, active, served)

-----------------------------------------------------------------------------
(* The two tables.                                                         *)

LEMMA Sizes ==
  /\ BP!FlowTableAssumption
  /\ BackendIds \subseteq Indexes
  /\ BackendExpiration \in Nat /\ FlowExpiration \in Nat /\ MaxTime \in Nat
BY BalancerAssumption, FlowTableAssumption DEF BP!FlowTableAssumption, BackendIds, Indexes

\* B and BP instantiate the same module.
LEMMA Backends ==
  /\ BP!Indexes = BackendIds /\ BP!Times = Times /\ BP!Absent = Absent /\ BP!Free = Free
  /\ B!Tables = BP!Tables
  /\ \A t : B!Live(t) = BP!Live(t) /\ (B!Coherent(t) <=> BP!Coherent(t))
  /\ \A t : B!Empty(t) <=> BP!Empty(t)
  /\ \A t, border : B!Expire(t, border) = BP!Expire(t, border)
  /\ \A t, i, time : B!Rejuvenate(t, i, time) = BP!Rejuvenate(t, i, time)
  /\ \A t, k, i, time : B!Insert(t, k, i, time) = BP!Insert(t, k, i, time)
<1>1. /\ BP!Indexes = BackendIds /\ BP!Times = Times /\ BP!Absent = Absent /\ BP!Free = Free
      /\ B!Indexes = BP!Indexes /\ B!Times = BP!Times /\ B!Absent = BP!Absent /\ B!Free = BP!Free
  BY Zenon DEF BP!Indexes, BP!Times, BP!Absent, BP!Free, B!Indexes, B!Times, B!Absent, B!Free,
         BackendIds, Times, Absent, Free
<1>2. \A t : B!Live(t) = BP!Live(t)
  BY <1>1, Zenon DEF B!Live, BP!Live
<1>3. B!Tables = BP!Tables
  BY <1>1, Zenon DEF B!Tables, BP!Tables
<1>4. \A t : (B!Coherent(t) <=> BP!Coherent(t)) /\ (B!Empty(t) <=> BP!Empty(t))
  BY <1>1, <1>2, Zenon DEF B!Coherent, BP!Coherent, B!Empty, BP!Empty
<1>5. \A t, border : B!Expire(t, border) = BP!Expire(t, border)
  BY <1>1, <1>2, Zenon DEF B!Expire, BP!Expire
<1>6. \A t, i, time : B!Rejuvenate(t, i, time) = BP!Rejuvenate(t, i, time)
  BY <1>1, Zenon DEF B!Rejuvenate, BP!Rejuvenate
<1>7. \A t, k, i, time : B!Insert(t, k, i, time) = BP!Insert(t, k, i, time)
  BY Zenon DEF B!Insert, BP!Insert
<1> QED
  BY <1>1, <1>2, <1>3, <1>4, <1>5, <1>6, <1>7, Zenon

\* An expired flow takes its entry in the map with it.  (lb_expire_flows)
LEMMA ExpireLeads ==
  ASSUME NEW t \in Tables, LeadsHome(t), NEW border \in Int
  PROVE  /\ Expire(t, border) \in Tables /\ LeadsHome(Expire(t, border))
         /\ \A f \in Keys : Expire(t, border).map[f] # Absent => Expire(t, border).map[f] = t.map[f]
<1> DEFINE gone == {i \in Live(t) : t.heap[i] < border}
           e == Expire(t, border)
<1>1. /\ e.map = [k \in Keys |-> IF k \in {t.vec[i] : i \in gone} THEN Absent ELSE t.map[k]]
      /\ e.vec = t.vec
      /\ e.heap = [i \in Indexes |-> IF i \in gone THEN Free ELSE t.heap[i]]
  BY Zenon DEF Expire, Tables
<1>2. Live(e) = Live(t) \ gone
  BY <1>1, Zenon DEF Live, Free, Tables
<1>3. e \in Tables
  BY ExpireType, Zenon
<1> HIDE DEF e
<1>4. ASSUME NEW f \in Keys, e.map[f] # Absent
      PROVE  e.map[f] = t.map[f] /\ t.map[f] \in Live(e) /\ e.vec[t.map[f]] = f
  <2>1. e.map[f] = t.map[f] /\ f \notin {t.vec[i] : i \in gone}
    BY <1>1, <1>4, Zenon
  <2>2. t.map[f] \in Live(t) /\ t.vec[t.map[f]] = f
    BY <1>4, <2>1, Zenon DEF LeadsHome
  <2> QED
    BY <1>1, <1>2, <2>1, <2>2, Zenon
<1> QED
  BY <1>3, <1>4, Zenon DEF LeadsHome, e

\* Whatever index is rejuvenated, the same indexes stay allocated.
LEMMA RejuvenateLeads ==
  ASSUME NEW t \in Tables, LeadsHome(t), NEW i \in Indexes, NEW time \in Times
  PROVE  /\ Rejuvenate(t, i, time) \in Tables /\ LeadsHome(Rejuvenate(t, i, time))
         /\ Rejuvenate(t, i, time).map = t.map
<1> DEFINE n == Rejuvenate(t, i, time)
<1>1. n.map = t.map /\ n.vec = t.vec /\ n.heap = [t.heap EXCEPT ![i] = IF @ = Free THEN Free ELSE time]
  BY Zenon DEF Rejuvenate, Tables
<1>2. time # Free
  BY FlowTableAssumption DEF Times, Free
<1>3. Live(n) = Live(t)
  BY <1>1, <1>2, Zenon DEF Live, Tables
<1>4. n \in Tables
  BY RejuvenateType, Zenon
<1> HIDE DEF n
<1> QED
  BY <1>1, <1>3, <1>4, Zenon DEF LeadsHome, n

\* A flow is erased from the map; its index stays allocated.
LEMMA EraseLeads ==
  ASSUME NEW t \in Tables, LeadsHome(t), NEW f \in Keys
  PROVE  LET e == [t EXCEPT !.map[f] = Absent]
         IN  /\ e \in Tables /\ LeadsHome(e) /\ Live(e) = Live(t)
             /\ e.map[f] = Absent /\ \A g \in Keys : g # f => e.map[g] = t.map[g]
<1> DEFINE e == [t EXCEPT !.map[f] = Absent]
<1>1. e.map = [t.map EXCEPT ![f] = Absent] /\ e.vec = t.vec /\ e.heap = t.heap
  BY Zenon DEF Tables
<1>2. e \in Tables
  BY Zenon DEF Tables
<1>3. Live(e) = Live(t)
  BY <1>1, Zenon DEF Live
<1>4. e.map[f] = Absent /\ \A g \in Keys : g # f => e.map[g] = t.map[g]
  BY <1>1, Zenon DEF Tables
<1> HIDE DEF e
<1>5. LeadsHome(e)
  BY <1>1, <1>3, <1>4, Zenon DEF LeadsHome
<1> QED
  BY <1>2, <1>3, <1>4, <1>5, Zenon DEF e

\* A flow that is not in the map is given an index that is free.
LEMMA InsertLeads ==
  ASSUME NEW t \in Tables, LeadsHome(t), NEW f \in Keys, NEW i \in Indexes \ Live(t), NEW time \in Times
  PROVE  LET n == Insert(t, f, i, time)
         IN  /\ n \in Tables /\ LeadsHome(n)
             /\ n.map[f] = i /\ \A g \in Keys : g # f => n.map[g] = t.map[g] /\ t.map[g] # i
<1> DEFINE n == Insert(t, f, i, time)
<1>1. /\ n.map = [t.map EXCEPT ![f] = i]
      /\ n.vec = [t.vec EXCEPT ![i] = f]
      /\ n.heap = [t.heap EXCEPT ![i] = time]
  BY Zenon DEF Insert, Tables
<1>2. n \in Tables
  BY InsertType, Zenon
<1>3. time # Free /\ i # Absent
  BY FlowTableAssumption DEF Times, Free, Indexes, Absent
<1>4. Live(n) = Live(t) \cup {i}
  BY <1>1, <1>3 DEF Live, Tables
<1>5. n.map[f] = i /\ n.vec[i] = f /\ i \in Live(n)
  BY <1>1, <1>4, Zenon DEF Tables
<1>6. ASSUME NEW g \in Keys, g # f
      PROVE  /\ n.map[g] = t.map[g] /\ t.map[g] # i
             /\ n.map[g] # Absent => n.map[g] \in Live(n) /\ n.vec[n.map[g]] = g
  <2>1. n.map[g] = t.map[g]
    BY <1>1, <1>6, Zenon DEF Tables
  <2>2. t.map[g] # Absent => t.map[g] \in Live(t) /\ t.vec[t.map[g]] = g
    BY Zenon DEF LeadsHome
  <2>3. t.map[g] # i
    BY <1>3, <2>2, Zenon
  <2>4. t.map[g] # Absent => n.vec[t.map[g]] = t.vec[t.map[g]]
    BY <1>1, <2>2, <2>3, Zenon DEF Tables, Live
  <2> QED
    BY <1>4, <2>1, <2>2, <2>3, <2>4, Zenon
<1> HIDE DEF n
<1> QED
  BY <1>2, <1>5, <1>6, Zenon DEF LeadsHome, n

-----------------------------------------------------------------------------
(* nf_core_process.                                                        *)

\* What an expiry of the backends leaves.
LEMMA ExpireBackends ==
  ASSUME NEW b \in BP!Tables, NEW border \in Int
  PROVE  LET e == BP!Expire(b, border)
         IN  /\ e \in BP!Tables /\ e.vec = b.vec
             /\ BP!Live(e) \subseteq BP!Live(b)
             /\ \A ip \in Ips : e.map[ip] # Absent => e.map[ip] = b.map[ip]
<1> DEFINE gone == {i \in BP!Live(b) : b.heap[i] < border}
           e == BP!Expire(b, border)
<1>1. /\ e.map = [k \in Ips |-> IF k \in {b.vec[i] : i \in gone} THEN Absent ELSE b.map[k]]
      /\ e.vec = b.vec
      /\ e.heap = [i \in BackendIds |-> IF i \in gone THEN Free ELSE b.heap[i]]
  BY Backends, Zenon DEF BP!Expire, BP!Tables
<1>2. e \in BP!Tables
  BY Sizes, BP!ExpireType, Zenon
<1> HIDE DEF e
<1>3. BP!Live(e) \subseteq BP!Live(b)
  BY <1>1, Backends, Zenon DEF BP!Live
<1> QED
  BY <1>1, <1>2, <1>3, Zenon DEF e

\* What every packet starts with: both tables are expired.
LEMMA Expired ==
  ASSUME LbInv, NEW time \in now .. MaxTime
  PROVE  /\ time \in Times /\ time \in Int /\ time - BackendExpiration \in Int
         /\ time >= time - BackendExpiration
         /\ Known(lb_expire_backends(time), time - BackendExpiration)
         /\ lb_expire_flows(time) \in Tables /\ LeadsHome(lb_expire_flows(time))
         /\ StillServed(time) \in [Keys -> Ips \cup {None}]
         /\ Assigned(lb_expire_flows(time), lb_expire_backends(time), StillServed(time))
<1> DEFINE t == lb_expire_flows(time)
           b == lb_expire_backends(time)
           s == StillServed(time)
           border == time - BackendExpiration
<1>1. /\ time \in Times /\ time \in Int /\ border \in Int /\ time >= border
      /\ now - BackendExpiration \in Int /\ now - BackendExpiration <= border
      /\ time - FlowExpiration \in Int
  BY Sizes DEF LbInv, TypeOK, Times
<1>2. b = BP!Expire(active, border)
  BY Backends, Zenon DEF lb_expire_backends
<1>3. active \in BP!Tables /\ heard \in BP!Stamps
  BY Zenon DEF LbInv, TypeOK
<1> HIDE DEF border
<1>4. BP!Tracks(b, heard, border)
  <2>1. BP!Tracks(active, heard, now - BackendExpiration)
    BY Zenon DEF LbInv, Known
  <2> QED
    BY <1>1, <1>2, <1>3, <2>1, Sizes, BP!ExpireTracks, Zenon
<1>5. /\ t \in Tables /\ LeadsHome(t)
      /\ \A f \in Keys : t.map[f] # Absent => t.map[f] = flows.map[f]
  BY <1>1, ExpireLeads, Zenon DEF lb_expire_flows, LbInv, TypeOK
<1>6. s = [f \in Keys |-> IF served[f] # None /\ b.map[served[f]] = Absent THEN None ELSE served[f]]
  BY Zenon DEF StillServed
<1> HIDE DEF t, b, s
<1>7. /\ b \in BP!Tables /\ b.vec = active.vec /\ BP!Live(b) \subseteq BP!Live(active)
      /\ \A ip \in Ips : b.map[ip] # Absent => b.map[ip] = active.map[ip]
  BY <1>1, <1>2, <1>3, ExpireBackends, Zenon
<1>8. Known(b, border)
  BY <1>4, <1>7, Zenon DEF LbInv, Known
<1>9. s \in [Keys -> Ips \cup {None}]
  BY <1>6, Zenon DEF LbInv, TypeOK
<1>10. Assigned(t, b, s)
  <2> SUFFICES ASSUME NEW f \in Keys, s[f] # None
               PROVE  /\ b.map[s[f]] # Absent
                      /\ t.map[f] # Absent => flow_id_to_backend_id[t.map[f]] = b.map[s[f]]
    BY Zenon DEF Assigned
  <2>1. s[f] = served[f] /\ b.map[s[f]] # Absent /\ s[f] \in Ips
    BY <1>6, <1>9, Zenon
  <2>2. /\ active.map[served[f]] # Absent
        /\ flows.map[f] # Absent => flow_id_to_backend_id[flows.map[f]] = active.map[served[f]]
    BY <2>1, Zenon DEF LbInv, Assigned
  <2> QED
    BY <1>7, <1>5, <2>1, <2>2, Zenon
<1> QED
  BY <1>1, <1>5, <1>8, <1>9, <1>10, Zenon DEF t, b, s, border

\* The hash table names a backend that is active, or none.
LEMMA PreferredActive ==
  ASSUME NEW f, NEW ids
  PROVE  preferred(f, ids) \in ids \cup {-1}
<1> DEFINE Candidate(k) == cht[(flow_hash[f] + k) % ChtHeight]
           First(k) == Candidate(k) \in ids /\ \A l \in 0 .. k - 1 : Candidate(l) \notin ids
<1>1. preferred(f, ids) = IF \E k \in BackendIds : First(k)
                          THEN Candidate(CHOOSE k \in BackendIds : First(k)) ELSE -1
  BY Zenon DEF preferred
<1>2. ASSUME \E k \in BackendIds : First(k)
      PROVE  Candidate(CHOOSE k \in BackendIds : First(k)) \in ids
  <2>1. First(CHOOSE k \in BackendIds : First(k))
    BY <1>2, Zenon
  <2> QED
    BY <2>1, Zenon
<1> HIDE DEF Candidate, First
<1> QED
  BY <1>1, <1>2, Zenon

\* An active backend is where the map leads to from its address, and its
\* heartbeat is recent.
LEMMA ActiveBackend ==
  ASSUME NEW b, NEW border \in Int, Known(b, border), backends \in [BackendIds -> [ip : Ips, nic : Nics]],
         NEW id \in BP!Live(b)
  PROVE  /\ id \in BackendIds /\ id # Absent /\ backends[id].ip \in Ips
         /\ b.map[backends[id].ip] = id
         /\ heard[backends[id].ip] >= border
<1>1. id \in BackendIds /\ backends[id].ip = b.vec[id] /\ backends[id].ip \in Ips
  BY Zenon DEF Known
<1>2. b.map[b.vec[id]] = id
  BY Zenon DEF Known, BP!Tracks, BP!Coherent
<1>3. id # Absent
  BY <1>1, Sizes DEF BackendIds, Absent
<1>4. heard[backends[id].ip] >= border
  BY <1>1, <1>2, <1>3, Backends, Zenon DEF Known, BP!Tracks
<1> QED
  BY <1>1, <1>2, <1>3, <1>4, Zenon

\* A packet of flow f that no entry of the map is found for.
LEMMA NewFlowStep ==
  ASSUME NEW t \in Tables, LeadsHome(t), NEW b, NEW time \in Times, NEW border \in Int, Known(b, border),
         NEW f \in Keys, t.map[f] = Absent,
         StillServed(time) \in [Keys -> Ips \cup {None}], Assigned(t, b, StillServed(time)),
         TypeOK, NewFlow(f, t, b, time)
  PROVE  /\ flows' \in Tables /\ LeadsHome(flows)'
         /\ flow_id_to_backend_id' \in [Indexes -> BackendIds]
         /\ served' \in [Keys -> Ips \cup {None}]
         /\ \A g \in Keys : served'[g] # None =>
              /\ b.map[served'[g]] # Absent
              /\ flows'.map[g] # Absent => flow_id_to_backend_id'[flows'.map[g]] = b.map[served'[g]]
         /\ out'.to = "backend" => heard[out'.ip] >= border
<1> DEFINE id == preferred(f, B!Live(b))
           s == StillServed(time)
<1>1. LeadsHome(flows)' <=> LeadsHome(flows')
  BY Zenon DEF LeadsHome, Live, Indexes, Absent, Free
<1>2. \A g \in Keys : s[g] # None =>
         /\ b.map[s[g]] # Absent
         /\ t.map[g] # Absent => flow_id_to_backend_id[t.map[g]] = b.map[s[g]]
  BY Zenon DEF Assigned
<1>3. \/ /\ id = -1 /\ flows' = t /\ out' = Drop /\ served' = s /\ UNCHANGED flow_id_to_backend_id
      \/ /\ id # -1
         /\ out' = ToBackend(f, backends[id])
         /\ served' = [s EXCEPT ![f] = backends[id].ip]
         /\ \/ \E i \in Indexes \ Live(t) :
                 /\ flows' = Insert(t, f, i, time)
                 /\ flow_id_to_backend_id' = [flow_id_to_backend_id EXCEPT ![i] = id]
            \/ /\ flows' = t /\ UNCHANGED flow_id_to_backend_id
  BY Zenon DEF NewFlow
<1>4. id \in BP!Live(b) \cup {-1}
  BY PreferredActive, Backends, Zenon
<1> HIDE DEF id, s
<1>5. s \in [Keys -> Ips \cup {None}]
  BY Zenon DEF s
<1>6. CASE id = -1 /\ flows' = t /\ out' = Drop /\ served' = s /\ UNCHANGED flow_id_to_backend_id
  BY <1>1, <1>2, <1>5, <1>6, Zenon DEF TypeOK, Drop
<1>7. CASE /\ id # -1
           /\ out' = ToBackend(f, backends[id])
           /\ served' = [s EXCEPT ![f] = backends[id].ip]
           /\ \/ \E i \in Indexes \ Live(t) :
                   /\ flows' = Insert(t, f, i, time)
                   /\ flow_id_to_backend_id' = [flow_id_to_backend_id EXCEPT ![i] = id]
              \/ /\ flows' = t /\ UNCHANGED flow_id_to_backend_id
  <2>1. /\ id \in BackendIds /\ id # Absent /\ backends[id].ip \in Ips
        /\ b.map[backends[id].ip] = id /\ heard[backends[id].ip] >= border
    BY <1>4, <1>7, ActiveBackend, Zenon DEF TypeOK
  <2>2. /\ served' \in [Keys -> Ips \cup {None}] /\ served'[f] = backends[id].ip
        /\ \A g \in Keys : g # f => served'[g] = s[g]
    BY <1>5, <1>7, <2>1, Zenon
  <2>3. out'.to = "backend" => heard[out'.ip] >= border
    BY <1>7, <2>1, Zenon DEF ToBackend
  <2>4. ASSUME NEW i \in Indexes \ Live(t), flows' = Insert(t, f, i, time),
               flow_id_to_backend_id' = [flow_id_to_backend_id EXCEPT ![i] = id]
        PROVE  /\ flows' \in Tables /\ LeadsHome(flows')
               /\ flow_id_to_backend_id' \in [Indexes -> BackendIds]
               /\ \A g \in Keys : served'[g] # None =>
                    /\ b.map[served'[g]] # Absent
                    /\ flows'.map[g] # Absent => flow_id_to_backend_id'[flows'.map[g]] = b.map[served'[g]]
    <3>1. /\ flows' \in Tables /\ LeadsHome(flows') /\ flows'.map[f] = i
          /\ \A g \in Keys : g # f => flows'.map[g] = t.map[g] /\ t.map[g] # i
      BY <2>4, InsertLeads
    <3>2. flow_id_to_backend_id' \in [Indexes -> BackendIds] /\ flow_id_to_backend_id'[i] = id
      BY <2>1, <2>4, Zenon DEF TypeOK
    <3>3. ASSUME NEW g \in Keys, served'[g] # None
          PROVE  /\ b.map[served'[g]] # Absent
                 /\ flows'.map[g] # Absent => flow_id_to_backend_id'[flows'.map[g]] = b.map[served'[g]]
      <4>1. CASE g = f
        BY <2>1, <2>2, <3>1, <3>2, <4>1, Zenon
      <4>2. CASE g # f
        <5>1. t.map[g] # Absent => t.map[g] \in Indexes
          BY Zenon DEF Tables
        <5>2. t.map[g] # Absent => flow_id_to_backend_id'[t.map[g]] = flow_id_to_backend_id[t.map[g]]
          BY <2>4, <3>1, <4>2, <5>1, Zenon DEF TypeOK
        <5> QED
          BY <1>2, <2>2, <3>1, <3>3, <4>2, <5>2, Zenon
      <4> QED
        BY <4>1, <4>2, Zenon
    <3> QED
      BY <3>1, <3>2, <3>3, Zenon
  <2>5. ASSUME flows' = t, UNCHANGED flow_id_to_backend_id
        PROVE  \A g \in Keys : served'[g] # None =>
                 /\ b.map[served'[g]] # Absent
                 /\ flows'.map[g] # Absent => flow_id_to_backend_id'[flows'.map[g]] = b.map[served'[g]]
    <3> SUFFICES ASSUME NEW g \in Keys, served'[g] # None
                 PROVE  /\ b.map[served'[g]] # Absent
                        /\ t.map[g] # Absent => flow_id_to_backend_id[t.map[g]] = b.map[served'[g]]
      BY <2>5, Zenon
    <3>1. CASE g = f
      BY <2>1, <2>2, <3>1, Zenon
    <3>2. CASE g # f
      BY <1>2, <2>2, <3>2, Zenon
    <3> QED
      BY <3>1, <3>2, Zenon
  <2>6. CASE flows' = t /\ UNCHANGED flow_id_to_backend_id
    BY <1>1, <2>2, <2>3, <2>5, <2>6, Zenon DEF TypeOK
  <2>7. CASE \E i \in Indexes \ Live(t) :
                   /\ flows' = Insert(t, f, i, time)
                   /\ flow_id_to_backend_id' = [flow_id_to_backend_id EXCEPT ![i] = id]
    BY <1>1, <2>2, <2>3, <2>4, <2>7, Zenon
  <2> QED
    BY <1>7, <2>6, <2>7, Zenon
<1> QED
  BY <1>3, <1>6, <1>7, Zenon

\* A client's packet.
LEMMA GetBackendStep ==
  ASSUME LbInv, NEW time \in now .. MaxTime, now' = time, NEW f \in Keys, lb_get_backend(f, time)
  PROVE  LbInv' /\ (out'.to = "backend" => heard[out'.ip] >= time - BackendExpiration)
<1> DEFINE t == lb_expire_flows(time)
           b == lb_expire_backends(time)
           s == StillServed(time)
           border == time - BackendExpiration
           id == flow_id_to_backend_id[t.map[f]]
           e == [t EXCEPT !.map[f] = Absent]
<1>1. /\ time \in Times /\ border \in Int /\ Known(b, border)
      /\ t \in Tables /\ LeadsHome(t)
      /\ s \in [Keys -> Ips \cup {None}] /\ Assigned(t, b, s)
  BY Expired, Zenon
<1>2. /\ active' = b /\ UNCHANGED <<backends, heard>>
      /\ \/ /\ t.map[f] # Absent /\ id \in B!Live(b)
            /\ flows' = Rejuvenate(t, id, time)
            /\ out' = ToBackend(f, backends[id])
            /\ served' = [s EXCEPT ![f] = backends[id].ip]
            /\ UNCHANGED flow_id_to_backend_id
         \/ NewFlow(f, e, b, time)
         \/ t.map[f] = Absent /\ NewFlow(f, t, b, time)
  BY Zenon DEF lb_get_backend
<1>3. TypeOK
  BY Zenon DEF LbInv
<1> DEFINE Good ==
             /\ flows' \in Tables /\ LeadsHome(flows)'
             /\ flow_id_to_backend_id' \in [Indexes -> BackendIds]
             /\ served' \in [Keys -> Ips \cup {None}]
             /\ \A g \in Keys : served'[g] # None =>
                  /\ b.map[served'[g]] # Absent
                  /\ flows'.map[g] # Absent => flow_id_to_backend_id'[flows'.map[g]] = b.map[served'[g]]
             /\ out'.to = "backend" => heard[out'.ip] >= border
<1>4. ASSUME t.map[f] = Absent, NewFlow(f, t, b, time) PROVE Good
  BY <1>1, <1>3, <1>4, NewFlowStep, Zenon
<1>5. ASSUME NewFlow(f, e, b, time) PROVE Good
  <2>1. /\ e \in Tables /\ LeadsHome(e) /\ e.map[f] = Absent
        /\ \A g \in Keys : g # f => e.map[g] = t.map[g]
    BY <1>1, EraseLeads, Zenon
  <2> HIDE DEF e
  <2>2. Assigned(e, b, s)
    BY <1>1, <2>1, Zenon DEF Assigned
  <2> QED
    BY <1>1, <1>3, <1>5, <2>1, <2>2, NewFlowStep, Zenon
<1>6. ASSUME t.map[f] # Absent, id \in B!Live(b),
             flows' = Rejuvenate(t, id, time),
             out' = ToBackend(f, backends[id]),
             served' = [s EXCEPT ![f] = backends[id].ip],
             UNCHANGED flow_id_to_backend_id
      PROVE  Good
  <2> HIDE DEF t, b, s, border, e
  <2>1. id \in BP!Live(b)
    BY <1>6, Backends, Zenon
  <2>2. /\ id \in BackendIds /\ id # Absent /\ backends[id].ip \in Ips
        /\ b.map[backends[id].ip] = id /\ heard[backends[id].ip] >= border
    BY <1>1, <1>3, <2>1, ActiveBackend, Zenon DEF TypeOK
  <2>3. flows' \in Tables /\ LeadsHome(flows') /\ flows'.map = t.map
    BY <1>1, <1>6, <2>2, Sizes, RejuvenateLeads, Zenon
  <2>4. /\ served' \in [Keys -> Ips \cup {None}] /\ served'[f] = backends[id].ip
        /\ \A g \in Keys : g # f => served'[g] = s[g]
    BY <1>1, <1>6, <2>2, Zenon
  <2>5. ASSUME NEW g \in Keys, served'[g] # None
        PROVE  /\ b.map[served'[g]] # Absent
               /\ flows'.map[g] # Absent => flow_id_to_backend_id'[flows'.map[g]] = b.map[served'[g]]
    <3>1. CASE g = f
      BY <1>6, <2>2, <2>3, <2>4, <3>1, Zenon
    <3>2. CASE g # f
      BY <1>1, <1>6, <2>3, <2>4, <2>5, <3>2, Zenon DEF Assigned
    <3> QED
      BY <3>1, <3>2, Zenon
  <2>6. LeadsHome(flows)'
    BY <2>3, Zenon DEF LeadsHome, Live, Indexes, Absent, Free
  <2>7. out'.to = "backend" => heard[out'.ip] >= border
    BY <1>6, <2>2, Zenon DEF ToBackend
  <2>8. flow_id_to_backend_id' \in [Indexes -> BackendIds]
    BY <1>3, <1>6, Zenon DEF TypeOK
  <2> QED
    BY <2>3, <2>4, <2>5, <2>6, <2>7, <2>8, Zenon
<1>7. Good
  BY <1>2, <1>4, <1>5, <1>6, Zenon
<1> HIDE DEF t, b, s, e, id
<1>8. Known(active, now - BackendExpiration)'
  BY <1>1, <1>2, Backends, Zenon DEF Known, Sizes, BackendIds, BP!Live, BP!Indexes, BP!Free
<1>9. TypeOK'
  BY <1>1, <1>2, <1>3, <1>7, Zenon DEF TypeOK, Known
<1>10. Assigned(flows, active, served)'
  BY <1>2, <1>7, Zenon DEF Assigned, None, Absent
<1> QED
  BY <1>7, <1>8, <1>9, <1>10, Zenon DEF LbInv

\* A step that leaves the flows to expire and changes the backends, so that
\* those of the served flows stay where they are.
LEMMA BackendStep ==
  ASSUME LbInv, NEW time \in now .. MaxTime, now' = time,
         flows' = lb_expire_flows(time), served' = StillServed(time), UNCHANGED flow_id_to_backend_id,
         active' \in BP!Tables, heard' \in BP!Stamps, backends' \in [BackendIds -> [ip : Ips, nic : Nics]],
         BP!Tracks(active', heard', time - BackendExpiration),
         \A i \in BP!Live(active') : backends'[i].ip = active'.vec[i],
         \A ip \in Ips : lb_expire_backends(time).map[ip] # Absent
                           => active'.map[ip] = lb_expire_backends(time).map[ip]
  PROVE  LbInv'
<1>1. /\ time \in Times /\ flows' \in Tables /\ LeadsHome(flows')
      /\ served' \in [Keys -> Ips \cup {None}]
      /\ Assigned(flows', lb_expire_backends(time), served')
  BY Expired, Zenon
<1>2. TypeOK'
  BY <1>1, Zenon DEF LbInv, TypeOK
<1>3. Known(active, now - BackendExpiration)'
  BY Backends, Zenon DEF Known, BP!Live, BP!Indexes, BP!Free, BackendIds
<1>4. LeadsHome(flows)'
  BY <1>1, Zenon DEF LeadsHome, Live, Indexes, Absent, Free
<1>5. ASSUME NEW f \in Keys, served'[f] # None
      PROVE  /\ active'.map[served'[f]] # Absent
             /\ flows'.map[f] # Absent => flow_id_to_backend_id'[flows'.map[f]] = active'.map[served'[f]]
  <2>1. served'[f] \in Ips
    BY <1>1, <1>5, Zenon
  <2>2. /\ lb_expire_backends(time).map[served'[f]] # Absent
        /\ flows'.map[f] # Absent => flow_id_to_backend_id[flows'.map[f]] = lb_expire_backends(time).map[served'[f]]
    BY <1>1, <1>5, Zenon DEF Assigned
  <2> QED
    BY <2>1, <2>2, Zenon
<1>6. Assigned(flows, active, served)'
  BY <1>5, Zenon DEF Assigned, None, Absent
<1> QED
  BY <1>2, <1>3, <1>4, <1>6, Zenon DEF LbInv

LEMMA HeartbeatStep ==
  ASSUME LbInv, NEW time \in now .. MaxTime, now' = time, NEW ip \in Ips, NEW nic \in Nics,
         lb_process_heartbit(ip, nic, time)
  PROVE  LbInv'
<1> DEFINE b == lb_expire_backends(time)
           border == time - BackendExpiration
<1>1. /\ time \in Times /\ border \in Int /\ time >= border /\ Known(b, border)
  BY Expired, Zenon
<1>2. /\ flows' = lb_expire_flows(time) /\ served' = StillServed(time) /\ UNCHANGED flow_id_to_backend_id
      /\ \/ /\ b.map[ip] # Absent
            /\ active' = B!Rejuvenate(b, b.map[ip], time)
            /\ heard' = [heard EXCEPT ![ip] = time]
            /\ UNCHANGED backends
         \/ /\ b.map[ip] = Absent
            /\ \E i \in BackendIds \ B!Live(b) :
                 /\ active' = B!Insert(b, ip, i, time)
                 /\ backends' = [backends EXCEPT ![i] = [ip |-> ip, nic |-> nic]]
            /\ heard' = [heard EXCEPT ![ip] = time]
         \/ active' = b /\ UNCHANGED <<backends, heard>>
  BY Zenon DEF lb_process_heartbit
<1>3. heard \in BP!Stamps /\ backends \in [BackendIds -> [ip : Ips, nic : Nics]]
  BY Zenon DEF LbInv, TypeOK
<1> HIDE DEF b, border
<1>4. /\ b \in BP!Tables /\ BP!Tracks(b, heard, border)
      /\ \A i \in BP!Live(b) : i \in BackendIds /\ backends[i].ip = b.vec[i]
  BY <1>1, Zenon DEF Known
<1>5. [heard EXCEPT ![ip] = time] \in BP!Stamps
  BY <1>1, <1>3, Backends, Zenon DEF BP!Stamps
<1> DEFINE Good == /\ active' \in BP!Tables /\ heard' \in BP!Stamps
                   /\ backends' \in [BackendIds -> [ip : Ips, nic : Nics]]
                   /\ BP!Tracks(active', heard', border)
                   /\ \A i \in BP!Live(active') : backends'[i].ip = active'.vec[i]
                   /\ \A a \in Ips : b.map[a] # Absent => active'.map[a] = b.map[a]
<1>6. ASSUME active' = b, UNCHANGED <<backends, heard>> PROVE Good
  BY <1>3, <1>4, <1>6, Zenon
<1>7. ASSUME b.map[ip] # Absent, active' = B!Rejuvenate(b, b.map[ip], time),
             heard' = [heard EXCEPT ![ip] = time], UNCHANGED backends
      PROVE  Good
  <2> DEFINE i == b.map[ip]
  <2>1. i \in BP!Live(b) /\ i \in BP!Indexes /\ b.vec[i] = ip
    BY <1>4, <1>7, Backends, Zenon DEF BP!Tracks, BP!Coherent
  <2>2. active' = BP!Rejuvenate(b, i, time)
    BY <1>7, Backends, Zenon
  <2> HIDE DEF i
  <2>3. active' \in BP!Tables
    BY <1>1, <1>4, <2>1, <2>2, Sizes, Backends, BP!RejuvenateType, Zenon
  <2>4. BP!Tracks(active', heard', border)
    <3>1. BP!Tracks(BP!Rejuvenate(b, i, time), [heard EXCEPT ![b.vec[i]] = time], border)
      BY <1>1, <1>3, <1>4, <2>1, Sizes, Backends, BP!RejuvenateTracks, Zenon
    <3> QED
      BY <1>7, <2>1, <2>2, <3>1, Zenon
  <2>5. active'.map = b.map /\ active'.vec = b.vec /\ active'.heap = [b.heap EXCEPT ![i] = IF @ = Free THEN Free ELSE time]
    BY <1>4, <2>2, Backends, Zenon DEF BP!Rejuvenate, BP!Tables
  <2>6. BP!Live(active') \subseteq BP!Live(b)
    BY <1>4, <2>1, <2>5, Backends, Zenon DEF BP!Live, BP!Tables
  <2> QED
    BY <1>3, <1>4, <1>5, <1>7, <2>3, <2>4, <2>5, <2>6, Zenon
<1>8. ASSUME b.map[ip] = Absent, NEW i \in BackendIds \ B!Live(b),
             active' = B!Insert(b, ip, i, time),
             backends' = [backends EXCEPT ![i] = [ip |-> ip, nic |-> nic]],
             heard' = [heard EXCEPT ![ip] = time]
      PROVE  Good
  <2>1. i \in BP!Indexes \ BP!Live(b) /\ active' = BP!Insert(b, ip, i, time)
    BY <1>8, Backends, Zenon
  <2>2. active' \in BP!Tables
    BY <1>1, <1>4, <2>1, Sizes, Backends, BP!InsertType, Zenon
  <2>3. BP!Tracks(active', heard', border)
    <3>1. b.map[ip] = BP!Absent /\ time \in BP!Times
      BY <1>1, <1>8, Backends, Zenon
    <3>2. BP!Tracks(BP!Insert(b, ip, i, time), [heard EXCEPT ![ip] = time], border)
      BY <1>1, <1>3, <1>4, <2>1, <3>1, Sizes, BP!InsertTracks, Zenon
    <3> QED
      BY <1>8, <2>1, <3>2, Zenon
  <2>4. /\ active'.map = [b.map EXCEPT ![ip] = i] /\ active'.vec = [b.vec EXCEPT ![i] = ip]
        /\ active'.heap = [b.heap EXCEPT ![i] = time]
    BY <1>4, <2>1, Zenon DEF BP!Insert, BP!Tables
  <2>5. backends' \in [BackendIds -> [ip : Ips, nic : Nics]] /\ backends'[i].ip = ip
    BY <1>3, <1>8, Zenon
  <2>6. ASSUME NEW j \in BP!Live(active') PROVE backends'[j].ip = active'.vec[j]
    <3>1. CASE j = i
      BY <1>4, <2>1, <2>4, <2>5, <3>1, Zenon DEF BP!Tables
    <3>2. CASE j # i
      <4>1. j \in BP!Live(b)
        BY <1>4, <2>1, <2>4, <2>6, <3>2, Zenon DEF BP!Live, BP!Tables
      <4>2. backends'[j] = backends[j] /\ active'.vec[j] = b.vec[j]
        BY <1>3, <1>4, <1>8, <2>4, <3>2, <4>1, Backends, Zenon DEF BP!Live, BP!Tables
      <4> QED
        BY <1>4, <4>1, <4>2, Zenon
    <3> QED
      BY <3>1, <3>2, Zenon
  <2>7. \A a \in Ips : b.map[a] # Absent => active'.map[a] = b.map[a]
    BY <1>4, <1>8, <2>4, Zenon DEF BP!Tables
  <2> QED
    BY <1>5, <1>8, <2>2, <2>3, <2>5, <2>6, <2>7, Zenon
<1>9. Good
  BY <1>2, <1>6, <1>7, <1>8, Zenon
<1> QED
  BY <1>2, <1>9, BackendStep, Zenon DEF b, border

LEMMA OtherStep ==
  ASSUME LbInv, NEW time \in now .. MaxTime, now' = time, Other(time)
  PROVE  LbInv'
<1>1. /\ flows' = lb_expire_flows(time) /\ active' = lb_expire_backends(time)
      /\ served' = StillServed(time) /\ UNCHANGED <<flow_id_to_backend_id, backends, heard>>
  BY Zenon DEF Other
<1>2. Known(lb_expire_backends(time), time - BackendExpiration)
  BY Expired, Zenon
<1>3. heard \in BP!Stamps /\ backends \in [BackendIds -> [ip : Ips, nic : Nics]]
  BY Zenon DEF LbInv, TypeOK
<1> QED
  BY <1>1, <1>2, <1>3, BackendStep, Zenon DEF Known

LEMMA LbInit == Init => LbInv
<1> SUFFICES ASSUME Init PROVE LbInv
  BY Zenon
<1>1. active \in BP!Tables /\ BP!Empty(active) /\ flows \in Tables /\ Empty(flows)
  BY Backends, Zenon DEF Init
<1>2. 0 \in BackendIds /\ 0 \in Times /\ now = 0 /\ now - BackendExpiration \in Int
  BY Sizes, BalancerAssumption DEF BackendIds, Times, Init
<1>3. heard = [ip \in Ips |-> BP!Absent] /\ heard \in BP!Stamps
  BY Backends, Zenon DEF Init, BP!Stamps
<1>4. \A i : i \notin BP!Live(active)
  BY <1>1, Zenon DEF BP!Live, BP!Empty
<1>5. TypeOK
  BY <1>1, <1>2, <1>3 DEF Init, TypeOK
<1>6. Known(active, now - BackendExpiration)
  <2>1. BP!Tracks(active, heard, now - BackendExpiration)
    BY <1>1, <1>2, <1>3, Sizes, BP!EmptyTracks, Zenon
  <2> QED
    BY <1>1, <1>4, <2>1, Zenon DEF Known
<1>7. LeadsHome(flows)
  BY <1>1, Zenon DEF LeadsHome, Empty
<1>8. Assigned(flows, active, served)
  BY Zenon DEF Init, Assigned
<1> QED
  BY <1>5, <1>6, <1>7, <1>8, Zenon DEF LbInv

LEMMA LbStep ==
  ASSUME LbInv, [Next]_vars
  PROVE  /\ LbInv'
         /\ [out'.to = "backend" => heard[out'.ip] >= now' - BackendExpiration]_vars
<1>1. CASE UNCHANGED vars
  <2>1. LbInv'
    BY <1>1, Zenon DEF vars, LbInv, TypeOK, Known, LeadsHome, Assigned, Live
  <2> QED
    BY <1>1, <2>1, Zenon
<1>2. ASSUME NEW time \in now .. MaxTime, Packet(time), now' = time
      PROVE  LbInv' /\ (out'.to = "backend" => heard[out'.ip] >= now' - BackendExpiration)
  <2>1. CASE Other(time)
    BY <1>2, <2>1, OtherStep, Zenon DEF Other, Drop
  <2>2. ASSUME NEW ip \in Ips, NEW nic \in Nics, lb_process_heartbit(ip, nic, time)
        PROVE  LbInv' /\ out' = Drop
    BY <1>2, <2>2, HeartbeatStep, Zenon DEF lb_process_heartbit
  <2>3. ASSUME NEW f \in Keys, lb_get_backend(f, time)
        PROVE  LbInv' /\ (out'.to = "backend" => heard[out'.ip] >= now' - BackendExpiration)
    BY <1>2, <2>3, GetBackendStep, Zenon
  <2>4. Drop.to # "backend"
    BY Zenon DEF Drop
  <2> QED
    BY <1>2, <2>1, <2>2, <2>3, <2>4, Zenon DEF Packet
<1> QED
  BY <1>1, <1>2, Zenon DEF Next

LEMMA LbInvariant == Spec => []LbInv
<1>1. LbInv /\ [Next]_vars => LbInv'
  BY LbStep, Zenon
<1> QED
  BY <1>1, LbInit, PTL DEF Spec

\* The tables of the backends agree for any capacity, and a backend is active
\* if and only if its last heartbeat that was taken is recent enough.
\* (lb_process_heartbit, lb_expire_backends)
THEOREM BackendsKept == Spec => []BackendsCoherent
<1>1. LbInv => BackendsCoherent
  BY Backends, Zenon DEF LbInv, Known, BP!Tracks, BackendsCoherent
<1> QED
  BY <1>1, LbInvariant, PTL

\* The map of the flows leads to an allocated index that holds the flow, for
\* any numbers of flows and indexes.  (lb_get_backend, lb_expire_flows)
THEOREM FlowsFound == Spec => []FlowsLeadHome
<1>1. LbInv => FlowsLeadHome
  BY Zenon DEF LbInv, LeadsHome, FlowsLeadHome
<1> QED
  BY <1>1, LbInvariant, PTL

\* A flow of the table stays with its backend until that backend expires, for
\* any capacities, expiration times and hash table.  (lb_get_backend)
THEOREM FlowsStay == Spec => []Affinity
<1>1. LbInv => Affinity
  <2> SUFFICES ASSUME LbInv, NEW f \in Keys, flows.map[f] # Absent, served[f] # None
               PROVE  backends[flow_id_to_backend_id[flows.map[f]]].ip = served[f]
    BY Zenon DEF Affinity
  <2> DEFINE id == active.map[served[f]]
  <2>1. served[f] \in Ips /\ id # Absent /\ flow_id_to_backend_id[flows.map[f]] = id
    BY Zenon DEF LbInv, TypeOK, Assigned
  <2>2. id \in BP!Live(active) /\ active.vec[id] = served[f]
    BY <2>1, Backends, Zenon DEF LbInv, Known, BP!Tracks, BP!Coherent
  <2> QED
    BY <2>1, <2>2, Zenon DEF LbInv, Known
<1> QED
  BY <1>1, LbInvariant, PTL

\* Whatever the hash table holds, a request is sent only to a backend whose
\* heartbeat is recent.  (lb_get_backend, lb_find_preferred_available_backend)
THEOREM RequestsServed == Spec => SentToActive
<1>1. LbInv /\ [Next]_vars => [out'.to = "backend" => heard[out'.ip] >= now' - BackendExpiration]_vars
  BY LbStep, Zenon
<1> QED
  BY <1>1, LbInvariant, PTL DEF Spec, SentToActive

-----------------------------------------------------------------------------
(* The katran load balancer.                                               *)

Entries == [pos : Reals, atime : Nat]

\* What a core knows of its packet at each step.
CoreOK(k) ==
  /\ k.pc \in {"idle", "miss", "hash", "store", "send"}
  /\ k.pc = "miss" => k.flow \in Flows
  /\ k.pc = "hash" => /\ k.flow \in Flows /\ k.cur_time \in Nat
                      /\ k.syn \in BOOLEAN /\ k.flood \in BOOLEAN
  /\ k.pc = "store" => k.flow \in Flows /\ k.real \in Reals /\ k.atime \in Nat
  /\ k.pc = "send" => k.flow \in Flows /\ k.real \in Reals /\ k.past \in BOOLEAN

KatranShape ==
  /\ ktime \in Nat
  /\ ch_rings \in [0 .. RING_SIZE - 1 -> Reals]
  /\ DOMAIN lru = Caches
  /\ \A m \in Caches : lru[m] \in [DOMAIN lru[m] -> Entries]
  /\ DOMAIN kcore = Cpus /\ \A c \in Cpus : CoreOK(kcore[c])
  /\ last \in [Cpus -> [Cached -> Reals \cup {Never}]]

\* A core enters no more connections than it counts, the one it is about to
\* enter included.
Entering(c) ==
  IF kcore[c].pc = "store" \/ (kcore[c].pc = "hash" /\ ~kcore[c].flood) THEN 1 ELSE 0

WithinRate(c) ==
  entered[c] + Entering(c) <= rate[c].v1 /\ entered[c] + Entering(c) <= MAX_CONN_RATE

RatesCount ==
  /\ rate \in [Cpus -> [v1 : Nat, v2 : Nat]]
  /\ entered \in [Cpus -> Nat]
  /\ \A c \in Cpus : WithinRate(c)

\* The core does not come between a flow and its server: it handles no packet
\* of the flow, or one that replaces the entry or, as a SYN in a flood, is
\* remembered in stale.  A packet that missed the cache is none of these: it
\* saw no entry, so the one there is now is some other core's.
Harmless(c, f) ==
  LET k == kcore[c]
  IN  \/ k.pc = "idle" \/ k.flow # f \/ k.pc = "store"
      \/ k.pc = "hash" /\ k.syn
      \/ k.pc = "send" /\ k.past

\* The core is the one that the entry of the flow speaks for.
Owner(c, m, f) ==
  /\ Cache(c) = m
  /\ \/ kcore[c].pc = "send" /\ kcore[c].flow = f /\ kcore[c].real = lru[m][f].pos
     \/ last[c][f] = lru[m][f].pos /\ Harmless(c, f)

Kept(m, f) == <<m, f>> \in stale \/ \E c \in Cpus : Owner(c, m, f)

EntriesKept == \A m \in Caches : \A f \in Cached : Hit(m, f) => Kept(m, f)

KatranInv == KatranShape /\ RatesCount /\ EntriesKept

LEMMA KatranInitial == KatranInit => KatranInv
<1> SUFFICES ASSUME KatranInit PROVE KatranInv
  BY Zenon
<1>1. \A m \in Caches : lru[m] = <<>> /\ DOMAIN lru[m] = {}
  BY DEF KatranInit
<1>2. DOMAIN kcore = Cpus /\ \A c \in Cpus : kcore[c] = Waiting
  BY Zenon DEF KatranInit
<1>3. CoreOK(Waiting) /\ Waiting.pc = "idle"
  BY DEF CoreOK, Waiting
<1>4. KatranShape
  <2>1. <<>> \in [{} -> Entries]
    OBVIOUS
  <2>2. \A m \in Caches : lru[m] \in [DOMAIN lru[m] -> Entries]
    BY <1>1, <2>1, Zenon
  <2>3. \A c \in Cpus : CoreOK(kcore[c])
    BY <1>2, <1>3, Zenon
  <2>4. ktime \in Nat
    BY DEF KatranInit
  <2>5. last \in [Cpus -> [Cached -> Reals \cup {Never}]]
    BY Zenon DEF KatranInit
  <2> QED
    BY <1>2, <2>2, <2>3, <2>4, <2>5, Zenon DEF KatranInit, KatranShape
<1>5. RatesCount
  <2>1. ASSUME NEW c \in Cpus PROVE WithinRate(c)
    <3>1. Entering(c) = 0
      BY <1>2, <1>3 DEF Entering
    <3> QED
      BY <3>1, KatranAssumption DEF KatranInit, WithinRate
  <2> QED
    BY <2>1, KatranAssumption DEF KatranInit, RatesCount
<1>6. EntriesKept
  BY <1>1, Zenon DEF EntriesKept, Hit
<1> QED
  BY <1>4, <1>5, <1>6, Zenon DEF KatranInv

\* The next step of a core.
LEMMA CoreMoves ==
  ASSUME KatranShape, NEW c \in Cpus, NEW k, kcore' = [kcore EXCEPT ![c] = k], CoreOK(k)
  PROVE  /\ kcore'[c] = k /\ \A d \in Cpus : d # c => kcore'[d] = kcore[d]
         /\ DOMAIN kcore' = Cpus /\ \A d \in Cpus : CoreOK(kcore'[d])
BY Zenon DEF KatranShape

\* An entry that a step of a core leaves has an owner, if that core does not
\* cease to be one.
LEMMA OthersKeep ==
  ASSUME KatranInv, NEW c \in Cpus, NEW m \in Caches, NEW f \in Cached, Hit(m, f),
         \A d \in Cpus : d # c => kcore'[d] = kcore[d] /\ last'[d] = last[d],
         lru'[m][f].pos = lru[m][f].pos,
         <<m, f>> \in stale => <<m, f>> \in stale',
         Owner(c, m, f) => Kept(m, f)'
  PROVE  Kept(m, f)'
<1>1. CASE <<m, f>> \in stale
  BY <1>1, Zenon DEF Kept
<1>2. ASSUME NEW d \in Cpus, Owner(d, m, f), d # c
      PROVE  Kept(m, f)'
  <2>1. kcore'[d] = kcore[d] /\ last'[d] = last[d]
    BY <1>2, Zenon
  <2>2. Owner(d, m, f)'
    BY <1>2, <2>1, Zenon DEF Owner, Harmless
  <2> QED
    BY <2>2, Zenon DEF Kept
<1> QED
  BY <1>1, <1>2, Zenon DEF KatranInv, EntriesKept, Kept

\* So it is with every entry, if the step leaves them all.
LEMMA SameEntries ==
  ASSUME KatranInv, NEW c \in Cpus, UNCHANGED <<ktime, lru, last, stale>>,
         \A d \in Cpus : d # c => kcore'[d] = kcore[d],
         kcore[c].pc # "send",
         \A g \in Cached : Hit(Cache(c), g) /\ Harmless(c, g) => Harmless(c, g)'
  PROVE  EntriesKept'
<1> SUFFICES ASSUME NEW n \in Caches, NEW g \in Cached, Hit(n, g)' PROVE Kept(n, g)'
  BY Zenon DEF EntriesKept
<1>1. Hit(n, g)
  BY Zenon DEF Hit
<1>2. ASSUME Owner(c, n, g) PROVE Kept(n, g)'
  <2>1. last[c][g] = lru[n][g].pos /\ Cache(c) = n /\ Harmless(c, g)
    BY <1>2, Zenon DEF Owner
  <2>2. Harmless(c, g)'
    BY <1>1, <2>1, Zenon
  <2>3. Owner(c, n, g)'
    BY <2>1, <2>2, Zenon DEF Owner
  <2> QED
    BY <2>3, Zenon DEF Kept
<1> QED
  BY <1>1, <1>2, OthersKeep, Zenon

\* A core that enters no connection, and is not nearer to it, keeps its rate.
LEMMA RatesKept ==
  ASSUME RatesCount, NEW c \in Cpus, Entering(c)' <= Entering(c),
         \A d \in Cpus : d # c => kcore'[d] = kcore[d], UNCHANGED <<rate, entered>>
  PROVE  RatesCount'
<1>1. ASSUME NEW d \in Cpus, d # c PROVE Entering(d)' = Entering(d)
  BY <1>1, Zenon DEF Entering
<1>2. /\ Entering(c) \in {0, 1} /\ Entering(c)' \in {0, 1} /\ MAX_CONN_RATE \in Nat
      /\ entered[c] \in Nat /\ rate[c].v1 \in Nat
  BY KatranAssumption DEF Entering, RatesCount
<1>3. WithinRate(c)'
  <2>1. WithinRate(c)
    BY Zenon DEF RatesCount
  <2> QED
    BY <1>2, <2>1 DEF WithinRate
<1>4. ASSUME NEW d \in Cpus, d # c PROVE WithinRate(d)'
  BY <1>1, <1>4, Zenon DEF RatesCount, WithinRate
<1> QED
  BY <1>3, <1>4, Zenon DEF RatesCount

\* A packet that finds an entry goes where it says: its core is the owner.
LEMMA LookupStep ==
  ASSUME KatranInv, NEW c \in Cpus, NEW f \in Flows, Lookup(c, f)
  PROVE  KatranInv'
<1> DEFINE m == Cache(c)
<1>1. m \in Caches /\ kcore[c].pc = "idle"
  BY KatranAssumption, Zenon DEF Lookup
<1>2. UNCHANGED <<ktime, ch_rings, rate, last, stale, entered>>
  BY Zenon DEF Lookup
<1>3. /\ DOMAIN lru = Caches /\ ktime \in Nat
      /\ \A n \in Caches : lru[n] \in [DOMAIN lru[n] -> Entries]
  BY Zenon DEF KatranInv, KatranShape
<1>4. CASE /\ Hit(m, f)
           /\ lru' = IF f \in Udp THEN [lru EXCEPT ![m][f].atime = ktime] ELSE lru
           /\ kcore' = [kcore EXCEPT ![c] = Sending(f, lru[m][f].pos, FALSE)]
  <2> HIDE DEF m
  <2>1. f \in DOMAIN lru[m] /\ lru[m][f] \in Entries
    BY <1>1, <1>3, <1>4, Zenon DEF Hit
  <2>2. /\ [lru[m][f] EXCEPT !.atime = ktime] \in Entries
        /\ [lru[m][f] EXCEPT !.atime = ktime].pos = lru[m][f].pos /\ lru[m][f].pos \in Reals
    BY <1>3, <2>1, Zenon DEF Entries
  <2>3. /\ DOMAIN lru' = Caches
        /\ \A n \in Caches : /\ DOMAIN lru'[n] = DOMAIN lru[n]
                             /\ lru'[n] \in [DOMAIN lru[n] -> Entries]
                             /\ \A g \in DOMAIN lru[n] : /\ lru'[n][g].pos = lru[n][g].pos
                                                         /\ n # m \/ g # f => lru'[n][g] = lru[n][g]
    <3>1. CASE f \in Udp
      <4> DEFINE e == [lru[m][f] EXCEPT !.atime = ktime]
      <4>1. lru' = [lru EXCEPT ![m] = [lru[m] EXCEPT ![f] = e]]
        BY <1>4, <3>1, Zenon
      <4>2. /\ DOMAIN lru' = Caches /\ lru'[m] = [lru[m] EXCEPT ![f] = e]
            /\ \A n \in Caches : n # m => lru'[n] = lru[n]
        BY <1>1, <1>3, <4>1, Zenon
      <4>3. e \in Entries /\ e.pos = lru[m][f].pos
        BY <2>2, Zenon
      <4> HIDE DEF e
      <4>4. /\ DOMAIN lru'[m] = DOMAIN lru[m] /\ lru'[m][f] = e
            /\ \A g \in DOMAIN lru[m] : g # f => lru'[m][g] = lru[m][g]
            /\ lru'[m] \in [DOMAIN lru[m] -> Entries]
        BY <1>1, <1>3, <2>1, <4>2, <4>3, Zenon
      <4> QED
        BY <1>3, <4>2, <4>3, <4>4, Zenon
    <3>2. CASE f \notin Udp
      BY <1>3, <1>4, <3>2, Zenon
    <3> QED
      BY <3>1, <3>2, Zenon
  <2>4. LET k == Sending(f, lru[m][f].pos, FALSE)
        IN  CoreOK(k) /\ k.pc = "send" /\ k.flow = f /\ k.real = lru[m][f].pos
    BY <2>2 DEF Sending, CoreOK
  <2>5. /\ kcore'[c] = Sending(f, lru[m][f].pos, FALSE)
        /\ \A d \in Cpus : d # c => kcore'[d] = kcore[d]
        /\ DOMAIN kcore' = Cpus /\ \A d \in Cpus : CoreOK(kcore'[d])
    BY <1>4, <2>4, CoreMoves, Zenon DEF KatranInv
  <2>6. KatranShape'
    BY <1>2, <2>3, <2>5, Zenon DEF KatranInv, KatranShape
  <2>7. RatesCount'
    <3>1. Entering(c)' = 0 /\ Entering(c) = 0
      BY <1>1, <2>4, <2>5 DEF Entering
    <3>2. Entering(c)' <= Entering(c)
      BY <3>1
    <3> QED
      BY <1>2, <2>5, <3>2, RatesKept, Zenon DEF KatranInv
  <2>8. ASSUME NEW n \in Caches, NEW g \in Cached, Hit(n, g)' PROVE Kept(n, g)'
    <3>1. g \in DOMAIN lru[n] /\ lru'[n][g].pos = lru[n][g].pos
      BY <2>3, <2>8, Zenon DEF Hit
    <3>2. CASE n = m /\ g = f
      <4>1. Owner(c, n, g)'
        BY <2>4, <2>5, <3>1, <3>2, Zenon DEF Owner, m
      <4> QED
        BY <4>1, Zenon DEF Kept
    <3>3. CASE n # m \/ g # f
      <4>1. lru'[n][g] = lru[n][g]
        BY <2>3, <3>1, <3>3, Zenon
      <4>2. Hit(n, g)
        BY <1>2, <2>8, <3>1, <4>1, Zenon DEF Hit
      <4>3. ASSUME Owner(c, n, g) PROVE Kept(n, g)'
        <5>1. last[c][g] = lru[n][g].pos /\ n = m
          BY <1>1, <4>3, Zenon DEF Owner, m
        <5>2. Harmless(c, g)'
          BY <2>4, <2>5, <3>3, <5>1, Zenon DEF Harmless
        <5>3. Owner(c, n, g)'
          BY <1>2, <3>1, <4>3, <5>1, <5>2, Zenon DEF Owner
        <5> QED
          BY <5>3, Zenon DEF Kept
      <4> QED
        BY <1>2, <2>5, <3>1, <4>2, <4>3, OthersKeep, Zenon
    <3> QED
      BY <3>2, <3>3, Zenon
  <2> QED
    BY <2>6, <2>7, <2>8, Zenon DEF KatranInv, EntriesKept
<1>5. CASE /\ ~Hit(m, f) /\ UNCHANGED lru
           /\ kcore' = [kcore EXCEPT ![c] = [pc |-> "miss", flow |-> f]]
  <2> DEFINE k == [pc |-> "miss", flow |-> f]
  <2>1. CoreOK(k) /\ k.pc = "miss" /\ k.flow = f
    BY DEF CoreOK
  <2> HIDE DEF m, k
  <2>2. /\ kcore'[c] = k /\ \A d \in Cpus : d # c => kcore'[d] = kcore[d]
        /\ DOMAIN kcore' = Cpus /\ \A d \in Cpus : CoreOK(kcore'[d])
    BY <1>5, <2>1, CoreMoves, Zenon DEF KatranInv, k
  <2>3. KatranShape'
    BY <1>2, <1>5, <2>2, Zenon DEF KatranInv, KatranShape
  <2>4. RatesCount'
    <3>1. Entering(c)' = 0 /\ Entering(c) = 0
      BY <1>1, <2>1, <2>2 DEF Entering
    <3>2. Entering(c)' <= Entering(c)
      BY <3>1
    <3> QED
      BY <1>2, <2>2, <3>2, RatesKept, Zenon DEF KatranInv
  <2>5. ASSUME NEW g \in Cached, Hit(m, g) PROVE Harmless(c, g)'
    BY <1>5, <2>1, <2>2, <2>5, Zenon DEF Harmless
  <2>6. EntriesKept'
    BY <1>1, <1>2, <1>5, <2>2, <2>5, SameEntries, Zenon DEF m
  <2> QED
    BY <2>3, <2>4, <2>6, Zenon DEF KatranInv
<1> QED
  BY <1>4, <1>5, Zenon DEF Lookup

\* The connection is counted, and will be entered only below the limit.
LEMMA CountStep ==
  ASSUME KatranInv, NEW c \in Cpus, NEW f \in Flows, NEW syn \in BOOLEAN,
         CountConnection(c, f, syn)
  PROVE  KatranInv'
<1> DEFINE k == [pc |-> "hash", flow |-> f, syn |-> syn,
                 flood |-> is_under_flood(c), cur_time |-> ktime]
<1>1. /\ UNCHANGED <<ktime, ch_rings, lru, last, stale>>
      /\ kcore' = [kcore EXCEPT ![c] = k]
      /\ \/ kcore[c].pc = "idle" /\ (syn \/ f \in Bypass)
         \/ kcore[c].pc = "miss" /\ kcore[c].flow = f /\ ~syn
  BY Zenon DEF CountConnection
<1>2. is_under_flood(c) \in BOOLEAN /\ ktime \in Nat
  BY Zenon DEF is_under_flood, KatranInv, KatranShape
<1>3. /\ CoreOK(k) /\ k.pc = "hash" /\ k.flow = f /\ k.syn = syn
      /\ k.flood = is_under_flood(c)
  BY <1>2, Zenon DEF CoreOK
<1> HIDE DEF k
<1>4. /\ kcore'[c] = k /\ \A d \in Cpus : d # c => kcore'[d] = kcore[d]
      /\ DOMAIN kcore' = Cpus /\ \A d \in Cpus : CoreOK(kcore'[d])
  BY <1>1, <1>3, CoreMoves, Zenon DEF KatranInv
<1>5. KatranShape'
  BY <1>1, <1>4, Zenon DEF KatranInv, KatranShape
<1>6. RatesCount'
  <2>1. /\ rate[c] \in [v1 : Nat, v2 : Nat] /\ entered[c] \in Nat
        /\ MAX_CONN_RATE \in Nat \ {0}
    BY KatranAssumption, Zenon DEF KatranInv, RatesCount
  <2>2. /\ Entering(c) = 0
        /\ Entering(c)' = IF is_under_flood(c) THEN 0 ELSE 1
    BY <1>1, <1>3, <1>4 DEF Entering
  <2>3. ASSUME NEW d \in Cpus, d # c PROVE Entering(d)' = Entering(d)
    BY <1>4, <2>3, Zenon DEF Entering
  <2>4. entered[c] <= rate[c].v1 /\ entered[c] <= MAX_CONN_RATE
    <3>1. WithinRate(c)
      BY Zenon DEF KatranInv, RatesCount
    <3> QED
      BY <2>1, <2>2, <3>1 DEF WithinRate
  <2> DEFINE r == IF Quantum(c) THEN [rate[c] EXCEPT !.v1 = @ + 1] ELSE [v1 |-> 1, v2 |-> ktime]
             e == IF Quantum(c) THEN entered[c] ELSE 0
  <2>5. rate' = [rate EXCEPT ![c] = r] /\ entered' = [entered EXCEPT ![c] = e]
    BY Zenon DEF CountConnection
  <2>6. /\ r \in [v1 : Nat, v2 : Nat] /\ e \in Nat
        /\ e + (IF is_under_flood(c) THEN 0 ELSE 1) <= r.v1
        /\ e + (IF is_under_flood(c) THEN 0 ELSE 1) <= MAX_CONN_RATE
    <3>1. CASE Quantum(c)
      BY <2>1, <2>4, <3>1 DEF is_under_flood
    <3>2. CASE ~Quantum(c)
      BY <1>2, <2>1, <3>2 DEF is_under_flood
    <3> QED
      BY <3>1, <3>2, Zenon
  <2> HIDE DEF r, e
  <2>7. /\ rate' \in [Cpus -> [v1 : Nat, v2 : Nat]] /\ rate'[c] = r
        /\ entered' \in [Cpus -> Nat] /\ entered'[c] = e
        /\ \A d \in Cpus : d # c => rate'[d] = rate[d] /\ entered'[d] = entered[d]
    BY <2>5, <2>6, Zenon DEF KatranInv, RatesCount
  <2>8. WithinRate(c)'
    BY <2>2, <2>6, <2>7, Zenon DEF WithinRate
  <2>9. ASSUME NEW d \in Cpus, d # c PROVE WithinRate(d)'
    BY <2>3, <2>7, <2>9, Zenon DEF KatranInv, RatesCount, WithinRate
  <2> QED
    BY <2>7, <2>8, <2>9, Zenon DEF RatesCount
<1>7. EntriesKept'
  <2>1. ASSUME NEW g \in Cached, Harmless(c, g) PROVE Harmless(c, g)'
    <3>1. CASE g # f \/ syn
      BY <1>3, <1>4, <3>1, Zenon DEF Harmless
    <3>2. CASE g = f /\ ~syn
      <4>1. kcore[c].pc = "miss" /\ kcore[c].flow = f
        BY <1>1, <3>2, Zenon DEF Cached
      <4> QED
        BY <2>1, <3>2, <4>1 DEF Harmless
    <3> QED
      BY <3>1, <3>2, Zenon
  <2>2. kcore[c].pc # "send"
    BY <1>1
  <2> QED
    BY <1>1, <1>4, <2>1, <2>2, SameEntries, Zenon
<1> QED
  BY <1>5, <1>6, <1>7, Zenon DEF KatranInv

\* What is read from the ring is entered, unless the connection is one too many.
LEMMA ReadStep ==
  ASSUME KatranInv, NEW c \in Cpus, ReadRing(c)
  PROVE  KatranInv'
<1> DEFINE o == kcore[c]
           real == ch_rings[hash(o.flow)]
           sends == o.flow \in Bypass \/ o.flood
           s == Sending(o.flow, real, o.syn /\ o.flood)
           w == [pc |-> "store", flow |-> o.flow, real |-> real,
                 atime |-> IF o.flow \in Udp THEN o.cur_time ELSE 0]
           k == IF sends THEN s ELSE w
<1>1. /\ o.pc = "hash" /\ kcore' = [kcore EXCEPT ![c] = k]
      /\ UNCHANGED <<ktime, ch_rings, lru, rate, last, stale, entered>>
  BY Zenon DEF ReadRing
<1>2. /\ o.flow \in Flows /\ o.cur_time \in Nat /\ o.syn \in BOOLEAN /\ o.flood \in BOOLEAN
      /\ ch_rings \in [0 .. RING_SIZE - 1 -> Reals]
  BY <1>1, Zenon DEF KatranInv, KatranShape, CoreOK
<1>3. real \in Reals
  BY <1>2, KatranAssumption, Zenon
<1> HIDE DEF real
<1>4. CoreOK(s) /\ s.pc = "send" /\ s.flow = o.flow /\ s.past = (o.syn /\ o.flood)
  BY <1>2, <1>3 DEF Sending, CoreOK
<1>5. CoreOK(w) /\ w.pc = "store" /\ w.flow = o.flow
  BY <1>2, <1>3 DEF CoreOK
<1> HIDE DEF s, w
<1>6. CoreOK(k)
  BY <1>4, <1>5, Zenon
<1>7. /\ kcore'[c] = k /\ \A d \in Cpus : d # c => kcore'[d] = kcore[d]
      /\ DOMAIN kcore' = Cpus /\ \A d \in Cpus : CoreOK(kcore'[d])
  BY <1>1, <1>6, CoreMoves, Zenon DEF KatranInv
<1>8. KatranShape'
  BY <1>1, <1>7, Zenon DEF KatranInv, KatranShape
<1>9. RatesCount'
  <2>1. Entering(c)' <= Entering(c)
    <3>1. CASE sends
      <4>1. Entering(c)' = 0
        BY <1>4, <1>7, <3>1 DEF Entering
      <4>2. Entering(c) \in {0, 1}
        BY Zenon DEF Entering
      <4> QED
        BY <4>1, <4>2
    <3>2. CASE ~sends
      <4>1. Entering(c) = 1 /\ Entering(c)' = 1
        BY <1>1, <1>5, <1>7, <3>2, Zenon DEF Entering
      <4> QED
        BY <4>1
    <3> QED
      BY <3>1, <3>2, Zenon
  <2> QED
    BY <1>1, <1>7, <2>1, RatesKept, Zenon DEF KatranInv
<1>10. EntriesKept'
  <2>1. ASSUME NEW g \in Cached, Harmless(c, g) PROVE Harmless(c, g)'
    <3>1. CASE g # o.flow \/ ~sends
      BY <1>4, <1>5, <1>7, <3>1, Zenon DEF Harmless
    <3>2. CASE g = o.flow /\ sends
      <4>1. o.syn /\ o.flood
        <5>1. o.syn
          BY <1>1, <2>1, <3>2 DEF Harmless
        <5>2. o.flow \notin Bypass
          BY <3>2, Zenon DEF Cached
        <5> QED
          BY <3>2, <5>1, <5>2, Zenon
      <4>2. kcore'[c].pc = "send" /\ kcore'[c].past
        BY <1>4, <1>7, <3>2, <4>1, Zenon
      <4> QED
        BY <4>2, Zenon DEF Harmless
    <3> QED
      BY <3>1, <3>2, Zenon
  <2>2. kcore[c].pc # "send"
    BY <1>1
  <2> QED
    BY <1>1, <1>7, <2>1, <2>2, SameEntries, Zenon
<1> QED
  BY <1>8, <1>9, <1>10, Zenon DEF KatranInv

\* A new entry may take the place of another of its cache, and of no other.
LEMMA StoreKeeps ==
  ASSUME KatranShape, NEW m \in Caches, NEW k, NEW entry \in Entries, Store(m, k, entry)
  PROVE  /\ DOMAIN lru' = Caches
         /\ lru'[m] \in [DOMAIN lru'[m] -> Entries]
         /\ k \in DOMAIN lru'[m] /\ lru'[m][k] = entry
         /\ \A x \in DOMAIN lru'[m] : x # k => /\ x \in DOMAIN lru[m] /\ lru'[m][x] = lru[m][x]
                                               /\ <<m, x>> \in stale => <<m, x>> \in stale'
         /\ \A n \in Caches : n # m => /\ lru'[n] = lru[n]
                                       /\ \A x : <<n, x>> \in stale => <<n, x>> \in stale'
<1>1. PICK room :
        /\ lru' = [lru EXCEPT ![m] = [x \in (DOMAIN lru[m] \ room) \cup {k} |->
                                        IF x = k THEN entry ELSE lru[m][x]]]
        /\ stale' = stale \ {<<m, x>> : x \in room \cup {k}}
  BY Zenon DEF Store
<1> DEFINE new == [x \in (DOMAIN lru[m] \ room) \cup {k} |-> IF x = k THEN entry ELSE lru[m][x]]
<1>2. /\ DOMAIN lru' = Caches /\ lru'[m] = new
      /\ \A n \in Caches : n # m => lru'[n] = lru[n]
  BY <1>1, Zenon DEF KatranShape
<1>3. lru[m] \in [DOMAIN lru[m] -> Entries]
  BY Zenon DEF KatranShape
<1>4. /\ DOMAIN new = (DOMAIN lru[m] \ room) \cup {k}
      /\ new \in [DOMAIN new -> Entries] /\ new[k] = entry
      /\ \A x \in DOMAIN new : x # k => x \in DOMAIN lru[m] \ room /\ new[x] = lru[m][x]
  BY <1>3, Zenon
<1>5. \A x : x \notin room \cup {k} /\ <<m, x>> \in stale => <<m, x>> \in stale'
  BY <1>1, Zenon
<1>6. \A n, x : n # m /\ <<n, x>> \in stale => <<n, x>> \in stale'
  BY <1>1, Zenon
<1> HIDE DEF new
<1> QED
  BY <1>2, <1>4, <1>5, <1>6, Zenon

\* The core that enters a connection becomes its owner.
LEMMA UpdateStep ==
  ASSUME KatranInv, NEW c \in Cpus, UpdateCache(c)
  PROVE  KatranInv'
<1> DEFINE o == kcore[c]
           m == Cache(c)
           x == stored(o.flow)
           entry == [pos |-> o.real, atime |-> o.atime]
           k == Sending(o.flow, o.real, FALSE)
<1>1. /\ o.pc = "store" /\ Store(m, x, entry) /\ kcore' = [kcore EXCEPT ![c] = k]
      /\ entered' = [entered EXCEPT ![c] = @ + 1]
      /\ UNCHANGED <<ktime, ch_rings, rate, last>>
  BY Zenon DEF UpdateCache
<1>2. o.flow \in Flows /\ o.real \in Reals /\ o.atime \in Nat /\ m \in Caches
  BY <1>1, KatranAssumption, Zenon DEF KatranInv, KatranShape, CoreOK
<1>3. entry \in Entries /\ entry.pos = o.real
  BY <1>2, Zenon DEF Entries
<1>4. CoreOK(k) /\ k.pc = "send" /\ k.flow = o.flow /\ k.real = o.real
  BY <1>2 DEF Sending, CoreOK
<1>5. \A g \in Cached : g = x <=> g = o.flow
  BY <1>2, KatranAssumption, Zenon DEF stored, Cached
<1> HIDE DEF m, x, entry, k
<1>6. /\ kcore'[c] = k /\ \A d \in Cpus : d # c => kcore'[d] = kcore[d]
      /\ DOMAIN kcore' = Cpus /\ \A d \in Cpus : CoreOK(kcore'[d])
  BY <1>1, <1>4, CoreMoves, Zenon DEF KatranInv
<1>7. /\ DOMAIN lru' = Caches
      /\ lru'[m] \in [DOMAIN lru'[m] -> Entries]
      /\ x \in DOMAIN lru'[m] /\ lru'[m][x] = entry
      /\ \A g \in DOMAIN lru'[m] : g # x => /\ g \in DOMAIN lru[m] /\ lru'[m][g] = lru[m][g]
                                            /\ <<m, g>> \in stale => <<m, g>> \in stale'
      /\ \A n \in Caches : n # m => /\ lru'[n] = lru[n]
                                    /\ \A g : <<n, g>> \in stale => <<n, g>> \in stale'
  BY <1>1, <1>2, <1>3, StoreKeeps, Zenon DEF KatranInv
<1>8. KatranShape'
  BY <1>1, <1>6, <1>7, Zenon DEF KatranInv, KatranShape
<1>9. RatesCount'
  <2>1. /\ rate[c].v1 \in Nat /\ entered[c] \in Nat /\ MAX_CONN_RATE \in Nat
    BY KatranAssumption DEF KatranInv, RatesCount
  <2>2. Entering(c) = 1 /\ Entering(c)' = 0
    BY <1>1, <1>4, <1>6 DEF Entering
  <2>3. entered[c] + 1 \in Nat
    BY <2>1
  <2>4. /\ entered' \in [Cpus -> Nat] /\ entered'[c] = entered[c] + 1
        /\ \A d \in Cpus : d # c => entered'[d] = entered[d]
    BY <1>1, <2>3, Zenon DEF KatranInv, RatesCount
  <2>5. WithinRate(c)'
    <3>1. WithinRate(c)
      BY Zenon DEF KatranInv, RatesCount
    <3> QED
      BY <1>1, <2>1, <2>2, <2>4, <3>1 DEF WithinRate
  <2>6. ASSUME NEW d \in Cpus, d # c PROVE WithinRate(d)'
    <3>1. Entering(d)' = Entering(d)
      BY <1>6, <2>6, Zenon DEF Entering
    <3> QED
      BY <1>1, <2>4, <2>6, <3>1, Zenon DEF KatranInv, RatesCount, WithinRate
  <2> QED
    BY <1>1, <2>4, <2>5, <2>6, Zenon DEF KatranInv, RatesCount
<1>10. ASSUME NEW n \in Caches, NEW g \in Cached, Hit(n, g)' PROVE Kept(n, g)'
  <2>1. CASE n = m /\ g = x
    <3>1. Owner(c, n, g)'
      BY <1>3, <1>4, <1>5, <1>6, <1>7, <2>1, Zenon DEF Owner, m
    <3> QED
      BY <3>1, Zenon DEF Kept
  <2>2. CASE n # m \/ g # x
    <3>1. /\ g \in DOMAIN lru[n] /\ lru'[n][g] = lru[n][g]
          /\ <<n, g>> \in stale => <<n, g>> \in stale'
      BY <1>7, <1>10, <2>2, Zenon DEF Hit
    <3>2. Hit(n, g)
      BY <1>1, <1>10, <3>1, Zenon DEF Hit
    <3>3. ASSUME Owner(c, n, g) PROVE Kept(n, g)'
      <4>1. last[c][g] = lru[n][g].pos /\ n = m
        BY <1>1, <3>3 DEF Owner, m
      <4>2. Harmless(c, g)'
        BY <1>4, <1>5, <1>6, <2>2, <4>1, Zenon DEF Harmless
      <4>3. Owner(c, n, g)'
        BY <1>1, <3>1, <3>3, <4>1, <4>2, Zenon DEF Owner
      <4> QED
        BY <4>3, Zenon DEF Kept
    <3> QED
      BY <1>1, <1>6, <3>1, <3>2, <3>3, OthersKeep, Zenon
  <2> QED
    BY <2>1, <2>2, Zenon
<1> QED
  BY <1>8, <1>9, <1>10, Zenon DEF KatranInv, EntriesKept

\* A packet that is sent leaves its core the owner, if it was, or the entry
\* stale, if it was a SYN in a flood.
LEMMA SendStep ==
  ASSUME KatranInv, NEW c \in Cpus, Send(c)
  PROVE  KatranInv'
<1> DEFINE o == kcore[c]
           m == Cache(c)
<1>1. /\ o.pc = "send" /\ kcore' = [kcore EXCEPT ![c] = Waiting]
      /\ last' = IF o.flow \in Cached THEN [last EXCEPT ![c][o.flow] = o.real] ELSE last
      /\ stale' = IF o.past /\ o.flow \in DOMAIN lru[m] THEN stale \cup {<<m, o.flow>>} ELSE stale
      /\ UNCHANGED <<ktime, ch_rings, lru, rate, entered>>
  BY Zenon DEF Send
<1>2. o.flow \in Flows /\ o.real \in Reals /\ m \in Caches
  BY <1>1, KatranAssumption, Zenon DEF KatranInv, KatranShape, CoreOK
<1>3. CoreOK(Waiting) /\ Waiting.pc = "idle"
  BY DEF CoreOK, Waiting
<1> HIDE DEF m
<1>4. /\ kcore'[c] = Waiting /\ \A d \in Cpus : d # c => kcore'[d] = kcore[d]
      /\ DOMAIN kcore' = Cpus /\ \A d \in Cpus : CoreOK(kcore'[d])
  BY <1>1, <1>3, CoreMoves, Zenon DEF KatranInv
<1>5. /\ last' \in [Cpus -> [Cached -> Reals \cup {Never}]]
      /\ \A d \in Cpus : d # c => last'[d] = last[d]
      /\ \A g \in Cached : last'[c][g] = IF g = o.flow THEN o.real ELSE last[c][g]
  <2>1. last \in [Cpus -> [Cached -> Reals \cup {Never}]]
    BY Zenon DEF KatranInv, KatranShape
  <2>2. CASE o.flow \in Cached
    <3>1. last' = [last EXCEPT ![c] = [last[c] EXCEPT ![o.flow] = o.real]]
      BY <1>1, <2>2, Zenon
    <3>2. last[c] \in [Cached -> Reals \cup {Never}]
      BY <2>1, Zenon
    <3>3. [last[c] EXCEPT ![o.flow] = o.real] \in [Cached -> Reals \cup {Never}]
      BY <1>2, <2>2, <3>2, Zenon
    <3>4. /\ last'[c] = [last[c] EXCEPT ![o.flow] = o.real]
          /\ \A d \in Cpus : d # c => last'[d] = last[d]
          /\ last' \in [Cpus -> [Cached -> Reals \cup {Never}]]
      BY <2>1, <3>1, <3>3, Zenon
    <3>5. \A g \in Cached : last'[c][g] = IF g = o.flow THEN o.real ELSE last[c][g]
      BY <2>2, <3>2, <3>4, Zenon
    <3> QED
      BY <3>4, <3>5, Zenon
  <2>3. CASE o.flow \notin Cached
    BY <1>1, <2>1, <2>3, Zenon
  <2> QED
    BY <2>2, <2>3, Zenon
<1>6. KatranShape'
  BY <1>1, <1>4, <1>5, Zenon DEF KatranInv, KatranShape
<1>7. RatesCount'
  <2>1. Entering(c)' = 0 /\ Entering(c) = 0
    BY <1>1, <1>3, <1>4 DEF Entering
  <2>2. Entering(c)' <= Entering(c)
    BY <2>1
  <2> QED
    BY <1>1, <1>4, <2>2, RatesKept, Zenon DEF KatranInv
<1>8. ASSUME NEW n \in Caches, NEW g \in Cached, Hit(n, g)' PROVE Kept(n, g)'
  <2>1. Hit(n, g) /\ g \in DOMAIN lru[n]
    BY <1>1, <1>8, Zenon DEF Hit
  <2>2. <<n, g>> \in stale => <<n, g>> \in stale'
    BY <1>1, Zenon
  <2>3. ASSUME Owner(c, n, g) PROVE Kept(n, g)'
    <3>1. CASE last'[c][g] = lru[n][g].pos
      <4>1. Harmless(c, g)'
        BY <1>3, <1>4, Zenon DEF Harmless
      <4>2. Owner(c, n, g)'
        BY <1>1, <2>3, <3>1, <4>1, Zenon DEF Owner
      <4> QED
        BY <4>2, Zenon DEF Kept
    <3>2. CASE g = o.flow /\ o.past
      <4>1. n = m
        BY <2>3, Zenon DEF Owner, m
      <4>2. <<n, g>> \in stale'
        BY <1>1, <2>1, <3>2, <4>1, Zenon
      <4> QED
        BY <4>2, Zenon DEF Kept
    <3> QED
      BY <1>1, <1>5, <2>3, <3>1, <3>2 DEF Owner, Harmless
  <2>4. /\ \A d \in Cpus : d # c => kcore'[d] = kcore[d] /\ last'[d] = last[d]
        /\ lru'[n][g].pos = lru[n][g].pos
    BY <1>1, <1>4, <1>5, Zenon
  <2> QED
    BY <2>1, <2>2, <2>3, <2>4, OthersKeep, Zenon
<1> QED
  BY <1>6, <1>7, <1>8, Zenon DEF KatranInv, EntriesKept

LEMMA KatranStep == KatranInv /\ [KatranNext]_katranVars => KatranInv'
<1> SUFFICES ASSUME KatranInv, [KatranNext]_katranVars PROVE KatranInv'
  BY Zenon
<1>1. ASSUME NEW c \in Cpus, process_packet(c) PROVE KatranInv'
  BY <1>1, LookupStep, CountStep, ReadStep, UpdateStep, SendStep, Zenon DEF process_packet, Flows
<1>2. ASSUME KatranShape', UNCHANGED <<lru, rate, kcore, last, stale, entered>>,
             \A m \in Caches, f \in Cached : Hit(m, f)' => Hit(m, f)
      PROVE  KatranInv'
  <2>1. RatesCount'
    BY <1>2, Zenon DEF KatranInv, RatesCount, WithinRate, Entering
  <2>2. EntriesKept'
    <3> SUFFICES ASSUME NEW m \in Caches, NEW f \in Cached, Hit(m, f)' PROVE Kept(m, f)'
      BY Zenon DEF EntriesKept
    <3>1. Kept(m, f)
      BY <1>2, Zenon DEF KatranInv, EntriesKept
    <3>2. ASSUME NEW c \in Cpus, Owner(c, m, f) PROVE Owner(c, m, f)'
      BY <1>2, <3>2, Zenon DEF Owner, Harmless
    <3> QED
      BY <1>2, <3>1, <3>2, Zenon DEF Kept
  <2> QED
    BY <1>2, <2>1, <2>2, Zenon DEF KatranInv
<1>3. ASSUME NEW h \in 0 .. RING_SIZE - 1, NEW real \in Reals, ChangeRing(h, real) PROVE KatranInv'
  <2>1. KatranShape'
    BY <1>3, Zenon DEF ChangeRing, KatranInv, KatranShape
  <2>2. /\ UNCHANGED <<lru, rate, kcore, last, stale, entered>>
        /\ \A m \in Caches, f \in Cached : Hit(m, f)' => Hit(m, f)
    BY <1>3 DEF ChangeRing, Hit
  <2> QED
    BY <1>2, <2>1, <2>2, Zenon
<1>4. CASE Tick
  <2>1. /\ ktime \in Nat /\ ktime' = ktime + 1
        /\ UNCHANGED <<ch_rings, lru, rate, kcore, last, stale, entered>>
    BY <1>4, Zenon DEF Tick, KatranInv, KatranShape
  <2>2. KatranShape'
    <3>1. ktime' \in Nat
      BY <2>1
    <3> QED
      BY <2>1, <3>1, Zenon DEF KatranInv, KatranShape
  <2>3. ASSUME NEW m \in Caches, NEW f \in Cached, Hit(m, f)' PROVE Hit(m, f)
    <3>1. f \in DOMAIN lru'[m] /\ (f \in Udp => ktime' - lru'[m][f].atime <= LRU_UDP_TIMEOUT)
      BY <2>3, Zenon DEF Hit
    <3>2. lru[m][f].atime \in Nat /\ LRU_UDP_TIMEOUT \in Nat
      BY <2>1, <3>1, KatranAssumption, Zenon DEF KatranInv, KatranShape, Entries
    <3> QED
      BY <2>1, <3>1, <3>2 DEF Hit
  <2> QED
    BY <1>2, <2>1, <2>2, <2>3, Zenon
<1>5. CASE UNCHANGED katranVars
  <2>1. KatranShape'
    BY <1>5, Zenon DEF katranVars, KatranInv, KatranShape
  <2>2. /\ UNCHANGED <<lru, rate, kcore, last, stale, entered>>
        /\ \A m \in Caches, f \in Cached : Hit(m, f)' => Hit(m, f)
    BY <1>5, Zenon DEF katranVars, Hit
  <2> QED
    BY <1>2, <2>1, <2>2, Zenon
<1> QED
  BY <1>1, <1>3, <1>4, <1>5, Zenon DEF KatranNext

LEMMA KatranInvariant == KatranSpec => []KatranInv
BY KatranInitial, KatranStep, PTL DEF KatranSpec

\* Within one time quantum no core enters more than MAX_CONN_RATE connections
\* in its cache, whatever it shares the cache with.  (is_under_flood)
THEOREM FloodsBounded == KatranSpec => []EntriesPerSecond
<1>1. KatranInv => EntriesPerSecond
  <2> SUFFICES ASSUME KatranInv, NEW c \in Cpus PROVE entered[c] <= MAX_CONN_RATE
    BY Zenon DEF EntriesPerSecond
  <2>1. entered[c] \in Nat /\ MAX_CONN_RATE \in Nat /\ WithinRate(c) /\ Entering(c) \in {0, 1}
    BY KatranAssumption, Zenon DEF KatranInv, RatesCount, Entering
  <2> QED
    BY <2>1 DEF WithinRate
<1> QED
  BY <1>1, KatranInvariant, PTL

\* An entry that would be used names the server that a core with this cache
\* sends, or last sent, its packet of the flow to, but for a SYN in a flood: for
\* caches of any size, private or shared by any number of cores, at every step
\* between the lookup of one core and the update of another, and for any changes
\* of the ring.  (process_packet, get_packet_dst)
THEOREM ConnectionsStay == KatranSpec => []EntryNamesServer
<1>1. KatranInv => EntryNamesServer
  BY Zenon DEF KatranInv, EntriesKept, Kept, Owner, EntryNamesServer
<1> QED
  BY <1>1, KatranInvariant, PTL
=============================================================================
