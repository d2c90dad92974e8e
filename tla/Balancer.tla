------------------------------ MODULE Balancer ------------------------------
(***************************************************************************)
(* VigLB: lb_main.c on lb_balancer.c.  Backends announce themselves by     *)
(* heartbeats; a client's flow is given a backend by the consistent        *)
(* hashing table (module Cht) and keeps it while both stay in their        *)
(* tables.  One step is one call of nf_core_process.                       *)
(***************************************************************************)
EXTENDS FlowTable, PriorityLists

CONSTANTS
  Ips,                 \* the addresses of backends
  Nics,                \* the devices they are behind; device 0 is the client's
  BackendCapacity,     \* backend_capacity
  ChtHeight,           \* cht_height
  FlowExpiration,      \* flow_expiration_time
  BackendExpiration    \* backend_expiration_time

\* Keys and Capacity are those of the flow table.
ASSUME BalancerAssumption ==
  /\ BackendCapacity \in 1 .. Capacity
  /\ BackendCapacity < ChtHeight
  /\ FlowExpiration \in Nat \ {0} /\ BackendExpiration \in Nat \ {0}

VARIABLES
  flows,                   \* flow_to_flow_id, flow_heap and flow_chain
  flow_id_to_backend_id,
  active,                  \* ip_to_backend_id, backend_ips and active_backends
  backends,                \* the address and the device of every backend index
  flow_hash,               \* lb_flow_hash
  now,                     \* the time of the last packet
  out,                     \* what became of it
  broken,                  \* map_erase was called for a key the map has not
  heard,                   \* history: the last heartbeat that was taken, by address
  served                   \* history: the backend that last served a flow, until
                           \* that backend expires

vars == <<flows, flow_id_to_backend_id, active, backends, flow_hash, now, out,
          broken, heard, served>>

B == INSTANCE FlowTable WITH Keys <- Ips, Capacity <- BackendCapacity

BackendIds == 0 .. BackendCapacity - 1
None == "none"
Drop == [to |-> "none"]
ToBackend(f, b) == [to |-> "backend", flow |-> f, ip |-> b.ip, nic |-> b.nic]

-----------------------------------------------------------------------------
(* The consistent hashing table, as lb_fill_cht leaves it (module Cht).    *)

cht == PriorityTable(ChtHeight, BackendCapacity)

\* lb_find_preferred_available_backend; -1 if it gives up.
preferred(f, ids) ==
  LET Candidate(k) == cht[(flow_hash[f] + k) % ChtHeight]
      Hit(k) == Candidate(k) \in ids /\ \A l \in 0 .. k - 1 : Candidate(l) \notin ids
  IN  IF \E k \in BackendIds : Hit(k)
      THEN Candidate(CHOOSE k \in BackendIds : Hit(k)) ELSE -1

-----------------------------------------------------------------------------
(* Expiry, before every packet.                                            *)

lb_expire_flows(time) == Expire(flows, time - FlowExpiration)

lb_expire_backends(time) == B!Expire(active, time - BackendExpiration)

\* The expired flows are erased one by one: breaks the contract of map.h if a
\* key is no longer in the map when its turn comes.
ErasesAbsent(time) ==
  LET gone == Live(flows) \ Live(lb_expire_flows(time))
  IN  \/ \E i \in gone : flows.map[flows.vec[i]] = Absent
      \/ \E i, j \in gone : i # j /\ flows.vec[i] = flows.vec[j]

\* The backend of a flow is remembered only as long as it is active.
StillServed(time) ==
  [f \in Keys |-> IF served[f] # None /\ lb_expire_backends(time).map[served[f]] = Absent
                  THEN None ELSE served[f]]

\* lb_allocate_balancer: the vectors are filled with one value each.
Init ==
  /\ flows \in Tables /\ Empty(flows)
  /\ \E f \in Keys : flows.vec = [i \in Indexes |-> f]
  /\ flow_id_to_backend_id = [i \in Indexes |-> 0]
  /\ active \in B!Tables /\ B!Empty(active)
  /\ \E ip \in Ips, nic \in Nics :
       /\ active.vec = [i \in BackendIds |-> ip]
       /\ backends = [i \in BackendIds |-> [ip |-> ip, nic |-> nic]]
  /\ flow_hash \in [Keys -> 0 .. ChtHeight - 1]
  /\ now = 0
  /\ out = Drop
  /\ broken = FALSE
  /\ heard = [ip \in Ips |-> Absent]
  /\ served = [f \in Keys |-> None]

-----------------------------------------------------------------------------
(* nf_core_process.                                                        *)

\* A packet that is not IPv4, or neither TCP nor UDP.
Other(time) ==
  /\ flows' = lb_expire_flows(time)
  /\ active' = lb_expire_backends(time)
  /\ out' = Drop
  /\ served' = StillServed(time)
  /\ UNCHANGED <<flow_id_to_backend_id, backends, heard>>

\* lb_process_heartbit: a new backend, unless the table is full, or a known
\* one, whose device is not updated.
lb_process_heartbit(ip, nic, time) ==
  LET b == lb_expire_backends(time)
  IN  /\ flows' = lb_expire_flows(time)
      /\ \/ /\ b.map[ip] # Absent
            /\ active' = B!Rejuvenate(b, b.map[ip], time)
            /\ heard' = [heard EXCEPT ![ip] = time]
            /\ UNCHANGED backends
         \/ /\ b.map[ip] = Absent
            /\ \E i \in BackendIds \ B!Live(b) :
                 /\ active' = B!Insert(b, ip, i, time)
                 /\ backends' = [backends EXCEPT ![i] = [ip |-> ip, nic |-> nic]]
            /\ heard' = [heard EXCEPT ![ip] = time]
         \/ /\ b.map[ip] = Absent
            /\ B!Live(b) = BackendIds
            /\ active' = b
            /\ UNCHANGED <<backends, heard>>
      /\ out' = Drop
      /\ served' = StillServed(time)
      /\ UNCHANGED flow_id_to_backend_id

\* Mutant of NewFlow: the backend of the flow is not written to the vector.
NewFlowUnassigned(f, t, b, time) ==
  LET id == preferred(f, B!Live(b))
  IN  /\ id # -1
      /\ out' = ToBackend(f, backends[id])
      /\ served' = [StillServed(time) EXCEPT ![f] = backends[id].ip]
      /\ \E i \in Indexes \ Live(t) : flows' = Insert(t, f, i, time)
      /\ UNCHANGED flow_id_to_backend_id

\* lb_get_backend for a flow that is not in the map of t: it is sent to the
\* preferred backend and stored if there is room.
NewFlow(f, t, b, time) ==
  LET id == preferred(f, B!Live(b))
  IN  \/ /\ id = -1
         /\ flows' = t
         /\ out' = Drop
         /\ served' = StillServed(time)
         /\ UNCHANGED flow_id_to_backend_id
      \/ /\ id # -1
         /\ out' = ToBackend(f, backends[id])
         /\ served' = [StillServed(time) EXCEPT ![f] = backends[id].ip]
         /\ \/ \E i \in Indexes \ Live(t) :
                 /\ flows' = Insert(t, f, i, time)
                 /\ flow_id_to_backend_id' = [flow_id_to_backend_id EXCEPT ![i] = id]
            \/ /\ Live(t) = Indexes
               /\ flows' = t
               /\ UNCHANGED flow_id_to_backend_id

\* Mutant of lb_get_backend: the backend of a known flow is not tested.
GetBackendUntested(f, time) ==
  LET t == lb_expire_flows(time)
      b == lb_expire_backends(time)
      id == flow_id_to_backend_id[t.map[f]]
  IN  /\ active' = b
      /\ \/ /\ t.map[f] # Absent
            /\ flows' = Rejuvenate(t, id, time)
            /\ out' = ToBackend(f, backends[id])
            /\ served' = [StillServed(time) EXCEPT ![f] = backends[id].ip]
            /\ UNCHANGED flow_id_to_backend_id
         \/ t.map[f] = Absent /\ NewFlow(f, t, b, time)
      /\ UNCHANGED <<backends, heard>>

\* A client's packet.  A flow whose backend has expired is erased from the map
\* and treated as a new one; its index stays allocated in the chain.  A flow
\* whose backend is active stays with it; the index that is rejuvenated is that
\* of the backend.
lb_get_backend(f, time) ==
  LET t == lb_expire_flows(time)
      b == lb_expire_backends(time)
      id == flow_id_to_backend_id[t.map[f]]
  IN  /\ active' = b
      /\ \/ /\ t.map[f] # Absent /\ id \in B!Live(b)
            /\ flows' = Rejuvenate(t, id, time)
            /\ out' = ToBackend(f, backends[id])
            /\ served' = [StillServed(time) EXCEPT ![f] = backends[id].ip]
            /\ UNCHANGED flow_id_to_backend_id
         \/ /\ t.map[f] # Absent /\ id \notin B!Live(b)
            /\ NewFlow(f, [t EXCEPT !.map[f] = Absent], b, time)
         \/ t.map[f] = Absent /\ NewFlow(f, t, b, time)
      /\ UNCHANGED <<backends, heard>>

Packet(time) ==
  \/ Other(time)
  \/ \E ip \in Ips, nic \in Nics : lb_process_heartbit(ip, nic, time)
  \/ \E f \in Keys : lb_get_backend(f, time)

\* After map_erase of an absent key the model says no more.
Next ==
  \/ /\ ~broken
     /\ \E time \in now .. MaxTime :
          /\ Packet(time)
          /\ now' = time
          /\ broken' = ErasesAbsent(time)
     /\ UNCHANGED flow_hash
  \/ broken /\ UNCHANGED vars

Spec == Init /\ [][Next]_vars

-----------------------------------------------------------------------------
(* Properties.                                                             *)

\* The tables of the backends agree, with the copy of the address in backends
\* too, and a backend is active if and only if its last heartbeat that was
\* taken is at most BackendExpiration ago.
BackendsCoherent ==
  /\ B!Coherent(active)
  /\ \A i \in B!Live(active) : backends[i].ip = active.vec[i]
  /\ \A ip \in Ips :
       active.map[ip] # Absent
         <=> heard[ip] # Absent /\ heard[ip] >= now - BackendExpiration

\* The map of the flows leads to an index that is allocated and holds the flow,
\* although flows are erased from the map without freeing their index.
FlowsLeadHome ==
  ~broken => \A f \in Keys : flows.map[f] # Absent =>
                               /\ flows.map[f] \in Live(flows)
                               /\ flows.vec[flows.map[f]] = f

\* A flow in the table stays with the backend that served it last until that
\* backend expires, whatever other backends come and go in the meantime.
Affinity ==
  ~broken => \A f \in Keys : flows.map[f] # Absent /\ served[f] # None =>
               backends[flow_id_to_backend_id[flows.map[f]]].ip = served[f]

\* A request is sent only to a backend whose heartbeat is recent.
SentToActive ==
  [][out'.to = "backend" => heard[out'.ip] >= now' - BackendExpiration]_vars

\* The abstract state of lb_abstract.h: the entry of a known flow is given the
\* time of the packet (rejuvenate_lb_entry), when its backend is active.
FlowRejuvenated ==
  [][\A f \in Keys :
       /\ out'.to = "backend" /\ out'.flow = f
       /\ flows.map[f] # Absent /\ flows'.map[f] = flows.map[f]
       => flows'.heap[flows'.map[f]] = now']_vars
=============================================================================
