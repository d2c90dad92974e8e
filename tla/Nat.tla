-------------------------------- MODULE Nat --------------------------------
(***************************************************************************)
(* VigNAT: nat_forward_vignat.c on nat-flowmanager.c.  A packet from a LAN *)
(* device gives its flow an external port for as long as the flow stays    *)
(* active; a packet from the WAN device is translated back by its port.    *)
(* One step is one call of nf_core_process.                                *)
(***************************************************************************)
EXTENDS FlowTable

CONSTANTS
  StartPort,        \* config.start_port
  Ports,            \* the number of values of a uint16_t
  Expiration        \* config.expiration_time

ASSUME NatAssumption ==
  /\ Ports \in Nat \ {0}
  /\ StartPort \in 0 .. Ports - 1
  /\ Expiration \in Nat \ {0}

VARIABLES
  table,       \* flow_manager->state: fm, fv and heap
  now,         \* the time of the last packet
  out,         \* what became of it
  undefined,   \* the program has read outside of the chain's cells
  told, seen   \* history: the port a flow was last given, and the time of the
               \* last packet forwarded for it (Absent if there was none)

vars == <<table, now, out, undefined, told, seen>>

Drop == [to |-> "none"]
Refused(flow) == [to |-> "none", flow |-> flow]
ToWan(port) == [to |-> "wan", port |-> port]
ToLan(flow, port) == [to |-> "lan", flow |-> flow, port |-> port]

uint16(x) == x % Ports

-----------------------------------------------------------------------------

\* flow_manager_get_internal and flow_manager_allocate_flow
external_port(i) == uint16(StartPort + i)

\* Mutant of flow_manager_expire: a flow lives one instant too long.
ExpireLate(t, time) == Expire(t, time - Expiration - 1)

flow_manager_expire(t, time) == Expire(t, time - Expiration)

Init ==
  /\ table \in Tables /\ Empty(table)
  /\ now = 0
  /\ out = Drop
  /\ undefined = FALSE
  /\ told = [f \in Keys |-> Absent]
  /\ seen = [f \in Keys |-> Absent]

\* A packet that is not IPv4, or neither TCP nor UDP.
Other(time) ==
  /\ table' = flow_manager_expire(table, time)
  /\ out' = Drop
  /\ UNCHANGED <<undefined, told, seen>>

\* A packet of flow f on a device that is not the WAN device.
Internal(f, time) ==
  LET t == flow_manager_expire(table, time)
      Forward(i) == /\ out' = ToWan(external_port(i))
                    /\ told' = [told EXCEPT ![f] = external_port(i)]
                    /\ seen' = [seen EXCEPT ![f] = time]
  IN  /\ \/ /\ t.map[f] # Absent
            /\ table' = Rejuvenate(t, t.map[f], time)
            /\ Forward(t.map[f])
         \/ /\ t.map[f] = Absent
            /\ \E i \in Indexes \ Live(t) :
                 /\ table' = Insert(t, f, i, time)
                 /\ Forward(i)
         \/ /\ t.map[f] = Absent
            /\ Live(t) = Indexes
            /\ table' = t
            /\ out' = Refused(f)
            /\ UNCHANGED <<told, seen>>
      /\ UNCHANGED undefined

\* Mutant of External: a packet from outside does not keep the flow alive.
ExternalWithoutRejuvenation(port, time) ==
  LET t == flow_manager_expire(table, time)
      i == port - StartPort
  IN  /\ i \in Live(t)
      /\ table' = t
      /\ out' = ToLan(t.vec[i], port)
      /\ seen' = [seen EXCEPT ![t.vec[i]] = time]
      /\ UNCHANGED <<undefined, told>>

\* A packet to the given port on the WAN device.  The index is not compared
\* with the size of the table before dchain_is_index_allocated reads its cell:
\* outside of the table the answer is whatever the memory holds.
External(port, time) ==
  LET t == flow_manager_expire(table, time)
      i == port - StartPort
  IN  /\ \/ /\ i \in Live(t)
            /\ table' = Rejuvenate(t, i, time)
            /\ out' = ToLan(t.vec[i], port)
            /\ seen' = [seen EXCEPT ![t.vec[i]] = time]
            /\ UNCHANGED undefined
         \/ /\ i \notin Live(t)
            /\ table' = t
            /\ out' = Drop
            /\ undefined' = (i \notin Indexes)
            /\ UNCHANGED seen
      /\ UNCHANGED told

Packet(time) ==
  \/ Other(time)
  \/ \E f \in Keys : Internal(f, time)
  \/ \E port \in 0 .. Ports - 1 : External(port, time)

\* Once the program has read outside of the chain the model says no more.
Next ==
  \/ /\ ~undefined
     /\ \E time \in now .. MaxTime : Packet(time) /\ now' = time
  \/ undefined /\ UNCHANGED vars

Spec == Init /\ [][Next]_vars

-----------------------------------------------------------------------------
(* Properties.                                                             *)

TypeOK ==
  /\ table \in Tables
  /\ now \in Times
  /\ out \in {Drop} \cup {Refused(f) : f \in Keys}
             \cup {ToWan(p) : p \in 0 .. Ports - 1}
             \cup {ToLan(f, p) : f \in Keys, p \in 0 .. Ports - 1}
  /\ undefined \in BOOLEAN
  /\ told \in [Keys -> 0 .. Ports - 1 \cup {Absent}]
  /\ seen \in [Keys -> Times \cup {Absent}]

\* The map, the vector and the chain agree after every packet (coherence.h),
\* although a packet may expire flows, reuse their indexes and rejuvenate.
TablesCoherent == Coherent(table)

Active(f) == seen[f] # Absent /\ seen[f] >= now - Expiration

\* A flow is translated if and only if a packet of it, in either direction,
\* was forwarded at most Expiration ago, and for all that time it keeps the
\* port it was first given.
MappedWhileActive ==
  \A f \in Keys :
    /\ table.map[f] # Absent <=> Active(f)
    /\ Active(f) => external_port(table.map[f]) = told[f]

\* No two active flows have been given the same port, so a reply cannot reach
\* the wrong one (needs a table that is no larger than the ports from
\* StartPort on).
PortsDistinct ==
  \A f, g \in Keys : Active(f) /\ Active(g) /\ told[f] = told[g] => f = g

\* A packet from outside is delivered only to a flow that was given the port
\* of the packet and has been active since.
DeliveredToOwner ==
  [][out'.to = "lan" => /\ told[out'.flow] = out'.port
                        /\ seen[out'.flow] >= now' - Expiration]_vars

\* A new flow is refused only for want of an index: each one then belongs to
\* another flow that is still active.
RefusedOnlyWhenFull ==
  [][\A f \in Keys : out' = Refused(f) =>
       \A i \in Indexes : \E g \in Keys \ {f} :
         seen[g] >= now' - Expiration /\ told[g] = external_port(i)]_vars
=============================================================================
