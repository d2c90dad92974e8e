------------------------------ MODULE Firewall ------------------------------
(***************************************************************************)
(* VigFW: fw.c on fw-flowmanager.c.  Packets that leave open their flow;   *)
(* a packet that comes in from the WAN device passes only if it answers a  *)
(* flow that is open.  One step is one call of nf_core_process.            *)
(***************************************************************************)
EXTENDS FlowTable

CONSTANTS
  Expire_arg,   \* the argument of --expire
  Uints         \* the number of values of a uint32_t

\* A packet's flow is the pair <<source, destination>> of its endpoints.
\* fw_config_init refuses an expiration time of 0, after the conversion.
ASSUME FirewallAssumption ==
  /\ Uints \in Nat \ {0}
  /\ Expire_arg \in Nat /\ Expire_arg % Uints # 0
  /\ \A f \in Keys : f = <<f[1], f[2]>> /\ <<f[2], f[1]>> \in Keys

VARIABLES
  table,   \* flow_manager->state: fm, fv and heap
  now,     \* the time of the last packet
  out,     \* what became of it
  seen     \* history: when a packet of the flow, out or in, last passed

vigfwVars == <<table, now, out, seen>>

Drop == [to |-> "none"]
Refused(flow) == [to |-> "none", flow |-> flow]
ToWan(flow) == [to |-> "wan", flow |-> flow]
ToLan(flow) == [to |-> "lan", flow |-> flow]

\* config.expiration_time is a uint32_t
expiration_time == Expire_arg % Uints

\* Mutant of Flip: a packet from outside is looked up as it is.
FlipNot(f) == f

\* The flow that a packet of flow f answers.
Flip(f) == <<f[2], f[1]>>

flow_manager_expire(t, time) == Expire(t, time - expiration_time)

VigfwInit ==
  /\ table \in Tables /\ Empty(table)
  /\ now = 0
  /\ out = Drop
  /\ seen = [f \in Keys |-> Absent]

\* A packet that is not IPv4, or neither TCP nor UDP.
Other(time) ==
  /\ table' = flow_manager_expire(table, time)
  /\ out' = Drop
  /\ UNCHANGED seen

\* Mutant of Internal: the flow's entry is looked up before flows expire.
InternalStale(f, time) ==
  LET t == flow_manager_expire(table, time)
  IN  \/ /\ table.map[f] # Absent
         /\ table' = Rejuvenate(t, table.map[f], time)
         /\ out' = ToWan(f)
         /\ seen' = [seen EXCEPT ![f] = time]
      \/ /\ table.map[f] = Absent
         /\ \E i \in Indexes \ Live(t) :
              /\ table' = Insert(t, f, i, time)
              /\ out' = ToWan(f)
              /\ seen' = [seen EXCEPT ![f] = time]
      \/ /\ table.map[f] = Absent
         /\ Live(t) = Indexes
         /\ table' = t
         /\ out' = Refused(f)
         /\ UNCHANGED seen

\* A packet of flow f on a device that is not the WAN device.
Internal(f, time) ==
  LET t == flow_manager_expire(table, time)
      Forward == out' = ToWan(f) /\ seen' = [seen EXCEPT ![f] = time]
  IN  \/ /\ t.map[f] # Absent
         /\ table' = Rejuvenate(t, t.map[f], time)
         /\ Forward
      \/ /\ t.map[f] = Absent
         /\ \E i \in Indexes \ Live(t) : table' = Insert(t, f, i, time)
         /\ Forward
      \/ /\ t.map[f] = Absent
         /\ Live(t) = Indexes
         /\ table' = t
         /\ out' = Refused(f)
         /\ UNCHANGED seen

\* A packet of flow f on the WAN device.
External(f, time) ==
  LET t == flow_manager_expire(table, time)
      id == Flip(f)
  IN  \/ /\ t.map[id] # Absent
         /\ table' = Rejuvenate(t, t.map[id], time)
         /\ out' = ToLan(f)
         /\ seen' = [seen EXCEPT ![id] = time]
      \/ /\ t.map[id] = Absent
         /\ table' = t
         /\ out' = Drop
         /\ UNCHANGED seen

Packet(time) ==
  \/ Other(time)
  \/ \E f \in Keys : Internal(f, time)
  \/ \E f \in Keys : External(f, time)

VigfwNext == \E time \in now .. MaxTime : Packet(time) /\ now' = time

VigfwSpec == VigfwInit /\ [][VigfwNext]_vigfwVars

-----------------------------------------------------------------------------
(* Properties.                                                             *)

VigfwTypeOK ==
  /\ table \in Tables
  /\ now \in Times
  /\ out \in {Drop} \cup {Refused(f) : f \in Keys} \cup {ToWan(f) : f \in Keys}
             \cup {ToLan(f) : f \in Keys}
  /\ seen \in [Keys -> Times \cup {Absent}]

OpenFor(f, t, span) == seen[f] # Absent /\ seen[f] >= t - span

\* The map, the vector and the chain agree after every packet, and a flow is in
\* the table if and only if one of its packets passed, out or in, at most
\* expiration_time ago.
OpenWhileActive ==
  /\ Coherent(table)
  /\ \A f \in Keys : table.map[f] # Absent <=> OpenFor(f, now, expiration_time)

\* A packet comes in only as the answer to a flow that is open from inside, and
\* a packet that leaves is refused only when every index of the table belongs
\* to another flow that is open.
PassesSound ==
  [][/\ out'.to = "lan" =>
          OpenFor(<<out'.flow[2], out'.flow[1]>>, now', expiration_time)
     /\ \A f \in Keys : out' = Refused(f) =>
          \A i \in Indexes :
            /\ table'.vec[i] # f
            /\ OpenFor(table'.vec[i], now', expiration_time)]_vigfwVars
=============================================================================
