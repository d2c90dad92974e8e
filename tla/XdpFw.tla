------------------------------- MODULE XdpFw -------------------------------
(***************************************************************************)
(* The eBPF firewall: xdp_fw_prog of xdp_fw_kern.h on several cores, and   *)
(* the program xdp_fw_user.c that attaches it to an inner and an outer     *)
(* device.  A packet from the inner device enters its flow in a table and  *)
(* leaves by the outer device; a packet from the outer device passes if    *)
(* its flow is in the table.  Cores look up and update the shared table in *)
(* separate steps.                                                         *)
(***************************************************************************)
EXTENDS Naturals, FiniteSets

CONSTANTS
  Packets,      \* packets of one protocol, TCP or UDP (the key holds it too):
                \* [ip_src, ip_dst, l4_src, l4_dst]
  MaxFlows,     \* max_entries of flow_ctx_table
  FwCores       \* the cores that receive packets

ASSUME FwAssumption ==
  /\ MaxFlows \in Nat \ {0}
  /\ Packets \subseteq [ip_src : Nat, ip_dst : Nat, l4_src : Nat, l4_dst : Nat]

VARIABLES
  flow_ctx_table,   \* the keys in the table; every entry names A_PORT
  tx_port,          \* the device map's keys that have been set
  hooks,            \* the devices the program is attached to
  user,             \* the program counter of xdp_fw_user
  fwcore,           \* each core's program counter and locals
  sent, refused     \* history: the packets that came from the inner device, and
                    \* those of them that found the table full

fwVars == <<flow_ctx_table, tx_port, hooks, user, fwcore, sent, refused>>

A_PORT == 6
B_PORT == 7

Sorted(x, y) == IF x > y THEN <<y, x>> ELSE <<x, y>>

\* Mutant of biflow: the ports are no part of the key.
AddressesOnly(p) == [ip |-> Sorted(p.ip_src, p.ip_dst), l4 |-> <<0, 0>>]

\* The addresses and the ports are put in order independently.
biflow(p) == [ip |-> Sorted(p.ip_src, p.ip_dst), l4 |-> Sorted(p.l4_src, p.l4_dst)]

FwVerdicts == {"XDP_DROP", "XDP_REDIRECT", "XDP_ABORTED"}
FwDone(verdict) == [pc |-> verdict]
Handling(pc, p, from, to) == [pc |-> pc, packet |-> p, from |-> from, to |-> to]

FwInit ==
  /\ flow_ctx_table = {}
  /\ tx_port = {}
  /\ hooks = {}
  /\ user = "attach_in"
  /\ fwcore = [c \in FwCores |-> FwDone("XDP_DROP")]
  /\ sent = {} /\ refused = {}

-----------------------------------------------------------------------------

\* xdp_fw_user.c main: the program is attached before the device map is set.
AttachIn ==
  /\ user = "attach_in"
  /\ hooks' = hooks \cup {A_PORT}
  /\ user' = "attach_out"
  /\ UNCHANGED <<flow_ctx_table, tx_port, fwcore, sent, refused>>

AttachOut ==
  /\ user = "attach_out"
  /\ hooks' = hooks \cup {B_PORT}
  /\ user' = "update"
  /\ UNCHANGED <<flow_ctx_table, tx_port, fwcore, sent, refused>>

SetTxPort ==
  /\ user = "update"
  /\ tx_port' = tx_port \cup {B_PORT}
  /\ user' = "poll"
  /\ UNCHANGED <<flow_ctx_table, hooks, fwcore, sent, refused>>

\* A call that fails, or a signal before the handlers are installed: the
\* program ends, and what is attached stays attached.
KilledEarly ==
  /\ user \in {"attach_in", "attach_out", "update"}
  /\ user' = "gone"
  /\ UNCHANGED <<flow_ctx_table, tx_port, hooks, fwcore, sent, refused>>

\* int_exit: the outer device first.
int_exit ==
  /\ \/ /\ user \in {"update", "poll"}
        /\ hooks' = hooks \ {B_PORT}
        /\ user' = "exit"
     \/ /\ user = "exit"
        /\ hooks' = hooks \ {A_PORT}
        /\ user' = "gone"
  /\ UNCHANGED <<flow_ctx_table, tx_port, fwcore, sent, refused>>

-----------------------------------------------------------------------------

\* xdp_fw_prog on a packet that is neither TCP nor UDP over IPv4, or is cut.
DropOther(c) ==
  /\ fwcore[c].pc \in FwVerdicts /\ hooks # {}
  /\ fwcore' = [fwcore EXCEPT ![c] = FwDone("XDP_DROP")]
  /\ UNCHANGED <<flow_ctx_table, tx_port, hooks, user, sent, refused>>

\* xdp_fw_prog: the lookup for a packet from the outer device.
LookupFromB(c, p) ==
  /\ fwcore[c].pc \in FwVerdicts /\ B_PORT \in hooks
  /\ \/ /\ biflow(p) \in flow_ctx_table
        /\ fwcore' = [fwcore EXCEPT ![c] = Handling("redirect", p, B_PORT, A_PORT)]
     \/ /\ biflow(p) \notin flow_ctx_table
        /\ fwcore' = [fwcore EXCEPT ![c] = FwDone("XDP_DROP")]
  /\ UNCHANGED <<flow_ctx_table, tx_port, hooks, user, sent, refused>>

\* xdp_fw_prog: the lookup for a packet from any other device.
LookupFromA(c, p) ==
  LET pc == IF biflow(p) \in flow_ctx_table THEN "redirect" ELSE "update"
  IN  /\ fwcore[c].pc \in FwVerdicts /\ A_PORT \in hooks
      /\ fwcore' = [fwcore EXCEPT ![c] = Handling(pc, p, A_PORT, B_PORT)]
      /\ sent' = sent \cup {p}
      /\ UNCHANGED <<flow_ctx_table, tx_port, hooks, user, refused>>

\* Mutant of UpdateFlow: a flow takes the place of another if the table is full.
UpdateFlowEvicting(c) ==
  /\ fwcore[c].pc = "update"
  /\ flow_ctx_table' = {biflow(fwcore[c].packet)} \cup
       IF Cardinality(flow_ctx_table) < MaxFlows THEN flow_ctx_table
       ELSE flow_ctx_table \ {CHOOSE k \in flow_ctx_table : TRUE}
  /\ fwcore' = [fwcore EXCEPT ![c].pc = "redirect"]
  /\ UNCHANGED <<tx_port, hooks, user, sent, refused>>

\* bpf_map_update_elem with BPF_ANY; that the table is full is not noticed.
UpdateFlow(c) ==
  LET key == biflow(fwcore[c].packet)
  IN  /\ fwcore[c].pc = "update"
      /\ flow_ctx_table' = IF Cardinality(flow_ctx_table) < MaxFlows
                           THEN flow_ctx_table \cup {key} ELSE flow_ctx_table
      /\ fwcore' = [fwcore EXCEPT ![c].pc = "redirect"]
      /\ refused' = IF key \in flow_ctx_table' THEN refused
                    ELSE refused \cup {fwcore[c].packet}
      /\ UNCHANGED <<tx_port, hooks, user, sent>>

\* bpf_redirect_map: a device that has not been set aborts the packet.
Redirect(c) ==
  LET set == fwcore[c].to \in tx_port
  IN  /\ fwcore[c].pc = "redirect"
      /\ fwcore' = [fwcore EXCEPT ![c] = FwDone(IF set THEN "XDP_REDIRECT" ELSE "XDP_ABORTED")]
      /\ UNCHANGED <<flow_ctx_table, tx_port, hooks, user, sent, refused>>

FwNext ==
  \/ AttachIn \/ AttachOut \/ SetTxPort \/ KilledEarly \/ int_exit
  \/ \E c \in FwCores :
       \/ DropOther(c) \/ UpdateFlow(c) \/ Redirect(c)
       \/ \E p \in Packets : LookupFromA(c, p) \/ LookupFromB(c, p)

FwSpec == FwInit /\ [][FwNext]_fwVars

-----------------------------------------------------------------------------

FwTypeOK ==
  /\ flow_ctx_table \subseteq {biflow(p) : p \in Packets} /\ Cardinality(flow_ctx_table) <= MaxFlows
  /\ tx_port \subseteq {A_PORT, B_PORT}
  /\ hooks \subseteq {A_PORT, B_PORT}
  /\ user \in {"attach_in", "attach_out", "update", "poll", "exit", "gone"}
  /\ \A c \in FwCores :
       \/ fwcore[c] \in {FwDone(v) : v \in FwVerdicts}
       \/ fwcore[c].pc \in {"update", "redirect"} /\ fwcore[c].packet \in Packets
  /\ sent \subseteq Packets /\ refused \subseteq sent

\* The packet that answers p.
Answer(p) == [ip_src |-> p.ip_dst, ip_dst |-> p.ip_src, l4_src |-> p.l4_dst, l4_dst |-> p.l4_src]

\* The same two hosts and the same two ports, each pair in either order.
SameEnds(p, q) ==
  /\ {p.ip_src, p.ip_dst} = {q.ip_src, q.ip_dst}
  /\ {p.l4_src, p.l4_dst} = {q.l4_src, q.l4_dst}

\* A packet from the outer device goes on only if a packet between the same
\* hosts and the same ports came from the inner device before it.  It need not
\* be an answer to that packet: the key does not tell it from one that comes
\* from the wrong host, or with its ports exchanged.  (xdp_fw_prog, biflow)
OnlySameEndsEnter ==
  \A c \in FwCores : fwcore[c].pc = "redirect" /\ fwcore[c].from = B_PORT =>
    \E p \in sent : SameEnds(p, fwcore[c].packet)

\* What was let out is let in, and for good: the answer to a packet from inside
\* finds its flow in the table, unless the packet's core has still to enter it
\* or found the table full; neither cores that enter the same flow at once nor
\* a table that fills up later lose it.
\* (xdp_fw_prog: the lookup and the update are separate)
AnswersAdmitted ==
  \A p \in sent :
    \/ biflow(Answer(p)) \in flow_ctx_table
    \/ p \in refused /\ Cardinality(flow_ctx_table) = MaxFlows
    \/ \E c \in FwCores : fwcore[c].pc = "update" /\ fwcore[c].packet = p

\* Once xdp_fw_user has set up the device map, no packet the firewall lets
\* through is lost for want of a device.  (xdp_fw_user.c main)
AdmittedPacketsLeave ==
  user = "poll" =>
    \A c \in FwCores : fwcore[c].pc = "redirect" => fwcore[c].to \in tx_port

=============================================================================
