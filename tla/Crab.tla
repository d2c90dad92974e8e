------------------------------- MODULE Crab --------------------------------
(***************************************************************************)
(* The crab load balancer: the XDP program lb_kern.c on several cores, the *)
(* loader and the configurator, over the BPF maps they share.  A core that *)
(* handles a SYN reads the count, a target and a MAC one after the other;  *)
(* it runs the program that was attached when the packet arrived, even if  *)
(* another replaces it meanwhile.                                          *)
(***************************************************************************)
EXTENDS LbCfg

CONSTANTS
  Cores,   \* the cores that receive packets
  U32      \* the number of values of the round-robin counter

ASSUME CoreAssumption == U32 \in Nat \ {0}

VARIABLES
  core,    \* each core's program counter and locals
  rr_idx   \* the contents of each object's cpu_rr_idx, per core

vars == <<loaderVars, kills, cfgVars, core, rr_idx>>

\* What became of the last SYN, while the core handles none.
Verdicts == {"XDP_PASS", "XDP_ABORTED", "XDP_TX"}
Done(verdict) == [pc |-> verdict, prog |-> Nowhere, configured |-> FALSE, key |-> 0, daddr |-> Zero]

CoreInit ==
  /\ core = [c \in Cores |-> Done("XDP_PASS")]
  /\ rr_idx = [o \in Objects |-> [c \in Cores |-> 0]]

Init == LoaderInit /\ CfgInit /\ CoreInit /\ kills = 0 /\ configs = 0

-----------------------------------------------------------------------------

\* xdp_prog_simple: a packet that is not IPv4 and TCP, or has ACK or no SYN, is
\* passed on, and one that is cut is aborted; neither leaves a trace.  What
\* follows is handle_syn on a packet with room for its headers.

\* Mutant of get_target_idx_rr: one index too many, and no wraparound.
OneIndexTooMany(c) ==
  LET p == device.prog
      n == count[p["targets_count"]]
      idx == rr_idx[p["cpu_rr_idx"]][c]
  IN  /\ core[c].pc \in Verdicts /\ Busy
      /\ core' = [core EXCEPT ![c] = [pc |-> "target", prog |-> p, configured |-> n > 0,
                                      key |-> idx % (n + 1), daddr |-> Zero]]
      /\ rr_idx' = [rr_idx EXCEPT ![p["cpu_rr_idx"]][c] = @ + 1]
      /\ UNCHANGED <<loaderVars, kills, cfgVars>>

\* get_target_idx_rr, for a SYN.  Without a configuration the count is 0, and
\* the remainder is the dividend, or ends the program on older kernels.
get_target_idx_rr(c) ==
  LET p == device.prog
      n == count[p["targets_count"]]
      idx == rr_idx[p["cpu_rr_idx"]][c]
      Drawn(key) == [pc |-> "target", prog |-> p, configured |-> n > 0, key |-> key, daddr |-> Zero]
  IN  /\ core[c].pc \in Verdicts /\ Busy
      /\ \/ n > 0 /\ core' = [core EXCEPT ![c] = Drawn(idx % n)]
         \/ n = 0 /\ core' = [core EXCEPT ![c] = Drawn(idx)]
         \/ n = 0 /\ core' = [core EXCEPT ![c] = Done("XDP_ABORTED")]
      /\ rr_idx' = [rr_idx EXCEPT ![p["cpu_rr_idx"]][c] = (@ + 1) % U32]
      /\ UNCHANGED <<loaderVars, kills, cfgVars>>

get_target(c) ==
  LET o == core[c].prog["targets_map"]
  IN  /\ core[c].pc = "target"
      /\ \/ /\ core[c].key \in Slots
            /\ core' = [core EXCEPT ![c].pc = "mac", ![c].daddr = targets[o][core[c].key]]
         \/ /\ core[c].key \notin Slots
            /\ core' = [core EXCEPT ![c] = Done("XDP_ABORTED")]
      /\ UNCHANGED <<loaderVars, kills, cfgVars, rr_idx>>

update_macs(c) ==
  LET known == core[c].daddr \in DOMAIN macs[core[c].prog["macs_map"]]
  IN  /\ core[c].pc = "mac"
      /\ core' = [core EXCEPT ![c] = Done(IF known THEN "XDP_TX" ELSE "XDP_ABORTED")]
      /\ UNCHANGED <<loaderVars, kills, cfgVars, rr_idx>>

CoreNext(c) == get_target_idx_rr(c) \/ get_target(c) \/ update_macs(c)

Next ==
  \/ LoaderNext /\ UNCHANGED <<cfgVars, core, rr_idx>>
  \/ CfgNext /\ UNCHANGED <<loaderVars, core, rr_idx>>
  \/ \E c \in Cores : CoreNext(c)

Spec == Init /\ [][Next]_vars

-----------------------------------------------------------------------------

TypeOK ==
  /\ LoaderTypeOK /\ CfgTypeOK
  /\ \A c \in Cores : /\ core[c].pc \in Verdicts \cup {"target", "mac"}
                      /\ core[c].daddr \in Ips \cup {Zero}
  /\ rr_idx \in [Objects -> [Cores -> 0 .. U32 - 1]]

\* The object of a program whose maps belong together.
Objects1(p) == {o \in Objects \ crossed : \A m \in Names : p[m] = o}

\* A SYN that found a configuration is lost only to the server lb_cfg is
\* between the two entries of: the index stays good while the configuration
\* is rewritten and shrinks, the program is replaced or the loader or the
\* configurator is killed.  (handle_syn: get_target, update_macs)
SynForwarded ==
  \A c \in Cores : \A o \in Objects1(core[c].prog) : core[c].configured =>
    /\ core[c].pc = "target" =>
         core[c].key \in Slots /\ targets[o][core[c].key] # Zero
    /\ core[c].pc = "mac" =>
         core[c].daddr \in DOMAIN macs[o] \/ <<o, core[c].daddr>> \in torn \cup Window

=============================================================================
