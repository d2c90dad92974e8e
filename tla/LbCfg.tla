------------------------------- MODULE LbCfg -------------------------------
(***************************************************************************)
(* lb_cfg: writes the servers of the crab load balancer, a list of         *)
(* addresses with their MACs, into the maps pinned for the device.  Every  *)
(* open and every update is a system call of its own, so that the loader   *)
(* and the cores that run the program see each of them; the process may    *)
(* fail or be killed at any of them.                                       *)
(***************************************************************************)
EXTENDS XdpLoader, FiniteSets

CONSTANTS
  Ips,                \* addresses of servers
  Configs,            \* the --targets arguments: sequences of [ip, mac]
  MAX_TARGET_COUNT,   \* entries of targets_map and of macs_map
  MaxConfigs          \* bound on the runs of lb_cfg

Zero == "0.0.0.0"

\* No server is configured under the address that an unwritten slot holds.
ASSUME ConfigAssumption ==
  /\ MAX_TARGET_COUNT \in Nat \ {0} /\ MaxConfigs \in Nat
  /\ \A c \in Configs : /\ Len(c) \in Nat \ {0} /\ DOMAIN c = 1 .. Len(c)
                         /\ \A i \in DOMAIN c : c[i].ip \in Ips \ {Zero}

VARIABLES
  targets, macs, count,   \* the contents of each object's targets_map,
                          \* macs_map and targets_count
  cfg,                    \* the configurator's program counter and locals
  configs,                \* the number of its runs so far
  torn,                   \* history: <<object, address>> written to targets_map
                          \* by a run that ended before it wrote the MAC
  crossed                 \* history: objects written to by a run that opened
                          \* maps of different objects

cfgVars == <<targets, macs, count, cfg, configs, torn, crossed>>

Slots == 0 .. MAX_TARGET_COUNT - 1

\* The maps lb_cfg opens, in the order in which it opens them.
opened == <<"targets_map", "macs_map", "targets_count">>

NotConfiguring == [pc |-> "idle", conf |-> <<>>, i |-> 0, fd |-> Nowhere]
Goto_cfg(pc, i) == cfg' = [cfg EXCEPT !.pc = pc, !.i = i]
Exit_cfg == cfg' = NotConfiguring

\* The server the configurator is at, and the entry it has not completed.
Server == cfg.conf[cfg.i]
Window == IF cfg.pc = "mac" THEN {<<cfg.fd["macs_map"], Server.ip>>} ELSE {}

CfgInit ==
  /\ targets = [o \in Objects |-> [s \in Slots |-> Zero]]
  /\ macs = [o \in Objects |-> <<>>]
  /\ count = [o \in Objects |-> 0]
  /\ cfg = NotConfiguring
  /\ torn = {}
  /\ crossed = {}

-----------------------------------------------------------------------------

Configure(conf) ==
  /\ cfg.pc = "idle" /\ configs < MaxConfigs
  /\ configs' = configs + 1
  /\ cfg' = [NotConfiguring EXCEPT !.pc = "open", !.conf = conf, !.i = 1]
  /\ UNCHANGED <<targets, macs, count, torn, crossed, kills>>

\* open_bpf_map_file, as main calls it: a missing targets_count is not noticed.
open_bpf_map_file ==
  LET m == opened[cfg.i]
      fd == [cfg.fd EXCEPT ![m] = pinned[m]]
      Mixed == \E n, k \in Range(opened) : fd[n] # fd[k]
  IN  /\ cfg.pc = "open"
      /\ \/ /\ pinned[m] = None /\ m # "targets_count"
            /\ Exit_cfg
            /\ UNCHANGED crossed
         \/ /\ pinned[m] # None /\ m # "targets_count"
            /\ cfg' = [cfg EXCEPT !.fd = fd, !.i = @ + 1]
            /\ UNCHANGED crossed
         \/ /\ m = "targets_count"
            /\ cfg' = [cfg EXCEPT !.fd = fd, !.i = 1, !.pc = "target"]
            /\ crossed' = crossed \cup (IF Mixed THEN Range(fd) \ {None} ELSE {})
      /\ UNCHANGED <<targets, macs, count, configs, torn, kills>>

\* main: "Update targets map".  An index beyond the array is refused.
UpdateTarget ==
  LET s == cfg.i - 1
  IN  /\ cfg.pc = "target"
      /\ \/ /\ s \notin Slots
            /\ Exit_cfg
            /\ UNCHANGED targets
         \/ /\ s \in Slots
            /\ targets' = [targets EXCEPT ![cfg.fd["targets_map"]][s] = Server.ip]
            /\ Goto_cfg("mac", cfg.i)
      /\ UNCHANGED <<macs, count, configs, torn, crossed, kills>>

\* The configurator ends between the two updates of a server.
Tear == torn' = torn \cup {w \in Window : w[2] \notin DOMAIN macs[w[1]]}

\* Mutant of UpdateMac: a full macs_map is ignored.
UpdateMacUnchecked ==
  LET o == cfg.fd["macs_map"]
      full == Server.ip \notin DOMAIN macs[o] /\ Cardinality(DOMAIN macs[o]) = MAX_TARGET_COUNT
  IN  /\ cfg.pc = "mac"
      /\ macs' = IF full THEN macs ELSE [macs EXCEPT ![o] =
                   [a \in DOMAIN @ \cup {Server.ip} |-> IF a = Server.ip THEN Server.mac ELSE @[a]]]
      /\ torn' = torn \ Window
      /\ IF cfg.i = Len(cfg.conf) THEN Goto_cfg("count", cfg.i) ELSE Goto_cfg("target", cfg.i + 1)
      /\ UNCHANGED <<targets, count, configs, crossed, kills>>

\* main: "Update MACs map".  No entry is ever deleted, so the map can be full.
UpdateMac ==
  LET o == cfg.fd["macs_map"]
      full == Server.ip \notin DOMAIN macs[o] /\ Cardinality(DOMAIN macs[o]) = MAX_TARGET_COUNT
  IN  /\ cfg.pc = "mac"
      /\ \/ /\ full
            /\ Exit_cfg
            /\ Tear
            /\ UNCHANGED macs
         \/ /\ ~full
            /\ macs' = [macs EXCEPT ![o] =
                 [a \in DOMAIN @ \cup {Server.ip} |-> IF a = Server.ip THEN Server.mac ELSE @[a]]]
            /\ torn' = torn \ Window
            /\ IF cfg.i = Len(cfg.conf) THEN Goto_cfg("count", cfg.i) ELSE Goto_cfg("target", cfg.i + 1)
      /\ UNCHANGED <<targets, count, configs, crossed, kills>>

\* main: "Update target count map"
UpdateCount ==
  LET o == cfg.fd["targets_count"]
  IN  /\ cfg.pc = "count"
      /\ count' = IF o = None THEN count ELSE [count EXCEPT ![o] = Len(cfg.conf)]
      /\ Exit_cfg
      /\ UNCHANGED <<targets, macs, configs, torn, crossed, kills>>

KillCfg ==
  /\ cfg.pc # "idle" /\ kills < MaxKills
  /\ kills' = kills + 1
  /\ Exit_cfg
  /\ Tear
  /\ UNCHANGED <<targets, macs, count, configs, crossed>>

CfgNext ==
  \/ \E conf \in Configs : Configure(conf)
  \/ open_bpf_map_file
  \/ UpdateTarget \/ UpdateMac \/ UpdateCount
  \/ KillCfg

-----------------------------------------------------------------------------

CfgTypeOK ==
  /\ targets \in [Objects -> [Slots -> Ips \cup {Zero}]]
  /\ \A o \in Objects : DOMAIN macs[o] \subseteq Ips
  /\ count \in [Objects -> Nat]
  /\ cfg.pc \in {"idle", "open", "target", "mac", "count"}
  /\ cfg.conf \in Configs \cup {<<>>}
  /\ configs \in 0 .. MaxConfigs
  /\ torn \subseteq Objects \X Ips
  /\ crossed \subseteq Objects

\* Every index a core may draw names a server that can be reached: below the
\* count, the slot holds an address, and the address has a MAC, but for the
\* one server whose two entries lb_cfg is between, or was between when it
\* ended.  It takes maps opened across a reload to break this for others.
\* (lb_cfg.c main: targets and MACs before the count)
EveryTargetServed ==
  \A o \in Objects \ crossed : \A s \in 0 .. count[o] - 1 :
    /\ targets[o][s] # Zero
    /\ targets[o][s] \in DOMAIN macs[o] \/ <<o, targets[o][s]>> \in torn \cup Window

=============================================================================
