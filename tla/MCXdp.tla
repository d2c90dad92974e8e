------------------------------- MODULE MCXdp --------------------------------
(***************************************************************************)
(* The three XDP programs on small instances.  A machine runs one of them: *)
(* the variable program says which, and the others stay as they are.       *)
(***************************************************************************)
EXTENDS Crab, XdpFw, Katran

VARIABLE program

allVars == <<program, vars, fwVars, katranVars>>

Servers(list) == [i \in DOMAIN list |-> [ip |-> list[i], mac |-> "mac of " \o list[i]]]

MCIps == {"a", "b", "c"}
MCConfigs == {Servers(<<"b">>), Servers(<<"c", "b">>)}

Of(o) == [m \in Names |-> o]

\* The loader alone, over several loads and kills.
LoaderOnly == LoaderInit /\ CfgInit /\ kills = 0 /\ configs = MaxConfigs

\* What a complete run of lb_cfg leaves in the maps of object o.
Configured(o, conf) ==
  /\ targets = [x \in Objects |-> [s \in Slots |->
       IF x = o /\ s < Len(conf) THEN conf[s + 1].ip ELSE Zero]]
  /\ macs = [x \in Objects |-> IF x # o THEN <<>> ELSE
       [a \in {conf[i].ip : i \in DOMAIN conf} |-> "mac of " \o a]]
  /\ count = [x \in Objects |-> IF x = o THEN Len(conf) ELSE 0]
  /\ cfg = NotConfiguring
  /\ torn = {}
  /\ crossed = {}

\* A program that is loaded and configured, with one more load and one kill to
\* come.
Loaded ==
  LET o == MaxObjects - 1
  IN  /\ device = [native |-> TRUE, mode |-> "drv", prog |-> Of(o)]
      /\ pinned = Of(o)
      /\ objects = o
      /\ loader = Idle("ok")
      /\ kills = MaxKills - 1
      /\ configs = 0
      /\ Configured(o, Servers(<<"a", "b">>))

\* Beside lb_cfg and the cores the loader uses the native mode only, and
\* reuses maps only before the last load.
CrabInstance ==
  \/ program = "loader"
  \/ /\ program = "crab"
     /\ "skb" \notin {device'.mode, loader'.mode}
     /\ loader'.pc = "reuse" => objects < MaxObjects

\* Three flows with keys of their own, and the answer to one of them with its
\* ports exchanged.
Packet(s, d, x, y) == [ip_src |-> s, ip_dst |-> d, l4_src |-> x, l4_dst |-> y]
MCPackets == {Packet(1, 2, 1, 1), Packet(1, 2, 1, 2), Packet(1, 2, 2, 2), Packet(2, 1, 1, 2)}

\* All flows have the same place in the ring, and the cores have no cache of
\* their own.
MChash(f) == 0
MCCache(c) == "fallback_cache"

FirstCpu == CHOOSE c \in Cpus : TRUE

\* Katran on two cores with flows that are cached and a ring that changes once,
\* or on one core with flows of every kind.
KatranInstance ==
  \/ /\ program = "katran"
     /\ \A c \in Cpus : kcore'[c].pc # "idle" => kcore'[c].flow \in Cached
     /\ ch_rings[0] = "r2" => UNCHANGED ch_rings
  \/ program = "katran1" /\ \A c \in Cpus \ {FirstCpu} : kcore'[c] = Waiting

MCInit ==
  /\ program \in {"loader", "crab", "fw", "katran", "katran1"}
  /\ IF program = "loader" THEN LoaderOnly ELSE Loaded
  /\ CoreInit /\ FwInit /\ KatranInit
  /\ program # "katran1" => ch_rings[0] = "r1"

MCNext ==
  /\ UNCHANGED program
  /\ \/ Next /\ CrabInstance /\ UNCHANGED <<fwVars, katranVars>>
     \/ program = "fw" /\ FwNext /\ UNCHANGED <<vars, katranVars>>
     \/ KatranNext /\ KatranInstance /\ UNCHANGED <<vars, fwVars>>

MCSpec == MCInit /\ [][MCNext]_allVars

MCTypeOK == TypeOK /\ FwTypeOK /\ KatranTypeOK

=============================================================================
