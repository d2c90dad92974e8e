------------------------------- MODULE Katran -------------------------------
(***************************************************************************)
(* The katran load balancer, balancer_kern.h: a packet to a virtual        *)
(* address (VIP) goes to the server (real) of its connection, kept in an   *)
(* LRU cache of the core, or to the one a consistent-hash ring gives.      *)
(* Cores without a cache share one, so the lookup of a connection, the     *)
(* reading of the ring, the update of the cache and the sending are steps  *)
(* of their own.  A core that finds an entry reads and stamps it in one    *)
(* step; what the kernel does to an entry it recycles at that moment is    *)
(* left out.  The ring is rewritten by a control plane that is not part of *)
(* the repository.                                                         *)
(***************************************************************************)
EXTENDS Naturals, FiniteSets

CONSTANTS
  Tcp, Udp,          \* flows of each protocol
  Bypass,            \* flows to a VIP with F_LRU_BYPASS
  DportOnly,         \* flows to a VIP with F_HASH_DPORT_ONLY
  hash(_),           \* get_packet_hash % RING_SIZE
  RING_SIZE, Reals,
  Cpus,
  Caches, Cache(_),  \* the cores' caches: lru_mapping, or fallback_cache
  LRU_SIZE,          \* entries of a cache
  ONE_SEC, LRU_UDP_TIMEOUT, MAX_CONN_RATE,
  MaxNow, MaxRate    \* bounds on the clock and on the connections a core counts
                     \* in one time quantum

Flows == Tcp \cup Udp

\* "dport" is no flow of a packet: its source address is 0.
ASSUME KatranAssumption ==
  /\ "dport" \notin Flows
  /\ Tcp \cap Udp = {} /\ Bypass \subseteq Flows /\ DportOnly \subseteq Flows
  /\ RING_SIZE \in Nat \ {0} /\ LRU_SIZE \in Nat \ {0}
  /\ {ONE_SEC, LRU_UDP_TIMEOUT, MaxNow, MaxRate} \subseteq Nat /\ MAX_CONN_RATE \in Nat \ {0}
  /\ \A f \in Flows : hash(f) \in 0 .. RING_SIZE - 1
  /\ \A c \in Cpus : Cache(c) \in Caches

VARIABLES
  ktime,      \* bpf_ktime_get_ns
  ch_rings,   \* the ring at vip_num 7, which process_packet gives every VIP
  lru,        \* per cache: a partial function from flows to [pos, atime]
  rate,       \* per core: the NEW_CONN_RATE_CNTR entry of stats
  kcore,      \* per core: where it is in process_packet, and its locals
  last,       \* history: per core and flow, where its last packet went
  stale,      \* history: <<cache, flow>> whose entry a SYN went past in a flood
  entered     \* history: per core, entries written in the time quantum

katranVars == <<ktime, ch_rings, lru, rate, kcore, last, stale, entered>>

Never == "none"

\* The flow under which a new entry is stored: for F_HASH_DPORT_ONLY,
\* get_packet_dst has overwritten the source before it stores the entry.
stored(f) == IF f \in DportOnly THEN "dport" ELSE f

\* The flows that can have an entry in a cache.
Cached == Flows \ (Bypass \cup DportOnly)

Waiting == [pc |-> "idle"]

\* About to send; past says that the packet is a SYN in a flood.
Sending(f, real, past) == [pc |-> "send", flow |-> f, real |-> real, past |-> past]

KatranInit ==
  /\ ktime = 0
  /\ ch_rings \in [0 .. RING_SIZE - 1 -> Reals]
  /\ lru = [m \in Caches |-> <<>>]
  /\ rate = [c \in Cpus |-> [v1 |-> 0, v2 |-> 0]]
  /\ kcore = [c \in Cpus |-> Waiting]
  /\ last = [c \in Cpus |-> [f \in Cached |-> Never]]
  /\ stale = {}
  /\ entered = [c \in Cpus |-> 0]

-----------------------------------------------------------------------------

Quantum(c) == ktime - rate[c].v2 <= ONE_SEC

\* Mutant of is_under_flood: one connection too many is let through.
LateFlood(c) == Quantum(c) /\ rate[c].v1 > MAX_CONN_RATE

\* The new connection is one too many in this second.
is_under_flood(c) == Quantum(c) /\ rate[c].v1 + 1 > MAX_CONN_RATE

\* connection_table_lookup: is there an entry, and for UDP a recent one?
Hit(m, f) ==
  /\ f \in DOMAIN lru[m]
  /\ f \in Udp => ktime - lru[m][f].atime <= LRU_UDP_TIMEOUT

\* Mutant of Store: an entry that is there is kept, as with BPF_NOEXIST, and
\* none makes room.
StoreOnce(m, k, entry) ==
  /\ lru' = [lru EXCEPT ![m] = [x \in DOMAIN @ \cup {k} |->
                                  IF x \in DOMAIN @ THEN @[x] ELSE entry]]
  /\ stale' = stale

\* bpf_map_update_elem on an LRU map: an entry makes room if it is full.
Store(m, k, entry) ==
  \E room \in IF k \in DOMAIN lru[m] \/ Cardinality(DOMAIN lru[m]) < LRU_SIZE
              THEN {{}} ELSE {{e} : e \in DOMAIN lru[m]} :
    /\ lru' = [lru EXCEPT ![m] = [x \in (DOMAIN @ \ room) \cup {k} |->
                                    IF x = k THEN entry ELSE @[x]]]
    /\ stale' = stale \ {<<m, x>> : x \in room \cup {k}}

\* connection_table_lookup, for a packet that does not start a connection.
Lookup(c, f) ==
  LET m == Cache(c)
  IN  /\ kcore[c].pc = "idle" /\ f \notin Bypass
      /\ \/ /\ Hit(m, f)
            /\ lru' = IF f \in Udp THEN [lru EXCEPT ![m][f].atime = ktime] ELSE lru
            /\ kcore' = [kcore EXCEPT ![c] = Sending(f, lru[m][f].pos, FALSE)]
         \/ /\ ~Hit(m, f)
            /\ kcore' = [kcore EXCEPT ![c] = [pc |-> "miss", flow |-> f]]
            /\ UNCHANGED lru
      /\ UNCHANGED <<ktime, ch_rings, rate, last, stale, entered>>

\* get_packet_dst, is_under_flood: the packet counts as a new connection.
CountConnection(c, f, syn) ==
  /\ \/ kcore[c].pc = "idle" /\ (syn \/ f \in Bypass)
     \/ kcore[c].pc = "miss" /\ kcore[c].flow = f /\ ~syn
  /\ Quantum(c) => rate[c].v1 < MaxRate
  /\ rate' = [rate EXCEPT ![c] =
       IF Quantum(c) THEN [rate[c] EXCEPT !.v1 = @ + 1] ELSE [v1 |-> 1, v2 |-> ktime]]
  /\ entered' = [entered EXCEPT ![c] = IF Quantum(c) THEN @ ELSE 0]
  /\ kcore' = [kcore EXCEPT ![c] = [pc |-> "hash", flow |-> f, syn |-> syn,
                                   flood |-> is_under_flood(c), cur_time |-> ktime]]
  /\ UNCHANGED <<ktime, ch_rings, lru, last, stale>>

\* get_packet_dst: the entry of the ring.
ReadRing(c) ==
  LET k == kcore[c]
      real == ch_rings[hash(k.flow)]
  IN  /\ k.pc = "hash"
      /\ kcore' = [kcore EXCEPT ![c] =
           IF k.flow \in Bypass \/ k.flood THEN Sending(k.flow, real, k.syn /\ k.flood)
           ELSE [pc |-> "store", flow |-> k.flow, real |-> real,
                 atime |-> IF k.flow \in Udp THEN k.cur_time ELSE 0]]
      /\ UNCHANGED <<ktime, ch_rings, lru, rate, last, stale, entered>>

\* get_packet_dst: the new entry.
UpdateCache(c) ==
  LET k == kcore[c]
  IN  /\ k.pc = "store"
      /\ Store(Cache(c), stored(k.flow), [pos |-> k.real, atime |-> k.atime])
      /\ kcore' = [kcore EXCEPT ![c] = Sending(k.flow, k.real, FALSE)]
      /\ entered' = [entered EXCEPT ![c] = @ + 1]
      /\ UNCHANGED <<ktime, ch_rings, rate, last>>

\* The packet is encapsulated and sent to the server.
Send(c) ==
  LET k == kcore[c]
      m == Cache(c)
  IN  /\ k.pc = "send"
      /\ kcore' = [kcore EXCEPT ![c] = Waiting]
      /\ last' = IF k.flow \in Cached THEN [last EXCEPT ![c][k.flow] = k.real] ELSE last
      /\ stale' = IF k.past /\ k.flow \in DOMAIN lru[m] THEN stale \cup {<<m, k.flow>>} ELSE stale
      /\ UNCHANGED <<ktime, ch_rings, lru, rate, entered>>

process_packet(c) ==
  \/ \E f \in Flows : Lookup(c, f) \/ CountConnection(c, f, FALSE)
  \/ \E f \in Tcp : CountConnection(c, f, TRUE)
  \/ ReadRing(c) \/ UpdateCache(c) \/ Send(c)

\* The control plane moves a part of the ring to another server.
ChangeRing(h, real) ==
  /\ ch_rings[h] # real
  /\ ch_rings' = [ch_rings EXCEPT ![h] = real]
  /\ UNCHANGED <<ktime, lru, rate, kcore, last, stale, entered>>

Tick ==
  /\ ktime < MaxNow
  /\ ktime' = ktime + 1
  /\ UNCHANGED <<ch_rings, lru, rate, kcore, last, stale, entered>>

KatranNext ==
  \/ \E c \in Cpus : process_packet(c)
  \/ \E h \in 0 .. RING_SIZE - 1, real \in Reals : ChangeRing(h, real)
  \/ Tick

KatranSpec == KatranInit /\ [][KatranNext]_katranVars

-----------------------------------------------------------------------------

KatranTypeOK ==
  /\ ktime \in 0 .. MaxNow
  /\ ch_rings \in [0 .. RING_SIZE - 1 -> Reals]
  /\ \A m \in Caches :
       /\ Cardinality(DOMAIN lru[m]) <= LRU_SIZE
       /\ \A f \in DOMAIN lru[m] : lru[m][f] \in [pos : Reals, atime : 0 .. MaxNow]
  /\ rate \in [Cpus -> [v1 : 0 .. MaxRate, v2 : 0 .. MaxNow]]
  /\ last \in [Cpus -> [Cached -> Reals \cup {Never}]]
  /\ \A c \in Cpus :
       /\ kcore[c].pc \in {"idle", "miss", "hash", "store", "send"}
       /\ kcore[c].pc # "idle" => kcore[c].flow \in Flows
       /\ kcore[c].pc \in {"store", "send"} => kcore[c].real \in Reals

\* The cache is protected from a flood: within one time quantum a core enters
\* at most MAX_CONN_RATE connections in it.  (is_under_flood, get_packet_dst)
EntriesPerSecond == \A c \in Cpus : entered[c] <= MAX_CONN_RATE

\* A connection stays with its server, however the ring changes and whatever
\* is evicted, times out or comes in a flood: an entry that the next packet of
\* a flow would use names the server that a core with this cache sends its
\* packet of the flow to, or sent its last one to.  With a cache per core that
\* is the server of the packet before; cores that share a cache may both miss
\* and send to two servers, and the entry is that of one of them.  The
\* exception is a SYN in a flood, which goes where the ring says and leaves the
\* entry of the connection before it: the packets that follow it go elsewhere.
\* (process_packet, connection_table_lookup, get_packet_dst)
EntryNamesServer ==
  \A m \in Caches : \A f \in Cached :
    Hit(m, f) =>
      \/ \E c \in Cpus :
           /\ Cache(c) = m
           /\ \/ last[c][f] = lru[m][f].pos
              \/ kcore[c].pc = "send" /\ kcore[c].flow = f /\ kcore[c].real = lru[m][f].pos
      \/ <<m, f>> \in stale

=============================================================================
