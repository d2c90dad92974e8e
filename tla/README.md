# A TLA+ verification project for PIX

PIX extracts performance interfaces from network functions (NFs). The part of
the repository with run-time state is the set of NFs it analyses: packet
processing programs on DPDK (`dpdk-nfs/nf`), built from a small library of
containers, libVig, and programs for XDP (`ebpf-nfs`), which share BPF maps with
each other and with programs in user space. This directory models the
containers, the NFs on top of them and what runs beside them, checks the models
with TLC, and proves the central ones correct with TLAPS. Paths below are
relative to `src/dpdk-nfs/nf/`, those that begin with `ebpf-nfs/` or `dpdk-nfs/` to `src/`.

## The system and its parts

| Part | Code | Modules | State of the work |
|---|---|---|---|
| Index allocator | `lib/containers/double-chain*.c` | `IndexPool`, `DoubleChain`, `DoubleChainProofs` | modelled, checked, proved |
| Hash table | `lib/containers/map.c`, `map-impl.c` | `KeyMap`, `MapImpl`, `HashMap`, `MCHashMap`, `HashProofs` | modelled, checked, proved |
| Vector | `lib/containers/vector.c` | field `vec` of `FlowTable` | at its contract |
| Double map | `lib/containers/double-map.c` | `MapImpl`, `DoubleMap`, `HashProofs` | modelled, checked, proved |
| Expirator | `lib/expirator.c` | `Expirator`, `FlowTable`, `DoubleMap`, `NatProofs`, `HashProofs` | modelled, checked, proved |
| VigNAT | `vignat/` | `Nat`, `NatProofs` | modelled, checked, proved |
| VigFW | `vigfw/` | `Firewall`, `FilterProofs` | modelled, checked, proved |
| VigBridge | `bridge/` | `MacTable`, `Bridge`, `BridgeProofs` | dynamic table: checked, proved |
| VigPol | `vigpol/` | `Bucket`, `TokenBucket`, `MapImpl`, `Policer`, `FilterProofs` | modelled, checked; the bucket proved |
| VigLB | `vigbalancer/` | `PriorityLists`, `Cht`, `Balancer`, `MCBalancer`, `HashProofs`, `BalancerProofs` | modelled, checked, proved |
| Event loop | `nf_main.c` | `NfMain`, `BridgeProofs` | polling and flooding: checked, proved |
| XDP loader | `ebpf-nfs/usr-helpers/xdp_loader.c` | `XdpLoader`, `CrabProofs` | without offload: checked, proved |
| CRAB load balancer | `ebpf-nfs/crab/`, `ebpf-nfs/usr-helpers/lb_cfg.c` | `LbCfg`, `Crab`, `CrabProofs` | modelled, checked, proved |
| XDP firewall | `ebpf-nfs/fw/` | `XdpFw`, `FilterProofs` | modelled, checked, proved |
| Katran load balancer | `ebpf-nfs/katran/` | `Katran`, `BalancerProofs` | the choice of a server: checked, proved |
| Rehashing map, bucket map, alternate chain | `lib/containers/` | none | no NF is built with them |
| LPM, router | `lpm/`, `router/` | none | no state |
| Time, header parsing, configuration | `lib/nf_time.c`, `lib/nf_util.c`, `*_config.c` | inputs of the NF models | stateless |
| VeriFast ghost code, KLEE stubs, performance contracts, benchmarks, test bed | | none | not programs with a state to check |

On DPDK, `nf_main.c` polls the devices on one core and calls the NF's
`nf_core_process` for each frame. Every stateful NF first expires old entries
(`expirator.c`) and then consults a *flow table*: a map from keys to indexes, a
vector that holds the key of every index, and a double chain that hands out, stamps
and expires indexes. Nothing runs concurrently with an NF, so one call of
`nf_core_process` is one step of its model. What is hard is the long sequences of
calls, and the agreement between three containers that are updated one after the
other.

On XDP, the program runs on every core that receives packets. `xdp_loader`
attaches it and pins its maps in a file system, `lb_cfg` opens them there and
writes to them, and neither takes a lock. Here one *access to a shared map* or one
*system call* is a step, and a user-space process may be killed between any two.

The default build (`dpdk-nfs/nf/Makefile`) links `map.c`, `map-impl.c`,
`double-map.c`, `double-chain.c` and `double-chain-impl.c`; the alternatives are
commented out. It defines `NO_STATIC_MAPPING`, which leaves the bridge's static
table out.

## Modules

**`IndexPool`** states what `double-chain.h` promises: a set of live indexes with
time stamps. **`DoubleChain`** is the code: `nxt` and `prv` are the links of the
cells, cell 0 heads the ring of allocated cells, cell 1 the stack of free ones.
`LinkAllocated`, `LinkFree` and `LinkLast` are the bodies of
`dchain_impl_allocate_new_index`, `dchain_impl_free_index` and
`dchain_impl_rejuvenate_index`; the actions are the functions of `double-chain.c`.
`timestamps` comes from `malloc`, so its initial value is arbitrary.

**`MapImpl`** has the functions of `map-impl.c`, on the arrays a caller hands them.
A loop over slots is expressed by the slot where it returns (`find_key`,
`FirstMatch`, `FirstEmpty`) and the set of slots it has passed (`Passed`). A key
pointer stands for the key. **`HashMap`** is the code of `map.c` over them, with the
five arrays of `struct Map`; the guards of `map_put` and `map_erase` are the
preconditions of `map.h`. **`KeyMap`** states what `map.h` promises, a partial function.

**`FlowTable`** has no behaviour of its own: a table is a record (`map`, `vec`,
`heap`), and `Expire`, `Insert` and `Rejuvenate` are operators on tables, at the
level of the contracts above. An allocation returns *any* free index, as the
contract allows. **`Expirator`** runs the loop of `expire_items_single_map` one
iteration at a time and thereby justifies `Expire`.

**`Nat`, `Firewall`, `Bridge`, `Balancer`** extend `FlowTable`; their actions are
the paths of `nf_core_process`. Packets are reduced to what the code branches on.
`MacTable` is the abstract state the bridge's authors give in
`lib/bridge-abstract-state.h`. Two models stop where the code leaves a container's
contract: `Nat` sets `undefined` when the chain is asked about an index it does
not have, `Balancer` sets `broken` when `map_erase` is called for an absent key.
History variables (`told`, `seen`, `heard`, `served`) record what the outside
world has seen.

**`Cht`** fills the balancer's consistent hashing table one iteration of the
innermost loop at a time, for every height and capacity up to a bound, and looks
backends up in it. **`PriorityLists`** defines the table that is to come out, from
the permutations alone: cell `n` holds the backend that `n % capacity` others come
before in its row. `Balancer` uses that table, and `TableAsPromised` (below) shows
that it is the one `Cht` fills.

**`Bucket`** is the arithmetic of `policer_check_tb` with its integer division.
**`TokenBucket`** uses it for one destination, with the expiry that takes its bucket away:
`policer_expire_entries` frees the index and leaves the key in the map, so the bucket
serves on until another destination is given the index (`OtherPacket`) or an erase happens
to name the key. **`Policer`** is the whole policer: its expiry leaves the contracts
`FlowTable` rests on, so it is built on `MapImpl`. It shows the put into a full map, which
`TokenBucket` leaves out.

**`DoubleMap`** has two tables of `MapImpl` over one array of values, which the keys of
both live in (`kps_a`, `kps_b`), and follows the loop of `expire_items` step by step.

**`NfMain`** follows packet buffers: two pools, reference counts, transmit rings.
DPDK's calls are external and modelled from their use: a clone holds a reference
to its frame, the NIC sends at its own pace, and `rte_eth_tx_burst` (state `send`)
first frees any number of buffers the NIC has sent, one by one (`FreeSent`), and then
takes the new one or finds the ring full (`Transmit`). The buffers that lie in the
receive rings are left out: the driver puts a free one in the place of the one it hands
out, and the model hands out the free one.

**`XdpLoader`** is `xdp_loader` with the loops of libbpf that pin and unpin the
maps of an object. A load makes a new *object*; `device.prog` and `pinned` give the
object whose map a program uses, or which is pinned, under each name. **`LbCfg`**
extends it by the configurator and the contents of the maps, **`Crab`** by the
cores. A core's record `core[c]` holds what it has read so far, and the object it
runs, which stays the same when another program is attached meanwhile. The history
variables of `LbCfg` say which runs opened maps of different objects (`crossed`) and
which server was left between its two entries. **`XdpFw`** is `xdp_fw_prog` and
`xdp_fw_user`. **`Katran`** has a step of a core for the lookup of a connection, the counting
of a new one, the reading of the ring, the update of the cache and the sending; cores without
a cache of their own share one (`Cache`), and steps of two cores interleave. Its ring is
rewritten by a control plane outside of the repository.

`MCXdp` puts the XDP programs side by side, `MCNfs` five parts of the DPDK NFs, which
share the constants of their flow tables: a variable says which of them a behaviour is of.
They do not interact there; `Crab` and the NFs' own modules compose what does. The other
`MC*` modules only give constants a structure a `.cfg` cannot express, and symmetry sets.
`MCHashMap` also restricts the calls: each key is put with a value of its own, which still
tells a right answer of `map_get` from a wrong one. Definitions whose comment begins with
"Mutant of" are faulty variants of the definition that follows; substituting one makes the
property that PROJECT.json names fail.

## Runs

Sizes are distinct states.

| Run | Instance | States | Shows |
|---|---|---|---|
| `double_chain` | 3 indexes, times 0..3 | 14,492 | the two lists never mix; the chain implements `IndexPool` |
| `hash_map` | 4 slots, 4 keys, 3 hashes (two of them collide, and wrap) | 93,362 | chain counters are exact; the table implements `KeyMap` |
| `nat` | 3 flows, 2 indexes, 4 ports | 3,558 | a flow keeps its port while active; replies reach its owner; refusal only when full |
| `nfs` | firewall, bridge, expirator, bucket, double map (below) | 252,268 | see below |
| `cht` | height to 11, capacity to 5 | 3,709 | filling ends; every row ranks all backends; inner assertions hold |
| `cht_lookup` | height to 3, capacity to 2 | violation | the lookup does not read the row of the hash |
| `balancer` | 2 flows, 3 addresses for 2 places | 228,992 | coherence, affinity, requests only to live backends |
| `balancer_rejuvenation` | the same | violation | the wrong index is rejuvenated |
| `policer` | 2 destinations, 2 places | violation | a put into a full map |
| `nf_main` | 3 devices, rings of 1, 2 clones | 122,392 | no leak, no double free, always a buffer for a poll; every receive ring is served |
| `xdp` | CRAB, firewall, Katran (below) | 613,021 | see below |
| `xdp_fw_replies` | the same | violation | answers the XDP firewall admits have no way out |

`nfs` checks five parts:
- *firewall*, 2 hosts inside, 1 outside, 2 indexes: a flow is open exactly while
  packets of it pass (`OpenWhileActive`), and only answers come in (`PassesSound`);
- *bridge*, 4 stations, 2 devices, 2 indexes: the tables agree (`TablesCoherent`) and
  implement `MacTable`;
- *expirator*, 4 keys, 2 indexes, from every coherent table: the loop erases exactly
  what is expired (`ExpiresExactly`), and the table is coherent again at its head
  (`CoherentAtLoop`);
- *token bucket*, with expiry: a destination is sent no more than the rate allows and a burst
  for each bucket it is given (`RateBound`), and rounding costs it less than a byte per packet
  (`LossBound`). A burst for *each* bucket, since a destination that lost its bucket to the
  expiry begins with a full one;
- *double map*, 3 first and 2 second keys, colliding, 2 indexes: both tables lead to exactly
  the values in use, between any two steps (`DoubleMapInSync`).

`xdp` checks three programs:
- *CRAB*, the loader alone from the first load on (3 loads, 2 kills, both modes), and all of
  it from a configured program on (one more load, 2 configurations, a kill, native mode):
  after a successful load the pinned maps are those of the running program
  (`PinnedMapsInUse`), what a run of the loader does with the pins it finds
  (`PinsAfterRun`), every slot below the count names a server with a MAC
  (`EveryTargetServed`), a SYN that found a configuration finds its target (`SynForwarded`).
  The last two exempt what is known to fail: the one server `lb_cfg` is, or was when it was
  killed, between the two entries of (`Window`, `torn`), the maps of a run of `lb_cfg` that
  a reload overtook (`crossed`), and a SYN that found a count of 0. They show that nothing
  else fails.
- *firewall*, 2 cores, a table of 2 flows and 3 flows that need a place: the answers to a
  packet that was let out are let in, unless its core has yet to enter the flow or found the
  table full (`AnswersAdmitted`), and what is let in has the addresses and the ports of a
  packet that was let out (`OnlySameEndsEnter`). The second does *not* say that only answers
  enter: the key does not tell which port belongs to which address.
- *Katran*, 2 cores that share a cache of one entry, or one core with flows of every kind: a
  core enters no more connections in a second than the limit (`EntriesPerSecond`), and an
  entry that the next packet would use names the server that a core with this cache sends
  to, or sent its last packet of the flow to (`EntryNamesServer`). Two cores that both miss
  while the ring changes do send to two servers; the entry is then that of one of them. An
  entry that a SYN in a flood went past is exempt (`stale`).

**Bounds.** The tables of `nat`, the firewalls and the bridge and the backends of `balancer`
have fewer places than there are keys, so they overflow; the balancer's flow table fills up
because it leaks indexes, and `hash_map` fills every slot. Expiration times are shorter than
`MaxTime`, so entries expire and their indexes are reused. Three cells suffice for an inner,
a first and a last cell on each list of the chain, and four slots for probes that pass two
keys and wrap around. The rate of the bucket does not divide the ticks; in `MaxTicks` its
index expires and is given away, and `MaxBursts` lets one observation see two buckets. In
`nf_main` the clones are as many as one flood needs and fewer than the three rings hold, so
the pool runs dry and flood's exit is reached. In `nat` the table ends at the last port
before 16 bits wrap, and the firewall's argument of `--expire` is one that the 32-bit field
cuts (here: two bits). In `xdp` there are three servers for two places in `macs_map`, so
that it fills up; one configuration has fewer servers than the one before it. The mode of
attachment changes what a load does and nothing that `lb_cfg` or a core sees, so only the
loader alone is run in both. Beside `lb_cfg` a load reuses maps only before the last new
load, which keeps the run short. Katran has two instances, both with a cache of one entry,
so that a store evicts what another flow or core uses: two cores with the flows that are
cached and a ring that changes once, and one core with flows of every kind and a ring that
changes at will. One core runs CRAB: cores share nothing they write, and the proof covers
any number. Time never decreases, which is what the contract of `current_time` says.

**Deadlock** is checked in the passing runs except `xdp`, where loads, configurations,
kills, clock and table are bounded and a behaviour ends when all are used up.

**Fairness.** `NfMain` assumes weak fairness of `lcore_main`, an endless loop on
a core of its own, and nothing of the NICs: frames may never arrive and never be
sent. `Cht` assumes it of the fill loop, which is sequential code. The other
specifications have no fairness and no liveness property: their steps are calls
or packets that need never come, and the XDP processes may be killed.

**Symmetry** is used in `hash_map` (keys) and `balancer` (flows, addresses), where
only safety is checked.

## Proofs

The theorems hold for every value of the constants that the modules' assumptions
admit: sizes are positive naturals, times and bounds naturals. Every module names its
assumption (`FlowTableAssumption`, `NfMainAssumption`, ...), and TLC evaluates it for the
instance of every run.

| Module | Theorem | States |
|---|---|---|
| `HashProofs` | `ChainsExact` | the chain counters are exact (`ChainsCount`) |
| | `MapRefinement` | the hash table implements `KeyMap` |
| | `TablesInSync` | double map: both tables lead to exactly the values in use (`DoubleMapInSync`) |
| | `AssertionsHold` | `lb_fill_cht` aborts only on its arguments (`AbortsOnlyOnArguments`) |
| | `ListsFilled` | every row lists every backend once, in order (`RowsArePriorityLists`) |
| | `TableAsPromised` | the filled table is the one `Balancer` uses |
| `DoubleChainProofs` | `TypeCorrect`, `PartitionInvariant` | `TypeOK` and `ListsPartition` are invariants |
| | `Refinement` | the chain implements `IndexPool` |
| `NatProofs` | `TablesAgree` | map, vector and chain agree after every packet |
| | `FlowsMapped` | a flow is in the table exactly while it is active |
| | `FlowsApart` | no two active flows share a port, *if* `StartPort + Capacity <= Ports` |
| | `RepliesDelivered` | a reply that comes in goes to the flow that was told the port |
| | `RefusalsJustified` | a flow is refused only when every index belongs to an active one |
| | `LoopCoherent`, `LoopExpires` | expirator: coherent at its head (`CoherentAtLoop`); the loop computes `Expire` (`ExpiresExactly`) |
| `FilterProofs` | `FlowsOpenWhileActive`, `OnlyAnswersPass` | VigFW: open exactly while active; only answers come in |
| | `SameEndsOnly` | XDP: what enters has the addresses and ports of a packet from inside (`OnlySameEndsEnter`) |
| | `AnswersEnter` | XDP: answers enter, but for a full table or a flow still being entered (`AnswersAdmitted`) |
| | `RateKept`, `LittleLost` | policer: `RateBound` and `LossBound` are invariants |
| `BridgeProofs` | `BridgeTables` | the tables agree after every frame |
| | `BridgeLearns` | the bridge implements `MacTable` |
| | `CountsExact` | event loop: reference counts are exact (`RefcntsExact`) |
| | `PoolsLast` | event loop: a poll finds a buffer; flood runs out of clones only when the rings hold them all (`BuffersSuffice`) |
| | `FloodNeverExits` | event loop: flood never exits, *if* `CloneCount > DevicesCount * TxQueueSize` |
| `CrabProofs` | `TargetsServed`, `SynsForwarded` | `EveryTargetServed` and `SynForwarded` are invariants |
| | `PinsInUse` | after a load that succeeded, the program uses the pinned maps |
| | `RunsAndPins` | what a run of the loader makes of the pins it finds (`PinsAfterRun`) |
| `BalancerProofs` | `BackendsKept` | VigLB: a backend is active exactly while its heartbeats are recent |
| | `FlowsFound`, `FlowsStay` | VigLB: `FlowsLeadHome` and `Affinity` are invariants |
| | `RequestsServed` | VigLB: requests go only to backends with a recent heartbeat |
| | `FloodsBounded` | Katran: a core enters at most `MAX_CONN_RATE` connections in a second |
| | `ConnectionsStay` | Katran: a usable entry names a server that the flow's packets are sent to (`EntryNamesServer`) |

**The hash table.** The invariant is `TypeOK` with `ChainsCount`. A key's probe is the cyclic
interval from its hash to its slot; `put` adds one such interval and `erase` takes one
away, so each counter changes by one exactly on the slots of that interval. From the
counters follows what the contract needs. A lookup stops early only at a slot with
counter 0, which no stored key's probe passes, so it finds every key that is there
(`LookupFinds`) and no other (`LookupMisses`); a put below capacity finds an empty slot
(`FreeSlotFound`). The slot a loop returns at is the least one with a property, for which
`LeastElement` stands in for induction. The proof covers every hash function and every
capacity that `map_allocate` accepts, a power of two. All of this is stated of arrays of any
names (`Sound`), so that it serves the double map too.

**The double map.** Its tables point to keys inside the values. So a put, which writes a value,
also changes the keys that the free slots of both tables point to, and `SoundPut` allows for
that. `Holds` says that one table is sound and leads to exactly the indexes of a set. `DmapInv`
says it of both tables and of `Used`: the indexes of the chain, and the one that has left the
chain and is about to be erased. Without that last one it would not be inductive, since
`expire_items` takes an index out of the chain before it erases the value. That a put finds a
free slot needs no bound on the number of values: the tables have as many slots as there are
indexes, and distinct slots lead to distinct indexes. The hash functions are arbitrary
(`DmapAssumption` gives them their type). The caller is assumed to keep the contract of
`double-map.h`: new keys, and an index that the chain does not hold.

**The consistent hashing table.** That the search of `lb_fill_cht` finds every backend rests
on `p -> (offset + shift * p) % height` being a permutation. It is one-to-one because a prime
divides no product of two smaller numbers (`PrimeProduct`: the remainder of the prime by the
least number whose product with `d` it divides would be another such number), and onto because
it is one-to-one on a finite set (`Positions`). The trial division up to the root that the
code asserts is shown to decide primality (`TrialDivision`). The loops carry `bknd` and
`perm_pos` from cell to cell; `ChtInv` says what that means: the backends that come to the row
before the pair `<<perm_pos, bknd>>` (`Taken`) are as many as the row has cells filled, so the
next one taken has exactly that rank (`RankTaken`), and when `perm_pos` reaches the height all
have been taken (`AdvanceTaken`), so that the assertion on `perm_pos` holds.

**The chain.** That the ring and the stack partition the cells cannot be said by following links
without recursion, which is awkward to reason about. `ListsPartition` instead
states that there *is* a function `before`, giving for every cell the set of cells
ahead of it on its list, which is a strict linear order (`Linear`) that the links
agree with locally (`Ring`, `Stack`) and the time stamps too (`Sorted`). With
`TypeOK` this is inductive: each step exhibits the new order, such as `before` with
the moved cell put behind all others. The cell test of the code, `nxt # prv` or
`nxt = 0`, is shown in `LinkTest` to hold for exactly the ring's cells; it is the
only thing that distinguishes the lists, and it fails to be inductive without the
order. `LinkAllocatedStep`, `LinkFreeStep` and `LinkLastStep` treat the three
link manipulations, `AllocateStep`, `RejuvenateStep` and `ExpireStep` the
functions of the interface, `InvariantStep` combines them. These lemmas also
say what becomes of the set of allocated cells, from which `SimulationStep`
shows that each call maps to a step of `IndexPool`: in particular that the head
of the ring has the least time stamp.

**The flow tables.** `FlowTableProofs` defines `Tracks(t, stamps, border)`: the table is
coherent, and it holds exactly the keys stamped at or after the border, with those
stamps. Its lemmas say that an empty table tracks nothing, that `Expire` moves the
border, and that `Insert` and `Rejuvenate` stamp one key. The inductive invariant of
the firewall is `TypeOK` with `Tracks` at the current border (`FwInv`); the NAT's adds
that a flow in the table has been told the port of its index (`NatInv`). Coherence
alone is not inductive enough to say that a flow is *absent* once it is inactive, which
is why the stamps are part of it. `FlowsApart` needs an assumption the code does not
check: the indexes fit into the ports above `start_port`.

**The expirator.** Every NF model takes `expire_items_single_map` to be the operator
`Expire`; `LoopExpires` discharges that. `ExpiratorInv` describes the table in the middle of
the loop: the indexes removed so far are stamped before the border, the keys erased are
theirs, all but the one that is just being erased, and `count` is their number. That the
loop may stop at the first index that is not expired holds because the chain gives out the
oldest one.

**The policer's bucket.** The bounds relate a quotient rounded down to products of rates and
times. Together with the types they are inductive (`RateInv`). `RefillBounds` says what one
refill adds: no more than the rate allows, but for a tick when `fill_time`, rounded down, has
passed (`Early`), and less by less than a byte. Over that the packet of a new flow and that
of a known one are arithmetic. `FirstBurst` adds that nothing has passed before the first
bucket of an observation. The tokens of a bucket count only while the map leads to it, so that
losing it (`LosesBucket`) can only lower the left side of the bound; the next one adds a burst
to both sides.

**The event loop.** Several DPDK calls make up one step of the loop, and between two of them no
invariant of the loop holds. `Balanced(m, held)` therefore keeps the books for any number
`held` of references in the loop's own hands, and a lemma for each call says which reference
moves: `ReceivedBalances` and `CloneBalances` bring one into hand, `EnqueueBalances` takes it
to a ring, `DequeueBalances` back, `FreeBalances` drops it. When a ring's head leaves, all
others move up; a bijection shows that the places of a buffer are as many as before.
`LoopInv` is `Balanced` with what `buf` and `tx_buf` hold. `PoolsLast` counts: when the
loop polls, a frame that is not free is in a ring, or a clone of it is (`FrameInRing`), so
such frames are no more than the rings' slots (`NoMoreThanSlots`), and the sizes `main`
chooses (`NfMainAssumption`) leave one over. The condition of `FloodNeverExits` holds for the
code's numbers, 256 clones and rings of 96, with two devices and not with three; in run
`nf_main` it does not hold, and the exit is reached.

**The bridge.** The invariant is `TypeOK` and `TablesCoherent`. A step is shown to be one
of `MacTable` by describing what expiry, rejuvenation and insertion do to the set of
entries. The one argument that is not local is that the bridge's table is out of
indexes exactly when the abstract one has `capacity` entries (`OutOfSpace`): live
indexes and entries are in bijection.

**CRAB.** `CrabInv` says of every object whose maps no run of `lb_cfg` mixed up that each
address in `targets_map` can be reached and each slot below the count holds one
(`MapsGood`), and where `lb_cfg` is in its list (`CfgProgress`). A core holds an index or an
address it read earlier, so `SynForwarded` needs more than the maps being good *now*:
`Kept` states that no step takes an address that can be reached away or empties a slot.
Neither `lb_cfg` nor the loader ever deletes from these maps, which is what makes reading
them without a lock sound.

**The loader.** `LoaderProgress` says for every step of a run what has become of the pins it
began with: at each place of `unpin`, `pin` and `unwind` the pins are a function of `begin`,
the object and the index. It also says that a run that reuses maps holds the pinned ones.
`PinnedMapsInUse` alone says nothing of a run on its way, and `PinsAfterRun` compares the
end of a run with its beginning.

**The XDP firewall.** `XdpFwInv` adds to the types where a core's packet can be at each program
counter, that the table's keys belong to packets that came from inside, that a core before
its redirect saw its flow in the table, that the table holds at most `MaxFlows` keys and that
the flows that were refused found as many. The table only grows, so what a core has read stays
true until it acts on it. `KeysAndEnds` says what a key tells: two packets have the same one
exactly if they have the same addresses and the same ports, in either order.

**VigLB.** The backends' tables are shown to track their heartbeats with the lemmas of
`FlowTableProofs`, instantiated for addresses. The flows' table is *not* coherent (a flow
leaves the map and its index stays allocated), so a weaker invariant takes that place:
`LeadsHome`, that the map leads to allocated indexes that hold the flow. `Affinity` is not
inductive: it compares addresses, while the code compares indexes, and the index of a backend
that expired is given to another. `Assigned` strengthens it: a flow whose server is still
active is assigned the index that the backends' map gives for that server's address. Nothing
of the consistent hashing table is needed but that it is looked up among active backends.

**Katran.** `KatranInv` has the shape of the caches and of the cores' records, that a flow which
bypasses the cache has no entry, that the counter of a core is at least the entries made in its
current second and the one it is about to make (`RatesCount`), and `EntriesKept`. The last one
is what `EntryNamesServer` is not: inductive. An entry names a server because some core sent
there, or is about to send there, and that core's next packet of the flow may go elsewhere. So
`EntriesKept` asks for a core that owns the entry (`Owner`): it is about to send to that server,
or it sent there last and is doing nothing that comes between the flow and its server
(`Harmless`): no packet of this flow, one that is about to replace the entry, or a SYN in a
flood, which `stale` records. A core that missed is not such an owner: it saw no entry, so the
one that is there now is another core's.
`MAX_CONN_RATE` is assumed positive
(`balancer_consts.h:197`): the packet that opens a new second is not tested against it.
The key that `F_HASH_DPORT_ONLY` makes, with its source cleared, is assumed to differ from
every flow's own.

What stays with TLC, on the instances above:

- `FillEnds` and `RingsAreServed`: liveness is out of the prover's reach.
- The type invariant of the double map and of the parts of `MCXdp` as one formula; the
  theorems about each of those programs include the types they need.

## Where code and description disagree

Four disagreements have a run that exhibits them:

- `lb_balancer.c:292`: the lookup reads cell `(hash + i) % cht_height` of a table
  with rows of `backend_capacity` cells, whereas line 103 describes a priority list
  for each hash. (`cht_lookup`)
- `lb_balancer.c:369`: a packet of a known flow rejuvenates `flow_chain` at the
  *backend's* index, whereas `lb_abstract.h:82-84` gives the new time to the flow.
  (`balancer_rejuvenation`)
- `policer_main.c:34` passes the vector of buckets where the vector of keys is
  expected. Expired keys stay in the map, and a put into a full map follows, which
  `map.h:62` rules out. Line 32 adds to it: `burst / rate` is in seconds, and 0 for the
  Makefile's values, while the time is in nanoseconds. (`policer`)
- `ebpf-nfs/fw/xdp_fw_user.c:116` sets only `B_PORT` in `tx_port`, so the answers that the
  program redirects to `A_PORT` are aborted; the driver `fw.c:34`, which names
  `xdp_fw_user.c` as its origin, sets both. (`xdp_fw_replies`)

These were met while modelling and have no run of their own:

- `nat-flowmanager.c:55`: the port is cut to 16 bits, so a table that is larger than
  the ports from `start_port` on (262144 flows in `vignat/Makefile`) leaves the range that
  `nat_config.h:30` gives, and ports repeat.
- `nat-flowmanager.c:89-90`: the chain is asked about an index that was not compared
  with its range, which `double-chain.h:441` requires.
- `nat_config.h:33` gives the expiration time in seconds; it is subtracted from a
  time in nanoseconds (`nat-flowmanager.c:69-70`).
- `vigfw/Makefile:14` passes `--expire 60000000000`, which the 32-bit field of
  `fw_config.h:23` cuts to 4165425152.
- `lb_balancer.c:364`: a flow leaves the map but its index stays allocated; when
  that index expires, `map_erase` may be called for a key that is absent, against
  `map.h:73`.
- `bridge_forward.c:85-88`: a station that moves keeps its old device. (The abstract
  state says the same, so `ImplementsMacTable` holds.)
- `nf_main.c`: 256 clones are fewer than three transmit rings of 96 hold; flood
  exits the program when they run out.
- `xdp_loader`: one that is killed while it unpins leaves some maps pinned, without the
  one it looks for first; every later load then attaches its program and fails to pin
  its maps, until the files are removed by hand. `PinsAfterRun` states this as it is.
- `common_user_bpf_xdp.c:35`: with `--force` and the other mode the running program is
  detached first; if the driver refuses the new mode the device has none.
- `lb_cfg.c:119` compares `macs_map_fd` where it means the count's descriptor, so a
  missing count is noticed only when it is written.
- `lb_cfg` never deletes a MAC: after enough servers `macs_map` is full, and a new
  server is refused after its address has been written.
- `xdp_fw_kern.h:33-44` orders addresses and ports independently, so a flow and the one
  with its ports exchanged have one key. The table is never emptied; once it is full,
  new flows leave and their answers are dropped.
- `balancer_kern.h:134`: a SYN in a flood goes to the ring's server and leaves the entry
  of an earlier connection, which the packets after it follow. Flows of a VIP with
  `F_HASH_DPORT_ONLY` are entered under a key that no lookup uses.
- `rehashing-map.c:306`, `alternate-double-chain.c:39`, `router_options.c:9`: see the
  hazards in PROJECT.json; these parts are not modelled.

## What is not modelled, and why

Much of the repository is not its programs: bundled libbpf and kernel headers, KLEE
stubs, ghost code, benchmarks, contracts and scripts. Of the NFs:

- **Memory permissions** (borrow and return of vector cells, ownership of keys):
  VeriFast's subject, without run-time state.
- **Frames**: parsing, rewriting, encapsulation and checksums are stateless.
- **Start-up** of the DPDK NFs: allocation failures exit before the first packet.
- **Rehashing map, bucket map, alternate chain, predicated and batching variants**: no NF
  is built with them. The alternate chain reads past its cells, where its outcome is
  not determined by its state.
- **LPM and router**: nothing is kept from one packet to the next. The router's option
  walk leaves the packet.
- **Katran** beyond the choice of a server: QUIC connection ids, source routing and
  decapsulation are compiled out or stateless, ICMP and health checks stateless; the
  control plane is not in the repository.
- **Hardware offload** and command lines of the XDP helpers.
- **libbpf** beyond the loops over an object's maps: a library, taken by what the
  helpers use of it.

## Open ends

- `DoubleMap` and `Policer` against an abstract table of their own.
