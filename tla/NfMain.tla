------------------------------- MODULE NfMain -------------------------------
(***************************************************************************)
(* The event loop every DPDK NF runs on: lcore_main and flood of           *)
(* nf_main.c.  One core polls the devices in turn; the frame it receives   *)
(* is dropped, sent to one device or flooded to all others, as the NF      *)
(* says.  The model follows the packet buffers and their reference counts: *)
(* a clone made for flooding keeps the frame alive until it is sent.       *)
(***************************************************************************)
EXTENDS Integers, Sequences, FiniteSets

CONSTANTS
  DevicesCount,   \* VIGOR_DEVICES_COUNT
  RxQueueSize,    \* RX_QUEUE_SIZE
  TxQueueSize,    \* TX_QUEUE_SIZE
  MbufCount,      \* elements of mbuf_pool (MEMPOOL_BUFFER_COUNT * nb_devices)
  CloneCount      \* elements of clone_pool (MEMPOOL_BUFFER_COUNT)

DeviceIds == 0 .. DevicesCount - 1
FloodFrame == 65535

\* The buffers of mbuf_pool that are not in a receive ring.  The driver hands
\* out a ring's buffer and puts a free one in its place; nothing tells the two
\* apart, so the model leaves the ring alone and hands out the free one.
Mbufs == 1 .. MbufCount - DevicesCount * RxQueueSize
Clones == MbufCount + 1 .. MbufCount + CloneCount

\* The sizes main chooses: the rings of all devices leave a buffer over.
ASSUME NfMainAssumption ==
  /\ DevicesCount \in 1 .. FloodFrame - 1
  /\ RxQueueSize \in Nat \ {0} /\ TxQueueSize \in Nat \ {0}
  /\ CloneCount \in Nat
  /\ MbufCount \in Nat /\ MbufCount > DevicesCount * (RxQueueSize + TxQueueSize)

VARIABLES
  pc,             \* "poll", "flood" (in the loop of flood), "send" (in
                  \* rte_eth_tx_burst) or "exited" (rte_exit)
  VIGOR_DEVICE,   \* the device that is polled
  copyTo,         \* flood's loop variable
  buf,            \* the frame flood is copying, or 0
  tx_buf, tx_to,  \* the buffer that is being sent, or 0, and to which device
  arrived,        \* arrived[d]: the frames that wait in the receive ring of d
  mem             \* the pools, the reference counts and the transmit rings:
                  \* [free, refcnt, from, txq]; from[c]: the frame c is a clone of

loopVars == <<pc, VIGOR_DEVICE, copyTo, buf, tx_buf, tx_to, arrived, mem>>

Least(S) == CHOOSE x \in S : \A y \in S : x <= y

-----------------------------------------------------------------------------
(* The DPDK calls.                                                         *)

\* One reference less; a buffer nobody refers to goes back to its pool.
Unref(m, b) ==
  [m EXCEPT !.refcnt[b] = m.refcnt[b] - 1,
            !.free = IF m.refcnt[b] = 1 THEN m.free \cup {b} ELSE m.free]

\* rte_pktmbuf_free: freeing a clone detaches it from the frame it shares.
rte_pktmbuf_free(m, b) ==
  IF b \in Clones
  THEN [Unref(Unref(m, m.from[b]), b) EXCEPT !.from[b] = 0]
  ELSE Unref(m, b)

\* rte_pktmbuf_clone of b into the clone c.
rte_pktmbuf_clone(m, b, c) ==
  [m EXCEPT !.free = m.free \ {c}, !.from[c] = b,
            !.refcnt = [m.refcnt EXCEPT ![c] = 1, ![b] = m.refcnt[b] + 1]]

\* A buffer of the pool is given out.
Received(m, b) == [m EXCEPT !.free = m.free \ {b}, !.refcnt[b] = 1]

\* The transmit ring of d.
Enqueue(m, d, b) == [m EXCEPT !.txq[d] = Append(m.txq[d], b)]
Dequeue(m, d) == [m EXCEPT !.txq[d] = Tail(m.txq[d])]

\* main and nf_init_device.
LoopInit ==
  /\ pc = "poll" /\ VIGOR_DEVICE = 0 /\ copyTo = 0
  /\ buf = 0 /\ tx_buf = 0 /\ tx_to = 0
  /\ arrived = [d \in DeviceIds |-> 0]
  /\ mem = [free |-> Mbufs \cup Clones,
            refcnt |-> [b \in Mbufs \cup Clones |-> 0],
            from |-> [c \in Clones |-> 0],
            txq |-> [d \in DeviceIds |-> << >>]]

-----------------------------------------------------------------------------
(* lcore_main.                                                             *)

NextDevice == VIGOR_DEVICE' = (VIGOR_DEVICE + 1) % DevicesCount

\* rte_eth_rx_burst finds no frame, or no buffer to put in its place.
PollNothing ==
  /\ pc = "poll"
  /\ arrived[VIGOR_DEVICE] = 0 \/ mem.free \cap Mbufs = {}
  /\ NextDevice
  /\ UNCHANGED <<pc, copyTo, buf, tx_buf, tx_to, arrived, mem>>

\* rte_eth_rx_burst returns a frame, for which nf_core_process returns dst.
PollFrame(dst) ==
  /\ pc = "poll"
  /\ arrived[VIGOR_DEVICE] > 0
  /\ mem.free \cap Mbufs # {}
  /\ LET received == Least(mem.free \cap Mbufs)
     IN  /\ arrived' = [arrived EXCEPT ![VIGOR_DEVICE] = arrived[VIGOR_DEVICE] - 1]
         /\ \/ /\ dst = VIGOR_DEVICE
               /\ mem' = rte_pktmbuf_free(Received(mem, received), received)
               /\ NextDevice
               /\ UNCHANGED <<pc, copyTo, buf, tx_buf, tx_to>>
            \/ /\ dst = FloodFrame
               /\ pc' = "flood" /\ copyTo' = 0 /\ buf' = received
               /\ mem' = Received(mem, received)
               /\ UNCHANGED <<VIGOR_DEVICE, tx_buf, tx_to>>
            \/ /\ dst \in DeviceIds \ {VIGOR_DEVICE}
               /\ pc' = "send" /\ tx_buf' = received /\ tx_to' = dst
               /\ mem' = Received(mem, received)
               /\ UNCHANGED <<VIGOR_DEVICE, copyTo, buf>>

\* rte_eth_tx_burst first frees any number of the buffers the NIC has sent.
FreeSent ==
  /\ pc = "send"
  /\ mem.txq[tx_to] # << >>
  /\ mem' = rte_pktmbuf_free(Dequeue(mem, tx_to), Head(mem.txq[tx_to]))
  /\ UNCHANGED <<pc, VIGOR_DEVICE, copyTo, buf, tx_buf, tx_to, arrived>>

\* What follows when one buffer has been sent: the next device of flood, or the
\* end of the iteration of lcore_main.
Continue ==
  \/ buf # 0 /\ pc' = "flood" /\ copyTo' = copyTo + 1 /\ UNCHANGED VIGOR_DEVICE
  \/ buf = 0 /\ pc' = "poll" /\ UNCHANGED copyTo /\ NextDevice

\* Mutant of Transmit: a buffer the transmit ring does not take is not freed.
TransmitLeaking ==
  /\ pc = "send"
  /\ \/ Len(mem.txq[tx_to]) < TxQueueSize /\ mem' = Enqueue(mem, tx_to, tx_buf)
     \/ Len(mem.txq[tx_to]) >= TxQueueSize /\ UNCHANGED mem
  /\ tx_buf' = 0 /\ tx_to' = 0
  /\ Continue
  /\ UNCHANGED <<buf, arrived>>

\* rte_eth_tx_burst takes the buffer and returns 1, or returns 0 because the ring
\* is full, and the buffer is freed.
Transmit ==
  /\ pc = "send"
  /\ \/ Len(mem.txq[tx_to]) < TxQueueSize /\ mem' = Enqueue(mem, tx_to, tx_buf)
     \/ Len(mem.txq[tx_to]) >= TxQueueSize /\ mem' = rte_pktmbuf_free(mem, tx_buf)
  /\ tx_buf' = 0 /\ tx_to' = 0
  /\ Continue
  /\ UNCHANGED <<buf, arrived>>

\* Mutant of FloodEnd: flood keeps its own reference to the frame.
FloodEndWithoutFree ==
  /\ pc = "flood"
  /\ copyTo = DevicesCount
  /\ pc' = "poll" /\ copyTo' = 0 /\ buf' = 0
  /\ NextDevice
  /\ UNCHANGED <<tx_buf, tx_to, arrived, mem>>

\* The end of flood: its own reference to the frame is dropped.
FloodEnd ==
  /\ pc = "flood"
  /\ copyTo = DevicesCount
  /\ mem' = rte_pktmbuf_free(mem, buf)
  /\ pc' = "poll" /\ copyTo' = 0 /\ buf' = 0
  /\ NextDevice
  /\ UNCHANGED <<tx_buf, tx_to, arrived>>

\* One iteration of flood's loop; without a clone the program exits.
FloodStep ==
  /\ pc = "flood"
  /\ copyTo < DevicesCount
  /\ UNCHANGED <<VIGOR_DEVICE, buf, arrived>>
  /\ \/ /\ copyTo = VIGOR_DEVICE
        /\ copyTo' = copyTo + 1
        /\ UNCHANGED <<pc, tx_buf, tx_to, mem>>
     \/ /\ copyTo # VIGOR_DEVICE
        /\ mem.free \cap Clones # {}
        /\ LET copy == Least(mem.free \cap Clones)
           IN  mem' = rte_pktmbuf_clone(mem, buf, copy) /\ tx_buf' = copy
        /\ tx_to' = copyTo /\ pc' = "send"
        /\ UNCHANGED copyTo
     \/ /\ copyTo # VIGOR_DEVICE
        /\ mem.free \cap Clones = {}
        /\ pc' = "exited"
        /\ UNCHANGED <<copyTo, tx_buf, tx_to, mem>>

\* The NIC writes a frame into the receive ring of d.
Arrive(d) ==
  /\ pc # "exited"
  /\ arrived[d] < RxQueueSize
  /\ arrived' = [arrived EXCEPT ![d] = arrived[d] + 1]
  /\ UNCHANGED <<pc, VIGOR_DEVICE, copyTo, buf, tx_buf, tx_to, mem>>

lcore_main ==
  \/ PollNothing
  \/ \E dst \in DeviceIds \cup {FloodFrame} : PollFrame(dst)
  \/ FloodStep
  \/ FloodEnd
  \/ FreeSent
  \/ Transmit

LoopNext ==
  \/ lcore_main
  \/ \E d \in DeviceIds : Arrive(d)
  \/ pc = "exited" /\ UNCHANGED loopVars

\* The core never stops polling; nothing is assumed of the NICs.
LoopSpec == LoopInit /\ [][LoopNext]_loopVars /\ WF_loopVars(lcore_main)

-----------------------------------------------------------------------------
(* Properties.                                                             *)

\* The places of b in the transmit rings.
Places(b) ==
  {p \in DeviceIds \X (1 .. TxQueueSize) :
     p[2] <= Len(mem.txq[p[1]]) /\ mem.txq[p[1]][p[2]] = b}

\* How many references to b there are: in transmit rings, from clones, by flood
\* and by the call that sends it.
Holders(b) ==
  Cardinality(Places(b))
    + Cardinality({c \in Clones : mem.refcnt[c] > 0 /\ mem.from[c] = b})
    + (IF buf = b THEN 1 ELSE 0)
    + (IF tx_buf = b THEN 1 ELSE 0)

\* Every buffer's count is the number of its holders, and the free buffers are
\* those without one: no path of lcore_main and flood, with any mix of full
\* rings, loses a buffer or frees one twice.
RefcntsExact ==
  \A b \in Mbufs \cup Clones :
    /\ mem.refcnt[b] = Holders(b)
    /\ b \in mem.free <=> mem.refcnt[b] = 0

\* The driver always has a buffer to put in the place of the frame it hands out,
\* and flood exits for want of a clone only when the transmit rings hold every
\* one there is, so never with more clones than the rings of all devices have
\* room for: 256 are enough for two rings of 96 but not for three.
BuffersSuffice ==
  /\ pc = "poll" => mem.free \cap Mbufs # {}
  /\ pc = "exited" => \A c \in Clones : Places(c) # {}

\* A full receive ring is eventually served, on every device and whatever the
\* NICs do: neither the other devices nor unsent frames starve it of buffers.
RingsAreServed ==
  \A d \in DeviceIds :
    arrived[d] = RxQueueSize ~> arrived[d] < RxQueueSize \/ pc = "exited"
=============================================================================
