---------------------------- MODULE TokenBucket ----------------------------
(***************************************************************************)
(* The bucket of one destination of the policer: nf_core_process of        *)
(* policer_main.c with its integer arithmetic, over the packets of this    *)
(* destination and of others.  policer_expire_entries frees an index once  *)
(* it is burst/rate ticks old and leaves its key in the map (see Policer), *)
(* so the bucket is used until another destination is given the index.     *)
(* The bounds are small stand-ins for bytes, bytes per second and          *)
(* nanoseconds.                                                            *)
(***************************************************************************)
EXTENDS Bucket

CONSTANTS
  MaxSize,        \* bound on the size of a packet
  MaxTicks,       \* bound on the time of the model
  MaxPackets,     \* bound on the packets of one observation of a bucket
  MaxBursts       \* bound on the buckets of one observation

ASSUME TokenBucketAssumption ==
  /\ BucketAssumption
  /\ MaxSize \in Nat /\ MaxTicks \in Nat /\ MaxPackets \in Nat /\ MaxBursts \in Nat \ {0}

VARIABLES
  ticks, policing,          \* the time, and whether a packet is yet to be policed
  present,                  \* the map leads from the destination to its bucket
  bucket_size, bucket_time, \* struct Bucket
  live,                     \* its index is allocated; it is stamped bucket_time
  since, passed,            \* history: the start of an observation, the bytes
  fills, bursts,            \* forwarded since then, the fills to the brim and
                            \* the buckets it was given, the first included
  ideal, packets            \* history: the bucket without rounding, in parts
                            \* of 1/SECONDS byte, and the packets since it was
                            \* last equal to the bucket

bucketVars == <<ticks, policing, present, bucket_size, bucket_time, live,
                since, passed, fills, bursts, ideal, packets>>

Sizes == 0 .. MaxSize

BucketInit ==
  /\ ticks = 0 /\ policing = FALSE
  /\ present = FALSE /\ live = FALSE
  /\ bucket_size \in 0 .. burst /\ bucket_time = 0    \* not yet written
  /\ since = 0 /\ passed = 0 /\ fills = 0 /\ bursts = 0
  /\ ideal = 0 /\ packets = 0

\* policer_expire_entries, before every packet.  For each index that expires
\* map_erase is called with the size of its bucket for a key, which may happen
\* to be this destination.
policer_expire_entries(time) ==
  /\ ~policing
  /\ policing' = TRUE
  /\ ticks' = time
  /\ live' = (live /\ bucket_time >= time - burst \div rate)
  /\ present' \in {present, FALSE}
  /\ UNCHANGED <<bucket_size, bucket_time, since, passed, fills, bursts, ideal, packets>>

\* A packet that is not policed or goes to another destination, which may be
\* new and be given the index: its key and its bucket take the place of these.
OtherPacket ==
  /\ policing
  /\ policing' = FALSE
  /\ present' \in IF live THEN {present} ELSE {present, FALSE}
  /\ UNCHANGED <<ticks, bucket_size, bucket_time, live, since, passed, fills, bursts,
                 ideal, packets>>

\* policer_check_tb for a destination the map does not find.
NewFlow(size) ==
  /\ policing /\ ~present
  /\ policing' = FALSE
  /\ \/ \* larger than a burst, or no index is free
        UNCHANGED <<present, bucket_size, bucket_time, live, since, passed, fills, bursts,
                    ideal, packets>>
     \/ /\ size <= burst
        /\ bursts < MaxBursts
        /\ present' = TRUE /\ live' = TRUE
        /\ bucket_size' = burst - size
        /\ bucket_time' = ticks
        /\ since' = IF bursts = 0 THEN ticks ELSE since
        /\ passed' = passed + size
        /\ bursts' = bursts + 1
        /\ ideal' = (burst - size) * SECONDS
        /\ packets' = 0
        /\ UNCHANGED fills
  /\ UNCHANGED ticks

\* policer_check_tb for one it finds.
KnownFlow(size) ==
  LET diff == ticks - bucket_time
      tokens == Refill(bucket_size, diff)
      exact == AtMost(ideal + diff * rate, burst * SECONDS)
  IN  /\ policing /\ present
      /\ packets < MaxPackets
      /\ policing' = FALSE
      /\ bucket_time' = ticks
      /\ \/ /\ tokens > size
            /\ bucket_size' = tokens - size
            /\ passed' = passed + size
            /\ ideal' = exact - size * SECONDS
         \/ /\ tokens <= size
            /\ bucket_size' = tokens
            /\ passed' = passed
            /\ ideal' = exact
      /\ fills' = IF diff >= fill_time THEN fills + 1 ELSE fills
      /\ packets' = packets + 1
      /\ UNCHANGED <<ticks, present, live, since, bursts>>

\* Not a step of the program: the observation may start at any time.
Observe ==
  /\ ~policing
  /\ since' = bucket_time /\ passed' = 0 /\ fills' = 0
  /\ bursts' = IF present THEN 1 ELSE 0
  /\ ideal' = bucket_size * SECONDS /\ packets' = 0
  /\ UNCHANGED <<ticks, policing, present, bucket_size, bucket_time, live>>

BucketNext ==
  \/ \E time \in ticks .. MaxTicks : policer_expire_entries(time)
  \/ OtherPacket
  \/ \E size \in Sizes : NewFlow(size) \/ KnownFlow(size)
  \/ Observe

BucketSpec == BucketInit /\ [][BucketNext]_bucketVars

-----------------------------------------------------------------------------
(* Properties.                                                             *)

BucketTypeOK ==
  /\ {policing, present, live} \subseteq BOOLEAN
  /\ bucket_size \in 0 .. burst
  /\ ticks \in 0 .. MaxTicks /\ bucket_time \in 0 .. ticks /\ since \in 0 .. bucket_time
  /\ passed \in Nat /\ fills \in Nat /\ bursts \in 0 .. MaxBursts
  /\ packets \in 0 .. MaxPackets
  /\ ideal \in Int

\* In every interval a destination is forwarded at most what the rate allows for
\* the length of the interval, and a burst for each bucket it was given.  A fill
\* to the brim is granted at the end of fill_time rounded down, so each may come
\* one tick early.  The second and every further burst is owed to the expiry: a
\* destination that lost its index, or its key, starts with a full bucket.
\* (policer_check_tb, policer_expire_entries)
RateBound ==
  (passed + IF present THEN bucket_size ELSE 0) * SECONDS
    <= bursts * burst * SECONDS + rate * (bucket_time - since + fills)

\* Rounding is against the flow by less than a byte per packet, although
\* bucket_time moves on even when the tokens added are rounded to none.
LossBound ==
  present => bucket_size * SECONDS + packets * (SECONDS - 1) >= ideal
=============================================================================
