---------------------------- MODULE FilterProofs ----------------------------
(***************************************************************************)
(* The programs that decide which packets pass: the two firewalls and the  *)
(* policer.  VigFW opens exactly the flows that are active, for tables of  *)
(* any size, any flows and any expiration time the configuration accepts.  *)
(* The XDP firewall lets in the answers to packets that left, for any      *)
(* number of cores and flows, at every step of a core.  The policer keeps  *)
(* a destination to its rate, but for a burst with each bucket it is       *)
(* given, for every rate, burst and unit of time.                          *)
(***************************************************************************)
EXTENDS Firewall, FlowTableProofs, XdpFw, TokenBucket, FiniteSetTheorems

FwInv == VigfwTypeOK /\ Tracks(table, seen, now - expiration_time)

LEMMA ExpirationTime == expiration_time \in Nat
BY FirewallAssumption DEF expiration_time

LEMMA FwInitial == VigfwInit => FwInv
<1> SUFFICES ASSUME VigfwInit PROVE FwInv
  OBVIOUS
<1>1. 0 \in Times /\ now - expiration_time \in Int
  BY ExpirationTime, FlowTableAssumption DEF Times, VigfwInit
<1>2. seen \in [Keys -> Times \cup {Absent}]
  BY DEF VigfwInit
<1>3. VigfwTypeOK
  BY <1>1, <1>2 DEF VigfwInit, VigfwTypeOK
<1> QED
  BY <1>1, <1>3, EmptyTracks DEF VigfwInit, FwInv

\* What every packet starts with, flow_manager_expire.
LEMMA FwExpire ==
  ASSUME FwInv, NEW time \in now .. MaxTime
  PROVE  LET t == flow_manager_expire(table, time)
         IN  /\ time \in Times /\ time \in Int /\ time - expiration_time \in Int
             /\ time - expiration_time <= time
             /\ seen \in Stamps
             /\ t \in Tables
             /\ Tracks(t, seen, time - expiration_time)
<1>1. /\ time \in Times /\ time \in Int /\ now \in Int
      /\ now - expiration_time \in Int /\ time - expiration_time \in Int
      /\ now - expiration_time <= time - expiration_time
      /\ time - expiration_time <= time
  BY FlowTableAssumption, ExpirationTime DEF FwInv, VigfwTypeOK, Times
<1>2. table \in Tables /\ seen \in Stamps
  BY DEF FwInv, VigfwTypeOK, Stamps
<1> QED
  BY <1>1, <1>2, ExpireType, ExpireTracks DEF FwInv, flow_manager_expire

\* A packet of flow f passes when f is in the table: its index is rejuvenated.
LEMMA FwKnown ==
  ASSUME FwInv, NEW time \in now .. MaxTime, now' = time,
         NEW f \in Keys, flow_manager_expire(table, time).map[f] # Absent,
         table' = Rejuvenate(flow_manager_expire(table, time),
                             flow_manager_expire(table, time).map[f], time),
         seen' = [seen EXCEPT ![f] = time],
         out' \in {ToWan(g) : g \in Keys} \cup {ToLan(g) : g \in Keys}
  PROVE  FwInv'
<1> DEFINE t == flow_manager_expire(table, time)
<1>1. t.map[f] \in Live(t) /\ t.map[f] \in Indexes /\ t.vec[t.map[f]] = f
  BY FwExpire DEF Tracks, Coherent, Live
<1>2. Tracks(table', seen', time - expiration_time)
  BY <1>1, FwExpire, RejuvenateTracks, Zenon
<1>3. table' \in Tables
  BY <1>1, FwExpire, RejuvenateType
<1>4. seen' \in [Keys -> Times \cup {Absent}]
  BY FwExpire DEF Stamps
<1>5. VigfwTypeOK'
  BY <1>3, <1>4, FwExpire DEF VigfwTypeOK
<1> QED
  BY <1>2, <1>5 DEF FwInv, expiration_time

\* A packet that changes nothing but what expires.
LEMMA FwUnchanged ==
  ASSUME FwInv, NEW time \in now .. MaxTime, now' = time,
         table' = flow_manager_expire(table, time), seen' = seen,
         out' \in {Drop} \cup {Refused(f) : f \in Keys}
  PROVE  FwInv'
<1>1. VigfwTypeOK'
  BY FwExpire DEF VigfwTypeOK, FwInv
<1> QED
  BY <1>1, FwExpire DEF FwInv, expiration_time

LEMMA FwStep == FwInv /\ [VigfwNext]_vigfwVars => FwInv'
<1> SUFFICES ASSUME FwInv, [VigfwNext]_vigfwVars PROVE FwInv'
  OBVIOUS
<1>1. CASE UNCHANGED vigfwVars
  BY <1>1 DEF FwInv, VigfwTypeOK, vigfwVars, expiration_time
<1>2. ASSUME NEW time \in now .. MaxTime, Packet(time), now' = time PROVE FwInv'
  <2> DEFINE t == flow_manager_expire(table, time)
  <2>1. CASE Other(time)
    BY <1>2, <2>1, FwUnchanged DEF Other
  <2>2. ASSUME NEW f \in Keys, Internal(f, time) PROVE FwInv'
    <3>1. CASE /\ t.map[f] # Absent /\ table' = Rejuvenate(t, t.map[f], time)
               /\ out' = ToWan(f) /\ seen' = [seen EXCEPT ![f] = time]
      BY <1>2, <3>1, FwKnown, Zenon
    <3>2. ASSUME t.map[f] = Absent, NEW i \in Indexes \ Live(t),
                 table' = Insert(t, f, i, time),
                 out' = ToWan(f), seen' = [seen EXCEPT ![f] = time]
          PROVE  FwInv'
      <4>1. Tracks(table', seen', time - expiration_time)
        BY <3>2, FwExpire, InsertTracks, Zenon
      <4>2. table' \in Tables
        BY <3>2, FwExpire, InsertType
      <4>3. seen' \in [Keys -> Times \cup {Absent}]
        BY <3>2, FwExpire DEF Stamps
      <4>4. VigfwTypeOK'
        BY <1>2, <3>2, <4>2, <4>3, FwExpire DEF VigfwTypeOK
      <4> QED
        BY <1>2, <4>1, <4>4 DEF FwInv, expiration_time
    <3>3. CASE table' = t /\ out' = Refused(f) /\ UNCHANGED seen
      BY <1>2, <3>3, FwUnchanged
    <3> QED
      BY <2>2, <3>1, <3>2, <3>3 DEF Internal
  <2>3. ASSUME NEW f \in Keys, External(f, time) PROVE FwInv'
    <3>1. Flip(f) \in Keys
      BY FirewallAssumption DEF Flip
    <3> QED
      BY <1>2, <2>3, <3>1, FwKnown, FwUnchanged DEF External
  <2> QED
    BY <1>2, <2>1, <2>2, <2>3 DEF Packet
<1> QED
  BY <1>1, <1>2 DEF VigfwNext

LEMMA FwInvariant == VigfwSpec => []FwInv
BY FwInitial, FwStep, PTL DEF VigfwSpec

\* The three structures of the firewall agree after every packet, and a flow is
\* in the table exactly while it is active (fw-flowmanager.c).
THEOREM FlowsOpenWhileActive == VigfwSpec => []OpenWhileActive
<1>1. FwInv => OpenWhileActive
  BY DEF FwInv, Tracks, OpenWhileActive, OpenFor
<1> QED
  BY <1>1, FwInvariant, PTL

\* Packets come in only as answers to open flows, and a packet that leaves is
\* refused only by a table full of other open flows (nf_core_process of fw.c).
THEOREM OnlyAnswersPass == VigfwSpec => PassesSound
<1> DEFINE Sound ==
             /\ out'.to = "lan" =>
                  OpenFor(<<out'.flow[2], out'.flow[1]>>, now', expiration_time)
             /\ \A f \in Keys : out' = Refused(f) =>
                  \A i \in Indexes :
                    /\ table'.vec[i] # f
                    /\ OpenFor(table'.vec[i], now', expiration_time)
<1>1. FwInv /\ [VigfwNext]_vigfwVars => [Sound]_vigfwVars
  <2> SUFFICES ASSUME FwInv, NEW time \in now .. MaxTime, Packet(time), now' = time
               PROVE  Sound
    BY DEF VigfwNext, vigfwVars
  <2> DEFINE t == flow_manager_expire(table, time)
  <2>1. t \in Tables /\ Tracks(t, seen, time - expiration_time)
    BY FwExpire
  <2>2. ASSUME NEW f \in Keys, out' = Refused(f)
        PROVE  \A i \in Indexes : /\ table'.vec[i] # f
                                  /\ OpenFor(table'.vec[i], now', expiration_time)
    <3>1. t.map[f] = Absent /\ Live(t) = Indexes /\ table' = t
      BY <2>2, Zenon DEF Packet, Other, Internal, External, Drop, Refused, ToWan, ToLan
    <3> HIDE DEF t
    <3> TAKE i \in Indexes
    <3>2. t.vec[i] \in Keys /\ t.map[t.vec[i]] = i /\ i # Absent
      <4>1. Coherent(t) /\ i \in Live(t)
        BY <2>1, <3>1 DEF Tracks
      <4>2. i # Absent
        BY FlowTableAssumption DEF Indexes, Absent
      <4>3. t.vec[i] \in Keys
        BY <2>1 DEF Tables
      <4> QED
        BY <4>1, <4>2, <4>3 DEF Coherent
    <3> QED
      BY <2>1, <3>1, <3>2 DEF Tracks, OpenFor
  <2>3. ASSUME out'.to = "lan"
        PROVE  OpenFor(<<out'.flow[2], out'.flow[1]>>, now', expiration_time)
    <3>1. PICK f \in Keys : t.map[Flip(f)] # Absent /\ out' = ToLan(f)
      BY <2>3 DEF Packet, Other, Internal, External, Drop, Refused, ToWan
    <3>2. Flip(f) \in Keys /\ Flip(f) = <<out'.flow[2], out'.flow[1]>>
      BY <3>1, FirewallAssumption DEF Flip, ToLan
    <3> QED
      BY <2>1, <3>1, <3>2 DEF Tracks, OpenFor
  <2> QED
    BY <2>2, <2>3
<1> QED
  BY <1>1, FwInvariant, PTL DEF VigfwSpec, PassesSound

-----------------------------------------------------------------------------
(* The XDP firewall.                                                       *)

FwStates == [pc : FwVerdicts]
            \cup [pc : {"update", "redirect"}, packet : Packets,
                  from : {A_PORT, B_PORT}, to : {A_PORT, B_PORT}]

FwShape ==
  /\ sent \in SUBSET Packets
  /\ IsFiniteSet(flow_ctx_table) /\ Cardinality(flow_ctx_table) <= MaxFlows
  /\ fwcore \in [FwCores -> FwStates]

\* A flow is in the table, or on its way into it, only because of a packet from
\* the inner device.
FwOrigins ==
  /\ \A k \in flow_ctx_table : \E p \in sent : biflow(p) = k
  /\ \A c \in FwCores :
       /\ fwcore[c].pc = "update" => fwcore[c].packet \in sent /\ fwcore[c].from = A_PORT
       /\ fwcore[c].pc = "redirect" /\ fwcore[c].from = B_PORT =>
            biflow(fwcore[c].packet) \in flow_ctx_table

\* A packet from the inner device has its flow in the table, unless its core is
\* about to enter it or found the table full.
FwAdmits ==
  \A p \in sent :
    \/ biflow(p) \in flow_ctx_table
    \/ p \in refused /\ Cardinality(flow_ctx_table) = MaxFlows
    \/ \E c \in FwCores : fwcore[c].pc = "update" /\ fwcore[c].packet = p

XdpFwInv == FwShape /\ FwOrigins /\ FwAdmits

\* Two pairs are sorted alike exactly if they are the same up to their order.
SortedAlike(a, b, x, y) == Sorted(a, b) = Sorted(x, y) <=> {a, b} = {x, y}

LEMMA SortedPairs ==
  ASSUME NEW a \in Nat, NEW b \in Nat, NEW x \in Nat, NEW y \in Nat
  PROVE  SortedAlike(a, b, x, y)
<1>1. {a, b} = {x, y} <=> (a = x /\ b = y) \/ (a = y /\ b = x)
  OBVIOUS
<1> QED
  BY <1>1 DEF Sorted, SortedAlike

\* Two packets have one key exactly if they are between the same ends.
LEMMA KeysAndEnds ==
  ASSUME NEW p \in Packets, NEW q \in Packets
  PROVE  biflow(p) = biflow(q) <=> SameEnds(p, q)
<1>1. /\ p.ip_src \in Nat /\ p.ip_dst \in Nat /\ p.l4_src \in Nat /\ p.l4_dst \in Nat
      /\ q.ip_src \in Nat /\ q.ip_dst \in Nat /\ q.l4_src \in Nat /\ q.l4_dst \in Nat
  BY FwAssumption
<1>2. biflow(p) = biflow(q) <=> /\ Sorted(p.ip_src, p.ip_dst) = Sorted(q.ip_src, q.ip_dst)
                                /\ Sorted(p.l4_src, p.l4_dst) = Sorted(q.l4_src, q.l4_dst)
  BY Zenon DEF biflow
<1>3. /\ SortedAlike(p.ip_src, p.ip_dst, q.ip_src, q.ip_dst)
      /\ SortedAlike(p.l4_src, p.l4_dst, q.l4_src, q.l4_dst)
  BY <1>1, SortedPairs
<1> QED
  BY <1>2, <1>3 DEF SortedAlike, SameEnds

LEMMA XdpFwInitial == FwInit => XdpFwInv
<1> SUFFICES ASSUME FwInit PROVE XdpFwInv
  OBVIOUS
<1>1. FwShape
  BY FS_EmptySet, FwAssumption DEF FwInit, FwShape, FwStates, FwDone, FwVerdicts
<1>2. FwOrigins /\ FwAdmits
  BY DEF FwInit, FwOrigins, FwAdmits, FwDone
<1> QED
  BY <1>1, <1>2 DEF XdpFwInv

\* A core that gives a verdict, which no flow waits for.
LEMMA FwVerdict ==
  ASSUME XdpFwInv, NEW c \in FwCores, fwcore[c].pc # "update",
         NEW v \in FwVerdicts, fwcore' = [fwcore EXCEPT ![c] = FwDone(v)],
         UNCHANGED <<flow_ctx_table, sent, refused>>
  PROVE  XdpFwInv'
<1>1. FwDone(v) \in FwStates /\ FwDone(v).pc \notin {"update", "redirect"}
  BY DEF FwDone, FwStates, FwVerdicts
<1>2. /\ fwcore'[c] = FwDone(v)
      /\ \A d \in FwCores : d # c => fwcore'[d] = fwcore[d]
  BY DEF XdpFwInv, FwShape
<1>3. FwShape'
  BY <1>1 DEF XdpFwInv, FwShape
<1>4. FwOrigins' /\ FwAdmits'
  BY <1>1, <1>2 DEF XdpFwInv, FwOrigins, FwAdmits
<1> QED
  BY <1>3, <1>4 DEF XdpFwInv

\* The lookup: the packet's core goes on.
LEMMA FwLookup ==
  ASSUME XdpFwInv, NEW c \in FwCores, NEW p \in Packets,
         LookupFromA(c, p) \/ LookupFromB(c, p)
  PROVE  XdpFwInv'
<1>1. /\ fwcore[c].pc \notin {"update", "redirect"}
      /\ UNCHANGED <<flow_ctx_table, refused>>
  BY DEF LookupFromA, LookupFromB, FwVerdicts
<1>2. ASSUME NEW pc \in {"update", "redirect"}, NEW from \in {A_PORT, B_PORT}, NEW to \in {A_PORT, B_PORT},
             fwcore' = [fwcore EXCEPT ![c] = Handling(pc, p, from, to)]
      PROVE  /\ fwcore' \in [FwCores -> FwStates]
             /\ fwcore'[c].pc = pc /\ fwcore'[c].packet = p /\ fwcore'[c].from = from
             /\ \A d \in FwCores : d # c => fwcore'[d] = fwcore[d]
  <2>1. Handling(pc, p, from, to) \in FwStates
    BY DEF Handling, FwStates
  <2> QED
    BY <1>2, <2>1 DEF XdpFwInv, FwShape, Handling
<1>3. CASE LookupFromA(c, p)
  <2> DEFINE pc == IF biflow(p) \in flow_ctx_table THEN "redirect" ELSE "update"
  <2>1. /\ fwcore' \in [FwCores -> FwStates]
        /\ fwcore'[c].pc = pc /\ fwcore'[c].packet = p /\ fwcore'[c].from = A_PORT
        /\ \A d \in FwCores : d # c => fwcore'[d] = fwcore[d]
    BY <1>2, <1>3 DEF LookupFromA
  <2>2. sent' = sent \cup {p}
    BY <1>3 DEF LookupFromA
  <2>3. FwShape'
    BY <1>1, <2>1, <2>2 DEF XdpFwInv, FwShape
  <2>4. FwOrigins'
    BY <1>1, <2>1, <2>2 DEF XdpFwInv, FwOrigins, A_PORT, B_PORT
  <2>5. FwAdmits'
    BY <1>1, <2>1, <2>2 DEF XdpFwInv, FwAdmits
  <2> QED
    BY <2>3, <2>4, <2>5 DEF XdpFwInv
<1>4. CASE /\ biflow(p) \in flow_ctx_table
           /\ fwcore' = [fwcore EXCEPT ![c] = Handling("redirect", p, B_PORT, A_PORT)]
           /\ sent' = sent
  <2>1. /\ fwcore' \in [FwCores -> FwStates]
        /\ fwcore'[c].pc = "redirect" /\ fwcore'[c].packet = p
        /\ \A d \in FwCores : d # c => fwcore'[d] = fwcore[d]
    BY <1>2, <1>4
  <2>2. FwShape'
    BY <1>1, <1>4, <2>1 DEF XdpFwInv, FwShape
  <2>3. FwOrigins' /\ FwAdmits'
    BY <1>1, <1>4, <2>1 DEF XdpFwInv, FwOrigins, FwAdmits
  <2> QED
    BY <2>2, <2>3 DEF XdpFwInv
<1>5. CASE fwcore' = [fwcore EXCEPT ![c] = FwDone("XDP_DROP")] /\ sent' = sent
  BY <1>1, <1>5, FwVerdict DEF FwVerdicts
<1> QED
  BY <1>3, <1>4, <1>5 DEF LookupFromB

\* The update enters the flow of the core's packet, or the table is full.
LEMMA FwUpdate ==
  ASSUME XdpFwInv, NEW c \in FwCores, UpdateFlow(c)
  PROVE  XdpFwInv'
<1> DEFINE key == biflow(fwcore[c].packet)
<1>1. /\ fwcore[c].pc = "update" /\ sent' = sent
      /\ refused' = IF key \in flow_ctx_table' THEN refused
                    ELSE refused \cup {fwcore[c].packet}
      /\ flow_ctx_table' = IF Cardinality(flow_ctx_table) < MaxFlows
                           THEN flow_ctx_table \cup {key} ELSE flow_ctx_table
      /\ fwcore' = [fwcore EXCEPT ![c].pc = "redirect"]
  BY DEF UpdateFlow
<1>2. /\ fwcore[c].packet \in sent /\ fwcore[c].from = A_PORT /\ fwcore[c] \in FwStates
      /\ IsFiniteSet(flow_ctx_table) /\ Cardinality(flow_ctx_table) \in Nat
  BY <1>1, FS_CardinalityType DEF XdpFwInv, FwShape, FwOrigins
<1>3. /\ fwcore[c] \in [pc : {"update", "redirect"}, packet : Packets,
                        from : {A_PORT, B_PORT}, to : {A_PORT, B_PORT}]
  BY <1>1, <1>2 DEF FwStates, FwVerdicts
<1>4. /\ fwcore'[c] \in FwStates
      /\ fwcore'[c].pc = "redirect" /\ fwcore'[c].packet = fwcore[c].packet
      /\ fwcore'[c].from = fwcore[c].from
      /\ \A d \in FwCores : d # c => fwcore'[d] = fwcore[d]
      /\ fwcore' \in [FwCores -> FwStates]
  BY <1>1, <1>3 DEF XdpFwInv, FwShape, FwStates
<1> HIDE DEF key
<1>5. CASE Cardinality(flow_ctx_table) < MaxFlows
  <2>1. flow_ctx_table' = flow_ctx_table \cup {key}
    BY <1>1, <1>5
  <2>2. IsFiniteSet(flow_ctx_table') /\ Cardinality(flow_ctx_table') <= MaxFlows
    <3>1. /\ IsFiniteSet(flow_ctx_table')
          /\ \/ Cardinality(flow_ctx_table') = Cardinality(flow_ctx_table)
             \/ Cardinality(flow_ctx_table') = Cardinality(flow_ctx_table) + 1
      BY <1>2, <2>1, FS_AddElement, Zenon
    <3> QED
      BY <1>2, <1>5, <3>1, FwAssumption
  <2>3. FwShape'
    BY <1>1, <1>4, <2>2 DEF XdpFwInv, FwShape
  <2>4. FwOrigins'
    BY <1>1, <1>2, <1>4, <2>1 DEF XdpFwInv, FwOrigins, key
  <2>5. FwAdmits'
    <3> SUFFICES ASSUME NEW p \in sent
                 PROVE  \/ biflow(p) \in flow_ctx_table'
                        \/ \E d \in FwCores : fwcore'[d].pc = "update" /\ fwcore'[d].packet = p
      BY <1>1, Zenon DEF FwAdmits
    <3>1. Cardinality(flow_ctx_table) # MaxFlows
      BY <1>2, <1>5, FwAssumption
    <3> QED
      BY <1>4, <2>1, <3>1 DEF XdpFwInv, FwAdmits, key
  <2> QED
    BY <2>3, <2>4, <2>5 DEF XdpFwInv
<1>6. CASE ~(Cardinality(flow_ctx_table) < MaxFlows)
  <2>1. flow_ctx_table' = flow_ctx_table /\ Cardinality(flow_ctx_table) = MaxFlows
    BY <1>1, <1>2, <1>6, FwAssumption DEF XdpFwInv, FwShape
  <2>2. FwShape'
    BY <1>1, <1>4, <2>1 DEF XdpFwInv, FwShape
  <2>3. FwOrigins'
    BY <1>1, <1>2, <1>4, <2>1 DEF XdpFwInv, FwOrigins, A_PORT, B_PORT
  <2>4. FwAdmits'
    BY <1>1, <1>2, <1>4, <2>1 DEF XdpFwInv, FwAdmits, key
  <2> QED
    BY <2>2, <2>3, <2>4 DEF XdpFwInv
<1> QED
  BY <1>5, <1>6

LEMMA XdpFwStep == XdpFwInv /\ [FwNext]_fwVars => XdpFwInv'
<1> SUFFICES ASSUME XdpFwInv, [FwNext]_fwVars PROVE XdpFwInv'
  OBVIOUS
<1>1. CASE UNCHANGED <<flow_ctx_table, fwcore, sent, refused>>
  BY <1>1 DEF XdpFwInv, FwShape, FwOrigins, FwAdmits
<1>2. CASE AttachIn \/ AttachOut \/ SetTxPort \/ KilledEarly \/ int_exit
  BY <1>1, <1>2 DEF AttachIn, AttachOut, SetTxPort, KilledEarly, int_exit
<1>3. ASSUME NEW c \in FwCores, DropOther(c) PROVE XdpFwInv'
  BY <1>3, FwVerdict DEF DropOther, FwVerdicts
<1>4. ASSUME NEW c \in FwCores, Redirect(c) PROVE XdpFwInv'
  BY <1>4, FwVerdict DEF Redirect, FwVerdicts
<1> QED
  BY <1>1, <1>2, <1>3, <1>4, FwLookup, FwUpdate DEF FwNext, fwVars

LEMMA XdpFwInvariant == FwSpec => []XdpFwInv
BY XdpFwInitial, XdpFwStep, PTL DEF FwSpec

\* A packet from the outer device goes on only between hosts and ports that a
\* packet from the inner device came between, for any number of cores that look
\* up and update the table at the same time.  (xdp_fw_prog, biflow)
THEOREM SameEndsOnly == FwSpec => []OnlySameEndsEnter
<1>1. XdpFwInv => OnlySameEndsEnter
  <2> SUFFICES ASSUME XdpFwInv, NEW c \in FwCores, fwcore[c].pc = "redirect", fwcore[c].from = B_PORT
               PROVE  \E p \in sent : SameEnds(p, fwcore[c].packet)
    BY DEF OnlySameEndsEnter
  <2>1. PICK p \in sent : biflow(p) = biflow(fwcore[c].packet)
    BY DEF XdpFwInv, FwOrigins
  <2>2. p \in Packets /\ fwcore[c].packet \in Packets
    BY DEF XdpFwInv, FwShape, FwStates, FwVerdicts
  <2> QED
    BY <2>1, <2>2, KeysAndEnds
<1> QED
  BY <1>1, XdpFwInvariant, PTL

\* The answer to every packet that was let out is let in, unless the packet's
\* core has still to enter it or found the table full: no update of another
\* core undoes it.  (xdp_fw_prog)
THEOREM AnswersEnter == FwSpec => []AnswersAdmitted
<1>1. XdpFwInv => AnswersAdmitted
  <2> SUFFICES ASSUME XdpFwInv, NEW p \in sent, biflow(p) \in flow_ctx_table
               PROVE  biflow(Answer(p)) \in flow_ctx_table
    BY DEF XdpFwInv, FwAdmits, AnswersAdmitted
  <2>1. p \in [ip_src : Nat, ip_dst : Nat, l4_src : Nat, l4_dst : Nat]
    BY FwAssumption DEF XdpFwInv, FwShape
  <2>2. biflow(Answer(p)) = biflow(p)
    <3>1. ASSUME NEW x \in Nat, NEW y \in Nat PROVE Sorted(x, y) = Sorted(y, x)
      BY DEF Sorted
    <3> QED
      BY <2>1, <3>1 DEF Answer, biflow
  <2> QED
    BY <2>2
<1> QED
  BY <1>1, XdpFwInvariant, PTL

-----------------------------------------------------------------------------
(* The bucket of a policed flow.                                           *)

\* A quotient times its divisor is within the divisor of the dividend.
LEMMA Quotient ==
  ASSUME NEW x \in Nat, NEW n \in Nat \ {0}
  PROVE  /\ x \div n \in Nat
         /\ (x \div n) * n <= x
         /\ x <= (x \div n) * n + (n - 1)
OBVIOUS

LEMMA ProductOrder ==
  ASSUME NEW x \in Int, NEW y \in Int, NEW n \in Nat, x <= y
  PROVE  x * n <= y * n
OBVIOUS

LEMMA Distributes ==
  ASSUME NEW x \in Int, NEW y \in Int, NEW n \in Int
  PROVE  /\ (x + y) * n = x * n + y * n /\ (x - y) * n = x * n - y * n
         /\ n * (x + y) = n * x + n * y
OBVIOUS

LEMMA Constants ==
  /\ rate \in Nat \ {0} /\ burst \in Nat \ {0} /\ SECONDS \in Nat \ {0}
  /\ MaxSize \in Nat /\ MaxTicks \in Nat /\ MaxPackets \in Nat /\ MaxBursts \in Nat
BY TokenBucketAssumption DEF BucketAssumption

LEMMA FillTime == fill_time \in Nat /\ burst * SECONDS <= fill_time * rate + (rate - 1)
<1>1. burst * SECONDS \in Nat
  BY Constants
<1> QED
  BY <1>1, Constants, Quotient DEF fill_time

\* One tick early at the most when the bucket is filled to the brim.
Early(diff) == IF diff >= fill_time THEN 1 ELSE 0

\* The refill of policer_check_tb is at most what the rate allows, and less than
\* that by less than a byte, unless the bucket is full.
LEMMA RefillBounds ==
  ASSUME NEW tokens \in 0 .. burst, NEW diff \in Nat
  PROVE  LET r == Refill(tokens, diff)
         IN  /\ r \in 0 .. burst
             /\ r * SECONDS <= tokens * SECONDS + rate * (diff + Early(diff))
             /\ \/ r = burst
                \/ r * SECONDS + (SECONDS - 1) >= tokens * SECONDS + diff * rate
<1> DEFINE r == Refill(tokens, diff)
           q == (diff * rate) \div SECONDS
<1>1. tokens \in Nat /\ tokens <= burst /\ diff * rate \in Nat /\ diff * rate = rate * diff
  BY Constants
<1>2. /\ q \in Nat /\ q * SECONDS <= diff * rate
      /\ diff * rate <= q * SECONDS + (SECONDS - 1)
  BY <1>1, Constants, Quotient
<1>3. (tokens + q) * SECONDS = tokens * SECONDS + q * SECONDS
  BY <1>1, <1>2, Constants, Distributes
<1>4. CASE diff < fill_time
  <2>1. r = (IF tokens + q > burst THEN burst ELSE tokens + q) /\ Early(diff) = 0
    BY <1>4, FillTime DEF Refill, AtMost, Early
  <2> HIDE DEF q, r
  <2>2. r \in Nat /\ r <= tokens + q /\ r <= burst
    BY <2>1, <1>1, <1>2, Constants
  <2>3. r * SECONDS <= (tokens + q) * SECONDS
    BY <1>2, <2>2, Constants, ProductOrder
  <2> QED
    BY <1>1, <1>2, <1>3, <2>1, <2>2, <2>3, Constants DEF r
<1>5. CASE ~(diff < fill_time)
  <2>1. r = burst /\ Early(diff) = 1
    BY <1>5, FillTime DEF Refill, Early
  <2>2. fill_time * rate <= diff * rate
    BY <1>5, FillTime, Constants, ProductOrder
  <2>3. burst * SECONDS <= diff * rate + rate /\ rate * (diff + 1) = diff * rate + rate
    BY <1>1, <2>2, FillTime, Constants
  <2>4. tokens * SECONDS \in Nat
    BY <1>1, Constants
  <2> HIDE DEF r
  <2> QED
    BY <2>1, <2>3, <2>4, <1>1, Constants DEF r
<1> QED
  BY <1>4, <1>5

\* The tokens the destination can still use, and its first bucket.
Held == IF present THEN bucket_size ELSE 0

FirstBurst == bursts = 0 => passed = 0 /\ ~present

RateInv == BucketTypeOK /\ FirstBurst /\ RateBound /\ LossBound

LEMMA BucketTypes ==
  ASSUME BucketTypeOK
  PROVE  /\ policing \in BOOLEAN /\ present \in BOOLEAN /\ live \in BOOLEAN
         /\ bucket_size \in 0 .. burst /\ Held \in 0 .. burst
         /\ ticks \in Nat /\ bucket_time \in Nat /\ since \in Nat
         /\ ticks <= MaxTicks /\ bucket_time <= ticks /\ since <= bucket_time
         /\ passed \in Nat /\ fills \in Nat /\ bursts \in Nat /\ bursts <= MaxBursts
         /\ packets \in Nat /\ packets <= MaxPackets /\ ideal \in Int
<1>1. policing \in BOOLEAN /\ present \in BOOLEAN /\ live \in BOOLEAN
  BY Zenon DEF BucketTypeOK
<1>2. /\ bucket_size \in 0 .. burst
      /\ ticks \in 0 .. MaxTicks /\ bucket_time \in 0 .. ticks /\ since \in 0 .. bucket_time
      /\ passed \in Nat /\ fills \in Nat /\ bursts \in 0 .. MaxBursts
      /\ packets \in 0 .. MaxPackets /\ ideal \in Int
  BY DEF BucketTypeOK
<1>3. Held \in 0 .. burst
  BY <1>2, Constants DEF Held
<1> QED
  BY <1>1, <1>2, <1>3, Constants

LEMMA BucketInitial == BucketInit => RateInv
<1> SUFFICES ASSUME BucketInit PROVE RateInv
  OBVIOUS
<1>1. BucketTypeOK
  <2>1. {policing, present, live} \subseteq BOOLEAN
    BY Zenon DEF BucketInit
  <2> QED
    BY <2>1, Constants DEF BucketInit, BucketTypeOK
<1>2. RateBound
  <2>1. (0 + 0) * SECONDS = 0 /\ 0 * burst * SECONDS = 0 /\ rate * (0 - 0 + 0) = 0
    BY Constants
  <2> QED
    BY <2>1 DEF BucketInit, RateBound
<1> QED
  BY <1>1, <1>2 DEF BucketInit, RateInv, FirstBurst, LossBound

\* A destination that loses its bucket, or keeps it, is owed no more.
LEMMA LosesBucket ==
  ASSUME RateInv, present' \in {present, FALSE}, BucketTypeOK',
         UNCHANGED <<bucket_size, bucket_time, since, passed, fills, bursts, ideal, packets>>
  PROVE  RateInv'
<1>1. CASE present' = present
  BY <1>1 DEF RateInv, FirstBurst, RateBound, LossBound
<1>2. CASE present' = FALSE
  <2>1. /\ passed \in Nat /\ Held \in Nat
        /\ (passed + Held) * SECONDS
             <= bursts * burst * SECONDS + rate * (bucket_time - since + fills)
    BY BucketTypes, Constants DEF RateInv, RateBound, Held
  <2>2. /\ (passed + 0) * SECONDS <= (passed + Held) * SECONDS
        /\ (passed + 0) * SECONDS \in Int /\ (passed + Held) * SECONDS \in Int
    BY <2>1, Constants, ProductOrder
  <2>3. /\ bursts * burst * SECONDS \in Int
        /\ rate * (bucket_time - since + fills) \in Int
    BY BucketTypes, Constants DEF RateInv
  <2>4. (passed + 0) * SECONDS
          <= bursts * burst * SECONDS + rate * (bucket_time - since + fills)
    BY <2>1, <2>2, <2>3
  <2>5. RateBound'
    BY <1>2, <2>4 DEF RateBound
  <2> QED
    BY <1>2, <2>5 DEF RateInv, FirstBurst, LossBound
<1> QED
  BY <1>1, <1>2

LEMMA NewFlowStep ==
  ASSUME RateInv, NEW size \in Sizes, NewFlow(size)
  PROVE  RateInv'
<1>1. /\ size \in Nat /\ present = FALSE /\ policing' = FALSE /\ ticks' = ticks
  BY BucketTypes, Constants DEF RateInv, NewFlow, Sizes
<1>2. CASE UNCHANGED <<present, bucket_size, bucket_time, live, since, passed, fills, bursts,
                       ideal, packets>>
  <2>1. {policing', present', live'} \subseteq BOOLEAN
    BY <1>1, <1>2, Zenon DEF RateInv, BucketTypeOK
  <2>2. BucketTypeOK'
    BY <1>1, <1>2, <2>1 DEF RateInv, BucketTypeOK
  <2> QED
    BY <1>2, <2>2, LosesBucket
<1>3. CASE /\ size <= burst /\ bursts < MaxBursts
           /\ present' = TRUE /\ live' = TRUE /\ bucket_size' = burst - size
           /\ bucket_time' = ticks
           /\ since' = (IF bursts = 0 THEN ticks ELSE since)
           /\ passed' = passed + size /\ bursts' = bursts + 1
           /\ ideal' = (burst - size) * SECONDS /\ packets' = 0 /\ fills' = fills
  <2>1. burst - size \in 0 .. burst /\ (burst - size) * SECONDS \in Int
    BY <1>1, <1>3, Constants
  <2>2. BucketTypeOK'
    <3>1. {policing', present', live'} \subseteq BOOLEAN
      BY <1>1, <1>3, Zenon
    <3>2. /\ ticks' \in 0 .. MaxTicks /\ bucket_time' \in 0 .. ticks'
          /\ since' \in 0 .. bucket_time' /\ bursts' \in 0 .. MaxBursts
          /\ passed' \in Nat /\ fills' \in Nat /\ packets' \in 0 .. MaxPackets
      BY <1>1, <1>3, BucketTypes, Constants DEF RateInv
    <3> QED
      BY <1>3, <2>1, <3>1, <3>2 DEF BucketTypeOK
  <2>3. RateBound'
    <3> DEFINE old == bursts * burst * SECONDS
               due == rate * (bucket_time - since + fills)
    <3>1. /\ passed' + bucket_size' = passed + burst
          /\ (passed + burst) * SECONDS = passed * SECONDS + burst * SECONDS
          /\ bursts' * burst * SECONDS = old + burst * SECONDS
      <4>1. /\ (bursts + 1) * burst = bursts * burst + burst
            /\ bursts * burst \in Int
        BY BucketTypes, Constants DEF RateInv
      <4>2. (bursts * burst + burst) * SECONDS = old + burst * SECONDS
        BY <4>1, Constants, Distributes
      <4>3. (passed + burst) * SECONDS = passed * SECONDS + burst * SECONDS
        BY BucketTypes, Constants, Distributes DEF RateInv
      <4>4. passed' + bucket_size' = passed + burst
        BY <1>1, <1>3, BucketTypes, Constants DEF RateInv
      <4> QED
        BY <1>3, <4>1, <4>2, <4>3, <4>4, Zenon
    <3>2. passed * SECONDS <= old + rate * (bucket_time' - since' + fills')
      <4>1. CASE bursts = 0
        <5>1. /\ passed * SECONDS = 0 /\ old = 0
              /\ bucket_time' - since' + fills' = fills
              /\ rate * fills \in Int /\ rate * fills >= 0
          BY <1>3, <4>1, BucketTypes, Constants DEF RateInv, FirstBurst
        <5> HIDE DEF old
        <5> QED
          BY <5>1
      <4>2. CASE bursts # 0
        <5>1. /\ bucket_time - since + fills \in Int
              /\ bucket_time' - since' + fills' \in Int
              /\ bucket_time - since + fills <= bucket_time' - since' + fills'
          BY <1>3, <4>2, BucketTypes DEF RateInv
        <5>2. due <= rate * (bucket_time' - since' + fills')
          BY <5>1, Constants, ProductOrder
        <5>3. (passed + 0) * SECONDS <= old + due
          BY <1>1 DEF RateInv, RateBound
        <5>4. passed + 0 = passed /\ passed * SECONDS \in Int /\ old \in Int /\ due \in Int
              /\ rate * (bucket_time' - since' + fills') \in Int
          BY <5>1, BucketTypes, Constants DEF RateInv
        <5> HIDE DEF old, due
        <5> QED
          BY <5>2, <5>3, <5>4
      <4> QED
        BY <4>1, <4>2
    <3>3. /\ passed * SECONDS \in Int /\ burst * SECONDS \in Int /\ old \in Int
          /\ rate * (bucket_time' - since' + fills') \in Int
      BY <1>3, BucketTypes, Constants DEF RateInv
    <3> HIDE DEF old, due
    <3>4. (passed' + bucket_size') * SECONDS
            <= bursts' * burst * SECONDS + rate * (bucket_time' - since' + fills')
      <4>1. passed * SECONDS + burst * SECONDS
              <= old + burst * SECONDS + rate * (bucket_time' - since' + fills')
        BY <3>2, <3>3
      <4> QED
        BY <3>1, <4>1, Zenon
    <3> QED
      BY <1>3, <3>4 DEF RateBound
  <2>4. LossBound'
    <3>1. 0 * (SECONDS - 1) = 0
      BY Constants
    <3> QED
      BY <1>3, <2>1, <3>1 DEF LossBound
  <2>5. FirstBurst'
    BY <1>3, BucketTypes DEF RateInv, FirstBurst
  <2> QED
    BY <2>2, <2>3, <2>4, <2>5 DEF RateInv
<1> QED
  BY <1>2, <1>3 DEF NewFlow

\* Two sums of the products that a refill compares.
LEMMA SumsBelow ==
  ASSUME NEW p \in Int, NEW t \in Int, NEW b \in Int, NEW r \in Int,
         NEW top \in Int, NEW more \in Int,
         t <= b + more, p + b <= top + r
  PROVE  p + t <= top + (r + more)
  OBVIOUS

LEMMA SumsAbove ==
  ASSUME NEW t \in Int, NEW b \in Int, NEW lost \in Int, NEW one \in Int,
         NEW d \in Int, NEW best \in Int,
         t + one >= b + d, b + lost >= best
  PROVE  t + (lost + one) >= best + d
  OBVIOUS

\* A packet of a known flow takes from the refilled bucket what it adds to the
\* bytes that passed.
LEMMA KnownFlowStep ==
  ASSUME RateInv, NEW size \in Sizes, KnownFlow(size)
  PROVE  RateInv'
<1> DEFINE diff == ticks - bucket_time
           tokens == Refill(bucket_size, diff)
           exact == AtMost(ideal + diff * rate, burst * SECONDS)
           top == bursts * burst * SECONDS
<1>1. /\ size \in Nat /\ ticks \in Nat /\ bucket_time \in Nat /\ since \in Nat
      /\ diff \in Nat /\ present = TRUE /\ passed \in Nat /\ fills \in Nat /\ packets \in Nat
      /\ bucket_size \in 0 .. burst /\ ideal \in Int /\ packets < MaxPackets
      /\ bursts \in Nat /\ top \in Int
  <2>1. top \in Int
    BY BucketTypes, Constants DEF RateInv
  <2>2. present = TRUE
    BY BucketTypes, Zenon DEF RateInv, KnownFlow
  <2> QED
    BY <2>1, <2>2, BucketTypes, Constants DEF RateInv, KnownFlow, Sizes
<1>2. /\ tokens \in 0 .. burst
      /\ tokens * SECONDS <= bucket_size * SECONDS + rate * (diff + Early(diff))
      /\ \/ tokens = burst
         \/ tokens * SECONDS + (SECONDS - 1) >= bucket_size * SECONDS + diff * rate
  BY <1>1, RefillBounds
<1>3. /\ present' = TRUE /\ since' = since /\ bucket_time' = ticks /\ packets' = packets + 1
      /\ fills' = fills + Early(diff) /\ Early(diff) \in {0, 1}
  <2>1. /\ present' = present /\ since' = since /\ bucket_time' = ticks
        /\ packets' = packets + 1
        /\ fills' = IF diff >= fill_time THEN fills + 1 ELSE fills
    BY Zenon DEF KnownFlow
  <2>2. Early(diff) = IF diff >= fill_time THEN 1 ELSE 0
    BY DEF Early
  <2> HIDE DEF diff
  <2> QED
    BY <1>1, <2>1, <2>2
<1>4. exact \in Int /\ exact <= burst * SECONDS /\ exact <= ideal + diff * rate
  BY <1>1, Constants DEF AtMost
<1>5. \/ /\ tokens > size /\ bucket_size' = tokens - size
         /\ passed' = passed + size /\ ideal' = exact - size * SECONDS
      \/ /\ tokens <= size /\ bucket_size' = tokens
         /\ passed' = passed /\ ideal' = exact
  BY DEF KnownFlow
<1>0. /\ policing' = FALSE
      /\ UNCHANGED <<ticks, live, bursts>>
  BY DEF KnownFlow
<1> HIDE DEF tokens, exact, top
<1>6. BucketTypeOK'
  <2>1. passed' \in Nat /\ bucket_size' \in 0 .. burst /\ ideal' \in Int
    <3>1. size * SECONDS \in Int
      BY <1>1, Constants
    <3> QED
      BY <1>1, <1>2, <1>4, <1>5, <3>1, Constants
  <2>2. packets' \in 0 .. MaxPackets /\ fills' \in Nat
    BY <1>1, <1>3, Constants
  <2>3. {policing', present', live'} \subseteq BOOLEAN
    BY <1>0, <1>3, Zenon DEF RateInv, BucketTypeOK
  <2>4. /\ ticks' \in 0 .. MaxTicks /\ bucket_time' \in 0 .. ticks'
        /\ since' \in 0 .. bucket_time' /\ bursts' \in 0 .. MaxBursts
    BY <1>0, <1>3, BucketTypes, Constants DEF RateInv
  <2> QED
    BY <2>1, <2>2, <2>3, <2>4 DEF BucketTypeOK
<1>7. RateBound'
  <2>1. passed' + bucket_size' = passed + tokens
    BY <1>1, <1>2, <1>5, Constants
  <2>2. (passed + tokens) * SECONDS = passed * SECONDS + tokens * SECONDS
    BY <1>1, <1>2, Constants, Distributes
  <2>3. (passed + bucket_size) * SECONDS = passed * SECONDS + bucket_size * SECONDS
    BY <1>1, Constants, Distributes
  <2>4. rate * (ticks - since + fills')
          = rate * (bucket_time - since + fills) + rate * (diff + Early(diff))
    <3>1. /\ bucket_time - since + fills \in Int /\ diff + Early(diff) \in Int
          /\ ticks - since + fills' = (bucket_time - since + fills) + (diff + Early(diff))
      BY <1>1, <1>3
    <3> QED
      BY <3>1, Constants, Distributes
  <2>5. (passed + bucket_size) * SECONDS
          <= top + rate * (bucket_time - since + fills)
    BY <1>1 DEF RateInv, RateBound, top
  <2>6. /\ passed * SECONDS \in Int /\ tokens * SECONDS \in Int
        /\ bucket_size * SECONDS \in Int /\ top \in Int
        /\ rate * (diff + Early(diff)) \in Int
        /\ rate * (bucket_time - since + fills) \in Int
    BY <1>1, <1>2, <1>3, Constants
  <2>7. passed * SECONDS + tokens * SECONDS
          <= top + (rate * (bucket_time - since + fills)
                                  + rate * (diff + Early(diff)))
    BY <1>2, <2>3, <2>5, <2>6, SumsBelow
  <2>8. (passed' + bucket_size') * SECONDS
          <= top + rate * (ticks - since + fills')
    BY <2>1, <2>2, <2>4, <2>7, Zenon
  <2> QED
    <3>1. top = bursts' * burst * SECONDS
      BY <1>0 DEF top
    <3>2. (passed' + IF present' THEN bucket_size' ELSE 0) = passed' + bucket_size'
      BY <1>3
    <3> QED
      BY <1>3, <2>8, <3>1, <3>2 DEF RateBound
<1>8. LossBound'
  <2>1. tokens * SECONDS + (packets + 1) * (SECONDS - 1) >= exact
    <3>1. (packets + 1) * (SECONDS - 1) = packets * (SECONDS - 1) + (SECONDS - 1)
      BY <1>1, Constants
    <3>2. packets * (SECONDS - 1) >= 0
      BY <1>1, Constants
    <3>3. bucket_size * SECONDS + packets * (SECONDS - 1) >= ideal
      BY <1>1 DEF RateInv, LossBound
    <3>4. /\ tokens * SECONDS \in Int /\ bucket_size * SECONDS \in Int
          /\ packets * (SECONDS - 1) \in Int /\ SECONDS - 1 \in Int
          /\ diff * rate \in Int /\ burst * SECONDS \in Int /\ SECONDS - 1 >= 0
      BY <1>1, <1>2, Constants
    <3>5. CASE tokens = burst
      BY <1>4, <3>1, <3>2, <3>4, <3>5
    <3>6. CASE tokens * SECONDS + (SECONDS - 1) >= bucket_size * SECONDS + diff * rate
      <4>1. tokens * SECONDS + (packets * (SECONDS - 1) + (SECONDS - 1))
              >= ideal + diff * rate
        BY <1>1, <3>3, <3>4, <3>6, SumsAbove
      <4> QED
        BY <1>1, <1>4, <3>1, <3>4, <4>1
    <3> QED
      BY <1>2, <3>5, <3>6
  <2>2. (tokens - size) * SECONDS = tokens * SECONDS - size * SECONDS
    BY <1>1, <1>2, Constants, Distributes
  <2>3. packets' = packets + 1
    BY <1>3
  <2>4. /\ tokens * SECONDS \in Int /\ size * SECONDS \in Int
        /\ (packets + 1) * (SECONDS - 1) \in Int /\ exact \in Int
    BY <1>1, <1>2, <1>4, Constants
  <2>5. bucket_size' * SECONDS + (packets + 1) * (SECONDS - 1) >= ideal'
    <3>1. CASE bucket_size' = tokens - size /\ ideal' = exact - size * SECONDS
      <4>1. bucket_size' * SECONDS = tokens * SECONDS - size * SECONDS
        BY <2>2, <3>1, Zenon
      <4> QED
        BY <2>1, <2>4, <3>1, <4>1
    <3>2. CASE bucket_size' = tokens /\ ideal' = exact
      BY <2>1, <3>2, Zenon
    <3> QED
      BY <1>5, <3>1, <3>2, Zenon
  <2> QED
    BY <2>3, <2>5, Zenon DEF LossBound
<1>9. FirstBurst'
  BY <1>0, <1>1 DEF RateInv, FirstBurst
<1> QED
  BY <1>6, <1>7, <1>8, <1>9 DEF RateInv

LEMMA BucketInvariant == BucketSpec => []RateInv
<1>1. RateInv /\ [BucketNext]_bucketVars => RateInv'
  <2> SUFFICES ASSUME RateInv, [BucketNext]_bucketVars PROVE RateInv'
    OBVIOUS
  <2>1. CASE UNCHANGED bucketVars
    BY <2>1 DEF bucketVars, RateInv, BucketTypeOK, FirstBurst, RateBound, LossBound
  <2>2. ASSUME NEW time \in ticks .. MaxTicks, policer_expire_entries(time)
        PROVE  RateInv'
    <3>1. {policing', present', live'} \subseteq BOOLEAN
      BY <2>2, Zenon DEF RateInv, BucketTypeOK, policer_expire_entries
    <3>2. ticks' \in 0 .. MaxTicks /\ bucket_time \in 0 .. ticks'
      BY <2>2, BucketTypes, Constants DEF RateInv, policer_expire_entries
    <3>3. BucketTypeOK'
      BY <2>2, <3>1, <3>2 DEF RateInv, BucketTypeOK, policer_expire_entries
    <3> QED
      BY <2>2, <3>3, LosesBucket DEF policer_expire_entries
  <2>3. CASE OtherPacket
    <3>1. present' \in {present, FALSE}
      BY <2>3 DEF OtherPacket
    <3>2. {policing', present', live'} \subseteq BOOLEAN
      BY <2>3, <3>1, Zenon DEF RateInv, BucketTypeOK, OtherPacket
    <3>3. BucketTypeOK'
      BY <2>3, <3>2 DEF RateInv, BucketTypeOK, OtherPacket
    <3> QED
      BY <2>3, <3>1, <3>3, LosesBucket DEF OtherPacket
  <2>4. CASE Observe
    <3>1. /\ bucket_size * SECONDS \in Int /\ bucket_size * SECONDS <= burst * SECONDS
          /\ rate * (bucket_time - bucket_time + 0) = 0 /\ 0 * (SECONDS - 1) = 0
          /\ 0 * burst * SECONDS = 0 /\ 1 * burst * SECONDS = burst * SECONDS
          /\ burst * SECONDS \in Int
      BY BucketTypes, Constants, ProductOrder DEF RateInv
    <3>2. /\ since' = bucket_time /\ passed' = 0 /\ fills' = 0 /\ packets' = 0
          /\ bursts' = (IF present THEN 1 ELSE 0) /\ ideal' = bucket_size * SECONDS
          /\ UNCHANGED <<ticks, policing, present, bucket_size, bucket_time, live>>
      BY <2>4 DEF Observe
    <3>3. BucketTypeOK'
      <4>1. {policing', present', live'} \subseteq BOOLEAN
        BY <3>2, Zenon DEF RateInv, BucketTypeOK
      <4>2. since' \in 0 .. bucket_time /\ bursts' \in 0 .. MaxBursts
        BY <3>2, BucketTypes, TokenBucketAssumption DEF RateInv
      <4>3. /\ bucket_size' \in 0 .. burst /\ ticks' \in 0 .. MaxTicks
            /\ bucket_time' \in 0 .. ticks' /\ since' \in 0 .. bucket_time'
        BY <3>2, <4>2, BucketTypes DEF RateInv
      <4>4. passed' \in Nat /\ fills' \in Nat /\ packets' \in 0 .. MaxPackets
        BY <3>2, TokenBucketAssumption
      <4>5. ideal' \in Int
        BY <3>1, <3>2, Zenon
      <4> QED
        BY <4>1, <4>2, <4>3, <4>4, <4>5, Zenon DEF BucketTypeOK
    <3>4. RateBound'
      <4>1. 0 + 0 = 0 /\ 0 * SECONDS = 0 /\ 0 + bucket_size = bucket_size
        BY BucketTypes, Constants DEF RateInv
      <4>2. CASE present = TRUE
        BY <3>1, <3>2, <4>1, <4>2 DEF RateBound
      <4>3. CASE present = FALSE
        BY <3>1, <3>2, <4>1, <4>3 DEF RateBound
      <4> QED
        BY <4>2, <4>3, BucketTypes DEF RateInv
    <3>5. LossBound' /\ FirstBurst'
      BY <3>1, <3>2 DEF LossBound, FirstBurst
    <3> QED
      BY <3>3, <3>4, <3>5 DEF RateInv
  <2> QED
    BY <2>1, <2>2, <2>3, <2>4, NewFlowStep, KnownFlowStep DEF BucketNext
<1> QED
  BY <1>1, BucketInitial, PTL DEF BucketSpec

\* In every interval a destination is forwarded at most what the rate allows for
\* its length, a fill to the brim (fill_time is rounded down) counting for one
\* tick more, and one burst for each bucket it was given: the expiry can give it
\* a new one.  (policer_check_tb, policer_expire_entries)
THEOREM RateKept == BucketSpec => []RateBound
BY BucketInvariant, PTL DEF RateInv

\* However often the bucket is asked, rounding in policer_check_tb costs the
\* flow less than a byte per packet against a bucket that does not round.
THEOREM LittleLost == BucketSpec => []LossBound
BY BucketInvariant, PTL DEF RateInv
=============================================================================
