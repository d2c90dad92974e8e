------------------------------- MODULE Bridge -------------------------------
(***************************************************************************)
(* VigBridge: bridge_forward.c, built with NO_STATIC_MAPPING.  The dynamic *)
(* filtering table is a flow table keyed by MAC address with a second      *)
(* vector for the device.  One step is one call of nf_core_process.        *)
(***************************************************************************)
EXTENDS FlowTable

CONSTANTS
  Devices,      \* the devices of the bridge
  Expiration    \* config.expiration_time

ASSUME BridgeAssumption == Devices \subseteq Nat /\ Expiration \in Nat \ {0}

VARIABLES
  dynamic_ft,   \* map, keys and heap of the dynamic filtering table
  values,       \* dynamic_ft.values: the device of every index
  bridge_now,   \* the time of the last frame
  bridge_out,   \* the device it was sent to, or FLOOD_FRAME
  frame         \* its source, destination and device

bridgeVars == <<dynamic_ft, values, bridge_now, bridge_out, frame>>

FLOOD_FRAME == -1

bridge_expire_entries(t, time) == Expire(t, time - Expiration)

\* Mutant of bridge_get_device: the device of the map's first index is used.
GetDeviceFirst(t, devices, dst) == IF t.map[dst] # Absent THEN devices[0] ELSE -1

bridge_get_device(t, devices, dst) ==
  IF t.map[dst] # Absent THEN devices[t.map[dst]] ELSE -1

BridgeInit ==
  /\ dynamic_ft \in Tables /\ Empty(dynamic_ft)
  /\ values \in [Indexes -> Devices]
  /\ bridge_now = 0
  /\ bridge_out = FLOOD_FRAME
  /\ frame = << >>

\* Mutant of bridge_put_update_entry: a known source is put again.
PutAgain(t, src, device, time) ==
  \/ /\ \E i \in Indexes \ Live(t) :
          /\ dynamic_ft' = Insert(t, src, i, time)
          /\ values' = [values EXCEPT ![i] = device]
  \/ /\ Live(t) = Indexes
     /\ dynamic_ft' = t
     /\ UNCHANGED values

\* The source is learnt, unless the table is full; a known source is only
\* rejuvenated and keeps the device it was learnt on.
bridge_put_update_entry(t, src, device, time) ==
  \/ /\ t.map[src] # Absent
     /\ dynamic_ft' = Rejuvenate(t, t.map[src], time)
     /\ UNCHANGED values
  \/ /\ t.map[src] = Absent
     /\ \E i \in Indexes \ Live(t) :
          /\ dynamic_ft' = Insert(t, src, i, time)
          /\ values' = [values EXCEPT ![i] = device]
  \/ /\ t.map[src] = Absent
     /\ Live(t) = Indexes
     /\ dynamic_ft' = t
     /\ UNCHANGED values

nf_core_process(src, dst, device, time) ==
  /\ bridge_put_update_entry(bridge_expire_entries(dynamic_ft, time),
                             src, device, time)
  /\ bridge_out' = bridge_get_device(dynamic_ft', values', dst)
  /\ bridge_now' = time
  /\ frame' = <<src, dst, device>>

BridgeNext ==
  \E src, dst \in Keys, device \in Devices, time \in bridge_now .. MaxTime :
    nf_core_process(src, dst, device, time)

BridgeSpec == BridgeInit /\ [][BridgeNext]_bridgeVars

-----------------------------------------------------------------------------
(* Properties.                                                             *)

BridgeTypeOK ==
  /\ dynamic_ft \in Tables
  /\ values \in [Indexes -> Devices]
  /\ bridge_now \in Times
  /\ bridge_out \in Devices \cup {FLOOD_FRAME}

\* The map, the key vector and the chain agree after every frame, and no entry
\* outlives its expiration.
TablesCoherent ==
  /\ Coherent(dynamic_ft)
  /\ \A i \in Live(dynamic_ft) : dynamic_ft.heap[i] \in bridge_now - Expiration .. bridge_now

\* gen_dyn_entries
Entries == {[addr |-> k, port |-> values[dynamic_ft.map[k]],
             time |-> dynamic_ft.heap[dynamic_ft.map[k]]] :
            k \in {a \in Keys : dynamic_ft.map[a] # Absent}}

Learning == INSTANCE MacTable WITH dyn_table <- Entries, Addresses <- Keys,
                                 now <- bridge_now, out <- bridge_out

\* The concrete table implements the abstract one of bridge-abstract-state.h:
\* expiry, learning and rejuvenation, through the map, two vectors and a chain,
\* change the entries as expire_addresses, add_dyn_entry and
\* rejuvenate_dyn_entry say (the lemmas abstract-state.c leaves unproved).
ImplementsMacTable == Learning!Spec
=============================================================================
