------------------------------ MODULE MacTable ------------------------------
(***************************************************************************)
(* The abstract state of the bridge, from lib/bridge-abstract-state.h: a   *)
(* set of entries, each an address, the port it was learnt on and the time *)
(* it was last heard.  A frame expires entries, then adds or rejuvenates   *)
(* the entry of its source, then is sent to the port of its destination.   *)
(***************************************************************************)
EXTENDS Integers, FiniteSets

CONSTANTS
  Addresses,    \* MAC addresses
  Devices,      \* ports of the bridge
  Capacity,     \* of the dynamic table
  Expiration,   \* how long an address is kept
  MaxTime       \* bound on the time of the model

VARIABLES
  dyn_table,    \* the entries
  now,          \* the time of the last frame
  out,          \* the port it was sent to, or Flood
  frame         \* its source, destination and port

vars == <<dyn_table, now, out, frame>>

Flood == -1

has_key(entries, a) == \E e \in entries : e.addr = a

dyn_table_out_of_space(entries) == Capacity <= Cardinality(entries)

expire_addresses(entries, border) == {e \in entries : e.time >= border}

add_dyn_entry(entries, a, d, time) ==
  entries \cup {[addr |-> a, port |-> d, time |-> time]}

rejuvenate_dyn_entry(entries, a, time) ==
  {IF e.addr = a THEN [e EXCEPT !.time = time] ELSE e : e \in entries}

learn(entries, a, d, time) ==
  IF has_key(entries, a) THEN rejuvenate_dyn_entry(entries, a, time)
  ELSE IF dyn_table_out_of_space(entries) THEN entries
  ELSE add_dyn_entry(entries, a, d, time)

Init == dyn_table = {} /\ now = 0 /\ out = Flood /\ frame = << >>

Frame(src, dst, device, time) ==
  LET entries == learn(expire_addresses(dyn_table, time - Expiration),
                       src, device, time)
  IN  /\ dyn_table' = entries
      /\ now' = time
      /\ \/ has_key(entries, dst) /\ \E e \in entries : e.addr = dst /\ out' = e.port
         \/ ~has_key(entries, dst) /\ out' = Flood

Next ==
  \E src, dst \in Addresses, device \in Devices, time \in now .. MaxTime :
    /\ frame' = <<src, dst, device>>
    /\ Frame(src, dst, device, time)

Spec == Init /\ [][Next]_vars
=============================================================================
