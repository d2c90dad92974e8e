------------------------------ MODULE MapImpl ------------------------------
(***************************************************************************)
(* The functions of map-impl.c, on the arrays their callers hand them:     *)
(* open addressing with linear probing.  chns[s] counts the stored keys    *)
(* whose probe stepped over slot s, so that a lookup may stop at a slot    *)
(* nobody stepped over, and an erase leaves no tombstone but walks the     *)
(* same slots back.                                                        *)
(*                                                                         *)
(* A key pointer is modelled by the key it points to, so keyps[s] is the   *)
(* key of slot s: a stored key is not written to while the map holds its   *)
(* pointer (the half permission on the key that map.h's contracts keep).   *)
(***************************************************************************)
EXTENDS Integers, FiniteSets

CONSTANT capacity   \* of the arrays

\* struct Map, "Must be a power of 2"; an int.
ASSUME CapacityAssumption ==
  capacity \in Nat \ {0} /\ \E n \in 0 .. 30 : capacity = 2^n

Slots == 0 .. capacity - 1

\* k & (capacity - 1), for a capacity that is a power of 2.
loop(k) == k % capacity

\* The iteration i of a probe for hash h that reads slot s = loop(start + i).
Probe(h, s) ==
  IF loop(h) <= s THEN s - loop(h) ELSE s + capacity - loop(h)

\* The slots a probe for hash h reads before it comes to slot s.
Passed(h, s) == {t \in Slots : Probe(h, t) < Probe(h, s)}

SameHash(busybits, khs, hash, s) == busybits[s] # 0 /\ khs[s] = hash

Match(busybits, keyps, khs, key, hash, s) ==
  SameHash(busybits, khs, hash, s) /\ keyps[s] = key

\* The slot where the lookup loop returns, -1 when it runs through all slots
\* or first meets a slot that holds another hash and ends every chain.
find_key(busybits, keyps, khs, chns, key, hash) ==
  LET Ends(s) == ~SameHash(busybits, khs, hash, s) /\ chns[s] = 0
      Found(s) == /\ Match(busybits, keyps, khs, key, hash, s)
                  /\ \A t \in Passed(hash, s) :
                       ~Match(busybits, keyps, khs, key, hash, t) /\ ~Ends(t)
  IN  IF \E s \in Slots : Found(s) THEN CHOOSE s \in Slots : Found(s) ELSE -1

\* The slot where the erasing loop returns: it does not look at the chains.
FirstMatch(busybits, keyps, khs, key, hash) ==
  LET Found(s) == /\ Match(busybits, keyps, khs, key, hash, s)
                  /\ \A t \in Passed(hash, s) : ~Match(busybits, keyps, khs, key, hash, t)
  IN  IF \E s \in Slots : Found(s) THEN CHOOSE s \in Slots : Found(s) ELSE -1

\* Mutant of find_key_remove_chain: the slots stepped over keep their chains.
RemoveKeepingChains(busybits, keyps, khs, chns, key, hash) ==
  LET s == FirstMatch(busybits, keyps, khs, key, hash)
  IN  [busybits |-> [busybits EXCEPT ![s] = 0], chns |-> chns, keyp_out |-> {keyps[s]}]

\* What it makes of the arrays and of *keyp_out: the key's slot is free, and the
\* key is taken out of the chains it is counted in.  An absent key would be
\* taken out of the chain of every slot.
find_key_remove_chain(busybits, keyps, khs, chns, key, hash) ==
  LET s == FirstMatch(busybits, keyps, khs, key, hash)
      stepped == IF s = -1 THEN Slots ELSE Passed(hash, s)
  IN  [busybits |-> IF s = -1 THEN busybits ELSE [busybits EXCEPT ![s] = 0],
       chns |-> [t \in Slots |-> IF t \in stepped THEN chns[t] - 1 ELSE chns[t]],
       keyp_out |-> IF s = -1 THEN {} ELSE {keyps[s]}]

\* The first free slot of the probe, -1 in a full map.
FirstEmpty(busybits, hash) ==
  LET Empty(s) == /\ busybits[s] = 0
                  /\ \A t \in Passed(hash, s) : busybits[t] # 0
  IN  IF \E s \in Slots : Empty(s) THEN CHOOSE s \in Slots : Empty(s) ELSE -1

\* Mutant of find_empty: the slots stepped over are not counted.
FindEmptyUncounted(busybits, chns, hash) == chns

\* The chains after it: they grow by one on the busy slots that are stepped over.
find_empty(busybits, chns, hash) ==
  LET s == FirstEmpty(busybits, hash)
      stepped == IF s = -1 THEN Slots ELSE Passed(hash, s)
  IN  [t \in Slots |-> IF t \in stepped THEN chns[t] + 1 ELSE chns[t]]
=============================================================================
