------------------------------- MODULE KeyMap -------------------------------
(***************************************************************************)
(* What map.h promises: a partial function from keys to ints.  The callers *)
(* keep the preconditions the contracts of map.h state: put a key that is  *)
(* absent, into a map that is not full; erase a key that is present.       *)
(***************************************************************************)
EXTENDS Integers, FiniteSets

CONSTANTS
  Keys,       \* the keys callers use
  Values,     \* the ints callers store
  capacity    \* map_allocate's capacity

VARIABLES
  contents,   \* the partial function
  ret,        \* what the last call returned
  out,        \* what the last call stored through its output pointer, if it did
  call        \* the last call and its arguments

vars == <<contents, ret, out, call>>

Init ==
  /\ contents = [k \in {} |-> 0]
  /\ ret = 0
  /\ out = {}
  /\ call = <<"map_allocate">>

Get(key) ==
  /\ \/ key \in DOMAIN contents /\ ret' = 1 /\ out' = {contents[key]}
     \/ key \notin DOMAIN contents /\ ret' = 0 /\ out' = {}
  /\ UNCHANGED contents

Put(key, value) ==
  /\ key \notin DOMAIN contents
  /\ Cardinality(DOMAIN contents) < capacity
  /\ contents' = [k \in DOMAIN contents \cup {key} |->
                    IF k = key THEN value ELSE contents[k]]
  /\ ret' = 0
  /\ out' = {}

Erase(key) ==
  /\ key \in DOMAIN contents
  /\ contents' = [k \in DOMAIN contents \ {key} |-> contents[k]]
  /\ ret' = 0
  /\ out' = {key}

Size ==
  /\ ret' = Cardinality(DOMAIN contents)
  /\ out' = {}
  /\ UNCHANGED contents

Next ==
  \/ \E key \in Keys : call' = <<"get", key>> /\ Get(key)
  \/ \E key \in Keys, value \in Values : call' = <<"put", key, value>> /\ Put(key, value)
  \/ \E key \in Keys : call' = <<"erase", key>> /\ Erase(key)
  \/ call' = <<"size">> /\ Size

Spec == Init /\ [][Next]_vars
=============================================================================
