------------------------------- MODULE MCNfs --------------------------------
(***************************************************************************)
(* Five parts of the DPDK network functions on small instances: the        *)
(* firewall, the bridge, the loop of the expirator, a bucket of the        *)
(* policer and the double map.  A behaviour is one of one of them: the     *)
(* variable nf says which, and the others stay as they start.              *)
(***************************************************************************)
EXTENDS Firewall, Bridge, Expirator, TokenBucket, DoubleMap

VARIABLE nf

\* The flows of two hosts inside and one outside, in both directions: more keys
\* than a table has indexes.
MCKeys == {<<"a", "x">>, <<"x", "a">>, <<"b", "x">>, <<"x", "b">>}

\* First keys of which two collide and probe around the end of the table, second
\* keys that collide without being equal in their hash.
MCKeysA == {"x", "y", "z"}
MCKeysB == {"p", "q"}
MCHashA == [k \in MCKeysA |-> IF k = "z" THEN 0 ELSE 3]
MCHashB == [k \in MCKeysB |-> IF k = "p" THEN 1 ELSE 5]

\* A table that is empty, its vector full of one key.
NoFlows ==
  [map |-> [k \in Keys |-> Absent], vec |-> [i \in Indexes |-> <<"a", "x">>],
   heap |-> [i \in Indexes |-> Free]]

\* Parts that do not run start in one fixed state.
MCInit ==
  /\ nf \in {"firewall", "bridge", "expirator", "bucket", "dmap"}
  /\ nf # "firewall" => table = NoFlows
  /\ nf # "bridge" => dynamic_ft = NoFlows /\ values = [i \in Indexes |-> 0]
  /\ nf # "expirator" => entry = NoFlows /\ border = 0
  /\ nf # "bucket" => bucket_size = 0
  /\ nf # "dmap" => dm_values = [i \in Slots |-> <<"x", "p">>]
  /\ VigfwInit /\ BridgeInit /\ ExpiratorInit /\ BucketInit /\ DmapInit

MCNext ==
  /\ UNCHANGED nf
  /\ \/ /\ nf = "firewall" /\ VigfwNext
        /\ UNCHANGED <<bridgeVars, expiratorVars, bucketVars, dmapVars>>
     \/ /\ nf = "bridge" /\ BridgeNext
        /\ UNCHANGED <<vigfwVars, expiratorVars, bucketVars, dmapVars>>
     \/ /\ nf = "expirator" /\ ExpiratorNext
        /\ UNCHANGED <<vigfwVars, bridgeVars, bucketVars, dmapVars>>
     \/ /\ nf = "bucket" /\ BucketNext
        /\ UNCHANGED <<vigfwVars, bridgeVars, expiratorVars, dmapVars>>
     \/ /\ nf = "dmap" /\ DmapNext
        /\ UNCHANGED <<vigfwVars, bridgeVars, expiratorVars, bucketVars>>

MCSpec ==
  MCInit /\ [][MCNext]_<<nf, vigfwVars, bridgeVars, expiratorVars, bucketVars, dmapVars>>

-----------------------------------------------------------------------------
(* The properties are those of the parts.                                  *)

\* Every variable keeps its type.
MCTypeOK == VigfwTypeOK /\ BridgeTypeOK /\ BucketTypeOK /\ DmapTypeOK
=============================================================================
