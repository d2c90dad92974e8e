----------------------------- MODULE MCBalancer -----------------------------
(* Flows and addresses are interchangeable: flow_hash takes every value.   *)
EXTENDS Balancer, TLC

FlowAndIpSymmetry == Permutations(Keys) \cup Permutations(Ips)
=============================================================================
