------------------------------ MODULE MCFleet ------------------------------
(* A small fleet: a pool of two-GPU nodes, and a pool of one-GPU nodes that  *)
(* an instance of TP = 2 can only use by spanning two of them.               *)
EXTENDS Fleet, TLC

MCPools == <<[gpn |-> 2, cost |-> 3, initial |-> 1], [gpn |-> 1, cost |-> 1, initial |-> 2]>>
MCPolicies == {"immediate", "wait", "redirect"}
Symmetry == Permutations(Requests)
=============================================================================
