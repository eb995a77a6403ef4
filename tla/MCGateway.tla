----------------------------- MODULE MCGateway ------------------------------
(***************************************************************************)
(* Small instances for TLC.  Entry r of a tuple belongs to request r.      *)
(***************************************************************************)
EXTENDS Gateway, TLC

(* Three background requests, two of them of one tenant and so in one      *)
(* flow, the second with a deadline, and a critical request.               *)
MixedPriority == <<-1, -1, -1, 4>>
MixedTenant == <<1, 1, 2, 2>>
MixedTarget == <<0, 2, 0, 0>>

NoBudget == <<0, 0>>

Plain ==
  [order |-> "fifo", fairness |-> "global-strict", maxDepth |-> 0,
   maxBandCapacity |-> 0, shedding |-> FALSE, threshold |-> SatScale,
   flowControl |-> TRUE, ttl |-> 0, eviction |-> FALSE, budgets |-> FALSE,
   admissionLatency |-> 0, routingLatency |-> 0]

(* One option, or a few that interact, at a time.                          *)
AllConfigs ==
  {[Plain EXCEPT !.flowControl = FALSE, !.budgets = TRUE],
   [Plain EXCEPT !.order = "slo-deadline", !.maxDepth = 2, !.shedding = TRUE,
                 !.admissionLatency = 1],
   [Plain EXCEPT !.order = "priority", !.fairness = "round-robin",
                 !.maxBandCapacity = 2, !.threshold = 1],
   [Plain EXCEPT !.eviction = TRUE, !.budgets = TRUE, !.routingLatency = 1],
   [Plain EXCEPT !.fairness = "round-robin", !.ttl = 1, !.eviction = TRUE,
                 !.maxDepth = 2, !.shedding = TRUE]}

(* The router may choose any instance: instances are interchangeable.      *)
AnyInstance == Permutations(Instances)
=============================================================================
