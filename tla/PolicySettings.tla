--------------------------- MODULE PolicySettings ---------------------------
(***************************************************************************)
(* How blis run and blis replay settle their policies: the scenario's       *)
(* engine, a policy bundle and the flags may each name one, a flag before   *)
(* the bundle and the bundle before the scenario (cmd/root.go,              *)
(* sim/bundle.go).                                                          *)
(*                                                                         *)
(* Options are partial records: a field that is absent was not given. A     *)
(* deployment under construction is a record d; a resolution returns the    *)
(* set of deployments it may continue with, which is empty when the code    *)
(* calls logrus.Fatalf. Ratios are in hundredths.                           *)
(***************************************************************************)
EXTENDS Integers, Sequences, FiniteSets, SequencesExt

Given(r, k, default) == IF k \in DOMAIN r THEN r[k] ELSE default
Changed(r, k) == k \in DOMAIN r

\* d, or nothing when the command gives up.
Provided(ok, d) == {x \in {d} : ok}

-----------------------------------------------------------------------------
(* The engine's policy *)

PolicyKinds == {"scheduler", "preemption"}

VLLMPolicies == [fcfs     |-> [scheduler |-> "fcfs", preemption |-> "fcfs"],
                 priority |-> [scheduler |-> "priority-fcfs", preemption |-> "priority"]]

\* The pool's scheduling policy in BLIS's terms; an unstated one is vLLM's fcfs.
enginePolicyOf(pool) ==
    LET stated == IF pool.policy = "" THEN "fcfs" ELSE pool.policy
    IN {VLLMPolicies[p] : p \in {stated} \cap DOMAIN VLLMPolicies}

\* Mutant: a disaggregated run records its overrides for the run, too.
recordPolicyOverrideTwice(d, kind, scope, stated) ==
    IF d.policy[kind] = stated
    THEN d
    ELSE [d EXCEPT !.overrides = Append(@,
            [setting |-> kind, scope |-> scope, stated |-> stated,
             run |-> d.policy[kind], source |-> d.source[kind]])]

\* A policy other than the stated one is noted for the results file; by pool
\* when the scenario is disaggregated.
recordPolicyOverride(d, kind, scope, stated) ==
    IF d.policy[kind] = stated \/ (scope = "run" /\ d.disaggregated)
    THEN d
    ELSE [d EXCEPT !.overrides = Append(@,
            [setting |-> kind, scope |-> scope, stated |-> stated,
             run |-> d.policy[kind], source |-> d.source[kind]])]

Chosen(d, kind, value, source) ==
    recordPolicyOverride([d EXCEPT !.policy[kind] = value, !.source[kind] = source],
                         kind, "run", d.stated[kind])

AdoptedPolicy(d, flags, kind) ==
    IF Changed(flags, kind) THEN Chosen(d, kind, flags[kind], "flag")
    ELSE [d EXCEPT !.policy[kind] = d.stated[kind]]

adoptSchedulingPolicy(d, flags, stated) ==
    AdoptedPolicy(AdoptedPolicy([d EXCEPT !.stated = stated], flags, "scheduler"),
                  flags, "preemption")

-----------------------------------------------------------------------------
(* Policy bundles *)

AdmissionPolicies == {"", "always-admit", "token-bucket", "reject-all", "tier-shed", "gaie-legacy"}
RoutingPolicies == {"", "round-robin", "least-loaded", "weighted", "always-busiest"}
Schedulers == {"", "fcfs", "priority-fcfs", "sjf", "reverse-priority"}
PreemptionPolicies == {"", "fcfs", "priority"}
Deciders == {"", "never", "always", "prefix-threshold"}
EncodeDeciders == {"", "never", "always", "multimodal"}
Detectors == {"", "never", "utilization", "concurrency"}
ScorerNames == {"prefix-affinity", "precise-prefix-cache", "no-hit-lru", "queue-depth",
                "kv-utilization", "load-balance", "active-requests", "running-requests",
                "load-aware", "vllm-dp", "lora-affinity"}

DefaultScorerConfigs == <<[name |-> "precise-prefix-cache", weight |-> 200],
                          [name |-> "queue-depth", weight |-> 100],
                          [name |-> "kv-utilization", weight |-> 100]>>

ScorersValid(scorers) ==
    /\ \A i \in DOMAIN scorers : scorers[i].name \in ScorerNames /\ scorers[i].weight > 0
    /\ \A i, j \in DOMAIN scorers : i # j => scorers[i].name # scorers[j].name

AnalyzerValid(a) ==
    /\ \A k \in DOMAIN a : a[k] >= 0
    /\ Given(a, "kv", 0) <= 100
    /\ LET effective(k, default) == IF Given(a, k, 0) = 0 THEN default ELSE a[k]
       IN effective("down", 40) < effective("up", 80)

NodePoolValid(np) ==
    /\ np.gpus >= 1 /\ np.memory > 0
    /\ np.initial >= 0 /\ np.min >= 0
    /\ np.max >= np.initial /\ np.min <= np.max

\* PolicyBundle.Validate.
BundleValid(b) ==
    /\ Given(b, "admission", "") \in AdmissionPolicies
    /\ Given(b, "routing", "") \in RoutingPolicies
    /\ Given(b, "scheduler", "") \in Schedulers
    /\ Given(b, "preemption", "") \in PreemptionPolicies
    /\ \A k \in {"bucketCapacity", "bucketRate", "shedThreshold", "interval", "upWindow",
                "downWindow", "scrapeDelay", "loading"} : Given(b, k, 0) >= 0
    /\ Given(b, "gaieQD", 1) > 0
    /\ Given(b, "gaieKV", 1) \in 1..100
    /\ \A share \in Given(b, "tenantBudgets", {}) : share \in 0..100
    /\ ScorersValid(Given(b, "scorers", <<>>))
    /\ AnalyzerValid(Given(b, "analyzer", <<>>))
    /\ \A i \in DOMAIN Given(b, "nodePools", <<>>) : NodePoolValid(b.nodePools[i])

\* A bundle's value stands where the flag was not given.
Layered(flags, b, k, default) ==
    IF Changed(flags, k) THEN flags[k]
    ELSE IF Given(b, k, "") # "" THEN b[k] ELSE default
LayeredNumber(flags, b, k, default) == Given(flags, k, Given(b, k, default))

BundledPolicy(d, flags, b, kind) ==
    IF Given(b, kind, "") # "" /\ ~Changed(flags, kind)
    THEN Chosen(d, kind, b[kind], "bundle") ELSE d

\* The tier below which tier-shed sheds: 3 only when the bundle itself names
\* tier-shed and states no tier.
ShedMinPriority(b) ==
    Given(b, "shedMin", IF Given(b, "admission", "") = "tier-shed" THEN 3 ELSE 0)

BundleApplied(d, flags, b) ==
    [BundledPolicy(BundledPolicy(d, flags, b, "scheduler"), flags, b, "preemption")
        EXCEPT !.admission = [policy |-> Layered(flags, b, "admission", "always-admit"),
                              capacity |-> LayeredNumber(flags, b, "bucketCapacity", 10000),
                              rate |-> LayeredNumber(flags, b, "bucketRate", 1000),
                              shedThreshold |-> Given(b, "shedThreshold", 0),
                              shedMin |-> ShedMinPriority(b),
                              gaieQD |-> Given(b, "gaieQD", 5), gaieKV |-> Given(b, "gaieKV", 80),
                              tenants |-> Given(b, "tenantBudgets", {}),
                              priorities |-> Given(b, "sloPriorities", {})],
               !.routing = Layered(flags, b, "routing", "round-robin"),
               !.lifecycle = Given(b, "loading", 0)]

-----------------------------------------------------------------------------
(* The flags *)

\* Flow control is looked at only when it is on, a detector's thresholds only
\* when the detector is chosen.
FlowValid(f) ==
    /\ f.detector \in Detectors
    /\ f.order \in {"fifo", "priority", "slo-deadline"}
    /\ f.fairness \in {"global-strict", "round-robin"}
    /\ f.depth >= 0 /\ f.band >= 0
    /\ f.usage \in 1..100
    /\ \A t \in f.targets : t > 0
    /\ f.detector = "utilization" => f.queueDepth > 0 /\ f.kvUtil > 0
    /\ f.detector = "concurrency" => f.concurrency > 0

PoliciesValid(d, flags) ==
    /\ d.admission.policy = "token-bucket" => d.admission.capacity > 0 /\ d.admission.rate > 0
    /\ d.admission.policy = "gaie-legacy" => d.admission.gaieQD > 0 /\ d.admission.gaieKV \in 1..100
    /\ d.admission.policy \in AdmissionPolicies
    /\ d.admission.priorities \subseteq -100..100
    /\ d.routing \in RoutingPolicies
    /\ d.policy["scheduler"] \in Schedulers
    /\ d.policy["preemption"] \in PreemptionPolicies
    /\ Given(flags, "cpuBlocks", 0) >= 0
    /\ \A delay \in Given(flags, "delays", {}) : delay >= 0
    /\ Changed(flags, "flow") => FlowValid(flags.flow)

composeLoRAScorer(base, weight) ==
    LET profile == IF base = <<>> THEN DefaultScorerConfigs ELSE base
    IN Provided(weight > 0 /\ \A i \in DOMAIN profile : profile[i].name # "lora-affinity",
                Append(profile, [name |-> "lora-affinity", weight |-> weight]))

\* Flags before the bundle; without either the empty profile, which the router
\* reads as the default one.
ScorerConfigs(d, flags, b) ==
    LET named == IF Changed(flags, "scorers") THEN flags.scorers ELSE Given(b, "scorers", <<>>)
    IN IF d.routing # "weighted" THEN {<<>>}
       ELSE IF Changed(flags, "scorers") /\ ~ScorersValid(named) THEN {}
       ELSE IF Changed(flags, "loraWeight") THEN composeLoRAScorer(named, flags.loraWeight)
       ELSE {named}

resolvePolicies(d, flags) ==
    LET b == Given(flags, "bundle", <<>>)
        e == BundleApplied(d, flags, b)
        flow == Given(flags, "flow", <<>>)
        targets == Given(flow, "targets", {})
    IN {[e EXCEPT !.scorers = s, !.flow = flow,
                  !.sloTargets = IF targets # {} THEN targets ELSE Given(b, "sloTargets", {})] :
            s \in {t \in ScorerConfigs(e, flags, b) : BundleValid(b) /\ PoliciesValid(e, flags)}}
=============================================================================
