----------------------------- MODULE MCAnalysis -----------------------------
(* Analysis on small traces: late and unordered sends, chunk times that make
   no sense, deadlines, sessions, a shared prefix, every optional column; and
   runs and replays of small scenarios. *)
EXTENDS CommandLine

MCBase == <<"request_id", "client_id", "tenant_id", "slo_class", "session_id",
    "round_index", "prefix_group", "prefix_length", "streaming", "input_tokens",
    "output_tokens", "text_tokens", "image_tokens", "audio_tokens", "video_tokens",
    "reason_ratio", "model", "deadline_us", "server_input_tokens", "arrival_time_us",
    "send_time_us", "first_chunk_time_us", "last_chunk_time_us", "num_chunks",
    "status", "error_message", "finish_reason">>

Blank == [c \in ToSet(MCBase) \cup ToSet(Optional) |->
            IF c \in {"think_time_us", "input_tokens_reset"} THEN Nil ELSE 0]

\* Request id, arrived at a and sent at s, answered from f to l.
Rec(id, a, s, f, l, class, answer) ==
    [Blank EXCEPT !.request_id = id, !.arrival_time_us = a, !.send_time_us = s,
                  !.first_chunk_time_us = f, !.last_chunk_time_us = l, !.status = Ok,
                  !.slo_class = class, !.input_tokens = 1, !.output_tokens = answer,
                  !.model = 1, !.tenant_id = class]

Chunk(id, k, t) == [id |-> id, chunk |-> k, ts |-> t]

MCTraces == {
    \* Three requests of two classes; the second was sent late.
    [recs |-> <<Rec(0, 0, 0, 1, 2, 0, 2), Rec(1, 0, 1, 3, 4, 1, 2), Rec(2, 1, 1, 2, 3, 1, 1)>>,
     chunks |-> {Chunk(0, 1, 1), Chunk(0, 2, 2), Chunk(1, 1, 3), Chunk(1, 2, 4)}],
    \* A failure, a last chunk before the send, and a deadline that passes first.
    [recs |-> <<[Rec(0, 1, 2, 0, 0, 1, 1) EXCEPT !.status = Failed, !.x_request_id = 7],
                [Rec(1, 1, 3, 5, 2, 1, 2) EXCEPT !.deadline_us = 3, !.slo_target_us = 4],
                [Rec(2, 2, 4, 5, 6, 0, 2) EXCEPT !.deadline_us = 3, !.model = 0, !.adapter = 3]>>,
     chunks |-> {Chunk(1, 1, 5), Chunk(1, 2, 2), Chunk(2, 2, 6), Chunk(2, 1, 5)}],
    \* A session of two rounds and a prompt no cache can hold.
    [recs |-> <<[Rec(0, 1, 1, 2, 3, 1, 2) EXCEPT !.session_id = 1, !.prefix_group = 1,
                                                 !.prefix_length = 1, !.server_input_tokens = 3],
                [Rec(1, 2, 2, 3, 3, 1, 1) EXCEPT !.session_id = 1, !.round_index = 1,
                                                 !.think_time_us = 0],
                [Rec(2, 2, 2, 3, 4, 0, 0) EXCEPT !.input_tokens = 9, !.vllm_priority = 2,
                                                 !.input_tokens_reset = 1]>>,
     chunks |-> {}],
    \* Four requests of one burst and a straggler that keeps the run going.
    [recs |-> <<Rec(0, 0, 1, 2, 2, 1, 1), Rec(1, 0, 1, 2, 3, 1, 2), Rec(2, 0, 1, 3, 4, 1, 2),
                Rec(3, 3, 4, 6, 8, 0, 2)>>,
     chunks |-> {Chunk(1, 1, 2), Chunk(1, 2, 3), Chunk(2, 1, 3), Chunk(2, 2, 3), Chunk(2, 3, 4)}],
    \* Everything at once, times out of order, one record the loader refuses.
    [recs |-> <<Rec(0, 3, 3, 4, 5, 1, 1), [Rec(1, 2, 2, 3, 6, 1, 2) EXCEPT !.deadline_us = 1]>>,
     chunks |-> {}]}

Block(w, k, s, t) == [window |-> w, slopeK |-> k, saturated |-> s, transient |-> t]
Peak(t, o, k, c, v) == [threshold |-> t, minObs |-> o, warmup |-> k, consecutiveK |-> c, overload |-> v]
Tune(sel, cfg, flag) == [sel |-> sel, cfg |-> cfg, flag |-> flag]

MCReplayTunings == {Tune(<<"all">>, NoBlocks, <<>>)}
MCTunings == MCReplayTunings \cup {
    Tune(<<"backlog-drift">>, [NoBlocks EXCEPT !.drift = <<Block(<<1>>, <<150>>, <<>>, <<>>)>>], <<2>>),
    Tune(<<"backlog-drift", "threshold", "threshold">>,
         [NoBlocks EXCEPT !.drift = <<Block(<<1>>, <<300>>, <<98>>, <<>>)>>, !.threshold = <<2>>], <<>>),
    Tune(<<"backlog-drift">>, [NoBlocks EXCEPT !.drift = <<Block(<<>>, <<>>, <<99>>, <<>>)>>], <<>>),
    Tune(<<"peak-rate">>, [NoBlocks EXCEPT !.peak = <<Peak(<<50>>, <<2>>, <<0>>, <<2>>, <<150>>)>>], <<1>>),
    Tune(<<"peak-rate", "composite">>, [NoBlocks EXCEPT !.composite = <<50>>], <<3>>),
    Tune(<<"composite">>, [NoBlocks EXCEPT !.threshold = <<1>>], <<>>),
    Tune(<<"threshold">>, [NoBlocks EXCEPT !.threshold = <<0>>], <<>>),
    Tune(<<"threshold", "all">>, NoBlocks, <<>>)}

MCDefaultPeak == [threshold |-> 40, minObs |-> 2, warmup |-> 1, consecutiveK |-> 2, overload |-> 200]
MCTruncations == {[early |-> e, short |-> s] : e, s \in {{}, {0}, {0, 1, 2}}}
MCCalConfigs == {[warm |-> w, rtt |-> r, perToken |-> 0] : w \in {0, 1}, r \in {0, 1}}
                  \cup {[warm |-> 0, rtt |-> 0, perToken |-> 1]}

Target(t, i, e) == [ttft |-> t, itl |-> i, e2e |-> e]
Only(c, t) == [x \in {c} |-> t]
MCTargetSources == {
    [cli |-> Only(1, Target(2, 0, 0)), header |-> <<>>, spec |-> [x \in {1, 9} |-> Target(1, 1, 3)]],
    [cli |-> Only(9, Target(0, 2, 0)), header |-> Only(9, Target(3, 0, 2)), spec |-> Only(1, Target(0, 0, 2))]}

-----------------------------------------------------------------------------
(* Scenarios, flags and imported traces *)

Pool == [role |-> "colocated", policy |-> "", gpu |-> 1, memory |-> 100, util |-> 90, fixed |-> 40,
         bytes |-> 1, tp |-> 1, dp |-> 1, experts |-> 0, ep |-> FALSE, block |-> 2, seqs |-> 2,
         toks |-> 8, window |-> 40, noCache |-> FALSE, format |-> 1, draft |-> <<>>, gpus |-> 4]
Prefill == [Pool EXCEPT !.role = "prefill", !.policy = "priority", !.tp = 2, !.util = 95]
Decode == [Pool EXCEPT !.role = "decode", !.bytes = 2, !.window = 20]
MoE(kernel) == [kernel EXCEPT !.experts = 8, !.dp = 2, !.ep = TRUE]

Scenario(pools) == [pools |-> pools, offload |-> FALSE, unlinked |-> {}]
Colocated == Scenario(<<Pool>>)
Disaggregated == Scenario(<<Prefill, Decode>>)
Experts == Scenario(<<MoE(Pool)>>)
ExpertsPD == Scenario(<<MoE(Prefill), MoE([Decode EXCEPT !.gpus = 2])>>)

MCDevices == [nvme |-> [direct |-> [read |-> 4, write |-> 2, latency |-> 1, queue |-> 4, fraction |-> 50],
                        buffered |-> [read |-> 8, queue |-> 1]],
              tape |-> [direct |-> [read |-> 1, write |-> 0, latency |-> 9], buffered |-> [write |-> 1]],
              cpu_dram |-> [direct |-> [read |-> 9, write |-> 9, latency |-> 0], buffered |-> <<>>]]

TierOf(class) == [type |-> "fs", root |-> "kv", directIO |-> TRUE, class |-> class]
File(tiers) == [cpuBytes |-> 8, tiers |-> tiers]
NVMe == File(<<TierOf("nvme")>>)
Bundle == [scheduler |-> "priority-fcfs", preemption |-> "priority", admission |-> "tier-shed",
           routing |-> "weighted", sloPriorities |-> {-3, 4}, loading |-> 1, sloTargets |-> {5}]
Flow == [detector |-> "utilization", order |-> "slo-deadline", fairness |-> "round-robin", depth |-> 0,
         band |-> 2, usage |-> 90, targets |-> {3}, queueDepth |-> 5, kvUtil |-> 80]
Lora == [ranks |-> {1, 2}, capacity |-> 2, perRank |-> 2]
Nodes(gpus, memory) == <<[gpu |-> 1, gpus |-> gpus, memory |-> memory, initial |-> 1, min |-> 0, max |-> 2]>>
PD == [n |-> 2, prefill |-> 1, decode |-> 1]

Invoke(scenario, flags, asked) == [scenario |-> scenario, flags |-> flags, sessions |-> asked]

Accepted1 == {
    Invoke(Colocated, <<>>, "none"),
    Invoke(Colocated, [n |-> 4, offload |-> NVMe, lora |-> Lora], "all"),
    Invoke(Colocated, [offload |-> [NVMe EXCEPT !.cpuBytes = 2] @@ [promptOnly |-> FALSE, blockSize |-> 2],
                       bundle |-> Bundle, loraWeight |-> 100], "some"),
    Invoke(Colocated, [cpuBlocks |-> 2, scheduler |-> "sjf", bundle |-> Bundle, flow |-> Flow,
                       pdThreshold |-> 3], "all"),
    Invoke(Experts, [n |-> 2, offload |-> File(<<>>), preemption |-> "fcfs"], "all"),
    Invoke([Experts EXCEPT !.pools[1].tp = 2],
           [bundle |-> [nodePools |-> Nodes(1, 100) \o Nodes(4, 100)]], "none"),
    Invoke(Colocated, [interval |-> 5, pdDecider |-> "always"], "none"),
    Invoke(Disaggregated, PD @@ [offload |-> NVMe, lora |-> Lora, pdDecider |-> "prefix-threshold"], "all"),
    Invoke(Disaggregated, PD @@ [scheduler |-> "sjf"], "some"),
    Invoke(Disaggregated, PD @@ [bundle |-> Bundle, cpuBlocks |-> 1], "none"),
    Invoke(ExpertsPD, PD @@ [offload |-> NVMe], "all"),
    Invoke([Colocated EXCEPT !.pools[1].draft = [tokens |-> 2, method |-> "mtp"]],
           [acceptance |-> 70, routing |-> "weighted"], "none")}

\* One thing wrong in each.
Rejected1 == {
    Invoke(Scenario(<<Pool, Pool>>), <<>>, "none"),
    Invoke([Colocated EXCEPT !.offload = TRUE], <<>>, "none"),
    Invoke([Colocated EXCEPT !.pools[1].window = 60], <<>>, "none"),
    Invoke([Colocated EXCEPT !.pools[1].policy = "lottery"], <<>>, "none"),
    Invoke(Disaggregated, <<>>, "none"),
    Invoke(Colocated, [lora |-> [Lora EXCEPT !.capacity = 6]], "none"),
    Invoke(Colocated, [offload |-> NVMe, cpuBlocks |-> 1], "none"),
    Invoke(Colocated, [offload |-> File(<<TierOf("tape")>>)], "none"),
    Invoke(Colocated, [offload |-> File(<<TierOf("nvme") @@ [read |-> 3]>>)], "none"),
    Invoke(Colocated, [offload |-> File(<<[TierOf("tape") EXCEPT !.directIO = FALSE]>>)], "none"),
    Invoke(Colocated, [offload |-> NVMe @@ [blocksPerChunk |-> 2]], "none"),
    Invoke(Colocated, [offload |-> [NVMe EXCEPT !.cpuBytes = 1]], "none"),
    Invoke([Colocated EXCEPT !.pools[1].dp = 2], <<>>, "none"),
    Invoke(Colocated, [n |-> 0], "none"),
    Invoke(Colocated, [scheduler |-> "lottery"], "none"),
    Invoke(Colocated, [bundle |-> [Bundle EXCEPT !.sloPriorities = {101}]], "none"),
    Invoke(Colocated, [routing |-> "weighted", loraWeight |-> 1,
                       scorers |-> <<[name |-> "lora-affinity", weight |-> 1]>>], "none"),
    Invoke(Colocated, [bundle |-> [nodePools |-> Nodes(1, 80)]], "none"),
    Invoke(Colocated, [n |-> 2, prefill |-> 1], "none"),
    Invoke(Colocated, PD, "none"),
    Invoke(Disaggregated, [PD EXCEPT !.n = 3], "none"),
    Invoke([Disaggregated EXCEPT !.pools[2].format = 2], PD, "none"),
    Invoke(Disaggregated, PD @@ [poolScorers |-> [prefill |-> <<[name |-> "luck", weight |-> 1]>>]], "none"),
    Invoke(Experts, [interval |-> 5], "none"),
    Invoke(Colocated, [n |-> 5], "none"),
    Invoke([Disaggregated EXCEPT !.unlinked = {<<0, 0>>}], PD, "none"),
    Invoke([Colocated EXCEPT !.pools[1].draft = [tokens |-> 2, method |-> "mtp"]], <<>>, "none")}

MCInvocations == Accepted1 \cup Rejected1

ImportedTrace(mode, growth, obs, asked) ==
    [header |-> [mode |-> mode, growth |-> growth, offload |-> Inert, obs |-> obs, span |-> 0],
     deltas |-> growth = "accumulate", seen |-> obs, sessions |-> asked, by |-> <<>>]
MCImported == {ImportedTrace("real", "", "tiered", "some"),
               ImportedTrace("real", "", "gpu", "none"),
               ImportedTrace("generated", "accumulate", "", "all")}

MCSessionOptions == {<<>>, [mode |-> "closed-loop", thinkMs |-> 5], [mode |-> "fixed-accumulate"],
                     [concurrent |-> 2, total |-> 3], [mode |-> "fixed-accumulate", concurrent |-> 1],
                     [mode |-> "closed-loop", shuffle |-> TRUE]}
=============================================================================
