------------------------------ MODULE MCRouter ------------------------------
(* Three instances, one of them added late, one serving a second model.      *)
EXTENDS Router

Ask(prompt, adapter, model, sheddable, priority) ==
    [prompt |-> prompt, adapter |-> adapter, model |-> model,
     sheddable |-> sheddable, priority |-> priority]

MCRequests == <<Ask(<<"a", "b">>, "x", "", TRUE, 1), Ask(<<"a">>, "", "m", FALSE, 3),
                Ask(<<"a", "c">>, "", "", TRUE, 1), Ask(<<"d">>, "x", "m", TRUE, 1)>>
MCHashes == {<<"a">>, <<"a", "b">>, <<"a", "c">>, <<"d">>}
MCInitial == <<"i1", "i2">>
MCModelOf == [i \in {"i1", "i2", "i3"} |-> IF i = "i2" THEN "n" ELSE "m"]

Weigh(name, weight) == [name |-> name, weight |-> weight]
Configure(routing, scorers, admission, refresh, delay, latency, scaling, load) ==
    [routing |-> routing, scorers |-> scorers, admission |-> admission,
     refresh |-> refresh, delay |-> delay, latency |-> latency,
     scaling |-> scaling, load |-> load]

MCConfigs == {
    Configure("round-robin", <<>>, "token-bucket", 0, 0, 1, TRUE, 4),
    Configure("least-loaded", <<>>, "tier-shed", 2, 0, 0, FALSE, 4),
    Configure("always-busiest", <<>>, "gaie-legacy", 0, 0, 0, FALSE, 4),
    Configure("weighted", <<Weigh("precise-prefix-cache", 2), Weigh("queue-depth", 1),
                            Weigh("kv-utilization", 1)>>, "always-admit", 2, 2, 0, TRUE, 2),
    Configure("weighted", <<Weigh("prefix-affinity", 2), Weigh("load-balance", 1),
                            Weigh("vllm-dp", 1)>>, "always-admit", 1, 0, 0, FALSE, 4),
    Configure("weighted", <<Weigh("no-hit-lru", 1)>>, "always-admit", 0, 2, 0, TRUE, 3),
    Configure("weighted", <<Weigh("lora-affinity", 1), Weigh("active-requests", 1),
                            Weigh("running-requests", 1), Weigh("load-aware", 1)>>,
              "gaie-legacy", 1, 0, 0, FALSE, 4),
    Configure("round-robin", <<>>, "reject-all", 0, 0, 0, FALSE, 1)}
=============================================================================
