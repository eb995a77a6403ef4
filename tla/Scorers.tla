------------------------------ MODULE Scorers ------------------------------
(* The scorers of the weighted routing policy (sim/routing_scorers.go,       *)
(* routing_prefix_scorer.go, routing_precise_prefix_scorer.go,               *)
(* routing_nohit_lru_scorer.go).  A scorer maps every candidate to a number  *)
(* between 0 and 1; here a score is that number times Scale, a common        *)
(* multiple of the denominators that occur, so that ties are exact.          *)
EXTENDS PrefixIndex, FiniteSetsExt

CONSTANTS
    KVBlocks,             \* TotalBlocks of an instance
    LoadAwareThreshold,   \* loadAwareQueueThreshold (128 in the code)
    NoAdapter             \* req.Adapter = ""

Scale == 360360

ASSUME ScorerAssumption == KVBlocks \in Nat \ {0} /\ LoadAwareThreshold \in Nat \ {0}

EffectiveLoad(v) == v.queue + v.batch + v.inFlight

\* Min-max normalisation, every candidate best when all agree.
LowestBest(raw) ==
    LET lo == Min({raw[i] : i \in DOMAIN raw})
        hi == Max({raw[i] : i \in DOMAIN raw})
    IN [i \in DOMAIN raw |-> IF hi = lo THEN Scale ELSE ((hi - raw[i]) * Scale) \div (hi - lo)]

HighestBest(raw) ==
    LET lo == Min({raw[i] : i \in DOMAIN raw})
        hi == Max({raw[i] : i \in DOMAIN raw})
    IN [i \in DOMAIN raw |-> IF hi = lo THEN Scale ELSE ((raw[i] - lo) * Scale) \div (hi - lo)]

scoreVLLMDP(view) == LowestBest([i \in DOMAIN view |-> 4 * view[i].queue + view[i].batch])

scoreQueueDepth(view) == LowestBest([i \in DOMAIN view |-> view[i].queue])

scoreRunningRequests(view) == LowestBest([i \in DOMAIN view |-> view[i].batch])

scoreKVUtilization(view) ==
    [i \in DOMAIN view |-> ((KVBlocks - view[i].used) * Scale) \div KVBlocks]

scoreLoadBalance(view) == [i \in DOMAIN view |-> Scale \div (1 + EffectiveLoad(view[i]))]

scoreActiveRequests(view) ==
    LET most == Max({view[i].inFlight : i \in DOMAIN view})
    IN [i \in DOMAIN view |-> IF view[i].inFlight = 0 THEN Scale
                              ELSE ((most - view[i].inFlight) * Scale) \div most]

scoreLoadAware(view) ==
    [i \in DOMAIN view |->
        LET depth == Min({view[i].queue, LoadAwareThreshold})
        IN ((LoadAwareThreshold - depth) * Scale) \div (2 * LoadAwareThreshold)]

scoreLoRAAffinity(adapter, view) ==
    IF adapter = NoAdapter THEN [i \in DOMAIN view |-> Scale]
    ELSE HighestBest([i \in DOMAIN view |-> IF adapter \in view[i].resident THEN 1 ELSE 0])

\* newPrefixAffinityScorer: the matched share of the prompt, 0 for an instance
\* the index has not heard of.
scorePrefixAffinity(hashes, index, view) ==
    [i \in DOMAIN view |->
        IF hashes = <<>> THEN 0
        ELSE (MatchLength(hashes, index[i].lookup) * Scale) \div Len(hashes)]

\* newPrecisePrefixCacheScorer: hits[i] is what cacheFn answers for instance i,
\* 0 when it has no entry.
scorePrecisePrefix(hits, view) == HighestBest([i \in DOMAIN view |-> hits[i]])

\* newNoHitLRUScorer: the request is warm when any candidate caches a block of it.
IsWarm(hits, view) == \E i \in DOMAIN view : hits[i] > 0

\* The cold branch drops instances that are no longer candidates, unless there
\* is one candidate only.
PruneLRU(order, hits, view) ==
    IF IsWarm(hits, view) \/ Cardinality(DOMAIN view) <= 1 THEN order
    ELSE Only(order, DOMAIN view)

\* Mutant: the most recently used candidate is preferred.
scoreNoHitMRU(cands, order, hits, view) ==
    LET n == Len(cands)
        kept == PruneLRU(order, hits, view)
        ranked == kept \o Only(cands, DOMAIN view \ Elems(kept))
    IN IF IsWarm(hits, view) THEN [i \in DOMAIN view |-> Scale \div 2]
       ELSE IF n = 1 THEN [i \in DOMAIN view |-> Scale]
       ELSE [i \in DOMAIN view |->
                ((n - (CHOOSE k \in 1 .. n : ranked[k] = i)) * Scale) \div (n - 1)]

\* Cold: never-used candidates first, in candidate order, then the least
\* recently used ones; the first of n scores 1 and the last 0.
scoreNoHitLRU(cands, order, hits, view) ==
    LET n == Len(cands)
        kept == PruneLRU(order, hits, view)
        fresh == Only(cands, DOMAIN view \ Elems(kept))
        ranked == fresh \o [k \in 1 .. Len(kept) |-> kept[Len(kept) + 1 - k]]
    IN IF IsWarm(hits, view) THEN [i \in DOMAIN view |-> Scale \div 2]
       ELSE IF n = 1 THEN [i \in DOMAIN view |-> Scale]
       ELSE [i \in DOMAIN view |->
                LET rank == (CHOOSE k \in 1 .. n : ranked[k] = i) - 1
                IN ((n - 1 - rank) * Scale) \div (n - 1)]

\* The observer: the target of a cold request becomes the most recently used.
ObserveCold(order, warm, target) ==
    IF warm THEN order ELSE <<target>> \o Only(order, Elems(order) \ {target})
=============================================================================
