------------------------------- MODULE Router -------------------------------
(* Admission and routing of the cluster simulator over what the router can   *)
(* see: the snapshot provider (sim/cluster/snapshot.go) refreshes its view   *)
(* of an instance at most once per interval, the cache queries read a frozen *)
(* copy of the instance's prefix cache, and only the count of requests in    *)
(* flight is exact.  Instances are an environment: they take requests from   *)
(* their event heap to the wait queue, to the batch, and finish them; one    *)
(* can be added and drained while requests are routed.                       *)
EXTENDS Scorers

CONSTANTS
    Requests,          \* request number -> [prompt, adapter, model, sheddable, priority]
    Initial, Late,     \* instances placed at start, in order; one that scale-up adds
    ModelOf,           \* instance -> Model
    Configs,           \* the cluster configurations to explore
    Horizon,           \* bound on the clock
    MaxBatch,          \* an instance's batch
    BucketCapacity, RefillRate,   \* TokenBucket, per unit of the clock
    OverloadThreshold, MinAdmitPriority,   \* TierShedAdmission
    QDThreshold, KVThreshold      \* GAIELegacyAdmission; the second in blocks

VARIABLES
    config,      \* [routing, scorers, admission, refresh, delay, latency, scaling, load]
    clock,
    instances,   \* cs.instances, in the order they were constructed
    life,        \* instance -> lifecycle state, "none" before construction
    inbox, queue, batch,   \* requests in the instance's heap, wait queue, running batch
    cached,      \* instance -> block hashes its KV cache holds
    resident,    \* instance -> resident adapters
    inFlight,    \* cs.inFlightRequests
    view,        \* provider.cache: the signals last read from each instance
    viewAt,      \* provider.lastRefresh; the fields are always refreshed together
    entries,     \* provider.cacheEntries: frozen block hashes, CacheBlocks Periodic
    entriesAt,   \* provider.cacheLastRefresh
    queries,     \* keys of cs.cacheQueryFn
    counter,     \* RoundRobin.counter
    index,       \* PrefixCacheIndex, instance -> LRU
    order,       \* no-hit-lru's lruOrder
    bucket,      \* TokenBucket [tokens, last]
    arrived,     \* requests that reached admission
    pending,     \* RoutingDecisionEvents [req, at] in seqID order
    trace,       \* cs.trace: routing records
    admitted,    \* admission records
    changed      \* history: when the signals and the cache of an instance last changed

providerVars == <<view, viewAt, entries, entriesAt, queries>>
policyVars == <<counter, index, order>>
truthVars == <<inbox, queue, batch, cached, resident>>
vars == <<config, clock, instances, life, truthVars, inFlight, providerVars, policyVars,
          bucket, arrived, pending, trace, admitted, changed>>

All == {Initial[n] : n \in 1 .. Len(Initial)} \cup {Late}

\* Prompts are sequences; a weighted policy has scorers of positive weight, as
\* ParseScorerConfigs demands, and the others have none.
IsSequence(s) == s \in Seq(Elems(s))
ScorerNames ==
    {"prefix-affinity", "precise-prefix-cache", "no-hit-lru", "queue-depth",
     "kv-utilization", "load-balance", "active-requests", "running-requests",
     "load-aware", "vllm-dp", "lora-affinity"}
ValidConfig(c) ==
    /\ c.routing \in {"round-robin", "least-loaded", "weighted", "always-busiest"}
    /\ c.admission \in {"token-bucket", "tier-shed", "gaie-legacy", "reject-all", "always-admit"}
    /\ c.scorers \in Seq([name : ScorerNames, weight : Nat \ {0}])
    /\ c.routing = "weighted" <=> c.scorers # <<>>
    /\ c.refresh \in Nat /\ c.delay \in Nat /\ c.latency \in Nat
    /\ c.load \in 0 .. Len(Requests)

ASSUME RouterAssumption ==
    /\ IsSequence(Requests)
    /\ \A r \in 1 .. Len(Requests) :
          /\ IsSequence(Requests[r].prompt)
          /\ \A n \in 1 .. Len(Requests[r].prompt) : SubSeq(Requests[r].prompt, 1, n) \in Hashes
    /\ IsSequence(Initial) /\ Initial # <<>>
    /\ \A m, n \in 1 .. Len(Initial) : Initial[m] = Initial[n] => m = n
    /\ Late \notin Elems(Initial)
    /\ \A c \in Configs : ValidConfig(c)
    /\ Horizon \in Nat /\ MaxBatch \in Nat \ {0}
    /\ BucketCapacity \in Nat /\ RefillRate \in Nat

HashesOf(r) == ComputeBlockHashes(Requests[r].prompt)

NoView == [queue |-> 0, batch |-> 0, used |-> 0, resident |-> {}]

\* What the accessors of an instance answer now.
Truth(i) == [queue |-> Len(queue[i]), batch |-> Cardinality(batch[i]),
             used |-> Cardinality(UNION {Elems(HashesOf(r)) : r \in batch[i]}),
             resident |-> resident[i]]

IsRoutable(i) == life[i] = "Active"

Uses(scorer) == \E n \in 1 .. Len(config.scorers) : config.scorers[n].name = scorer

Init ==
    /\ config \in Configs
    /\ clock = 0
    /\ instances = Initial
    /\ life = [i \in All |-> IF i = Late THEN "none" ELSE "Active"]
    /\ inbox = [i \in All |-> <<>>] /\ queue = [i \in All |-> <<>>]
    /\ batch = [i \in All |-> {}]
    /\ cached = [i \in All |-> {}] /\ resident = [i \in All |-> {}]
    /\ inFlight = [i \in All |-> 0]
    /\ view = [i \in Elems(Initial) |-> NoView]
    /\ viewAt = [i \in Elems(Initial) |-> 0]
    /\ entries = IF config.delay > 0 THEN [i \in Elems(Initial) |-> {}] ELSE <<>>
    /\ entriesAt = 0
    /\ queries = Elems(Initial)
    /\ counter = 0
    /\ index = [i \in All |-> EmptyIndex]
    /\ order = <<>>
    /\ bucket = [tokens |-> BucketCapacity, last |-> 0]
    /\ arrived = 0 /\ pending = <<>> /\ trace = <<>> /\ admitted = <<>>
    /\ changed = [i \in All |-> [signals |-> 0, cache |-> 0]]

-----------------------------------------------------------------------------
(* The snapshot provider.                                                    *)

\* Mutant: a view exactly one interval old still counts as fresh.
shouldRefreshLate(interval, last) == interval = 0 \/ clock - last > interval

shouldRefresh(interval, last) == interval = 0 \/ clock - last >= interval

\* Snapshot(id, clock) of every candidate: the cached signals, re-read when due.
Refreshed(cands) ==
    [i \in DOMAIN view |-> IF i \in Elems(cands) /\ shouldRefresh(config.refresh, viewAt[i])
                           THEN Truth(i) ELSE view[i]]
RefreshedAt(cands) ==
    [i \in DOMAIN viewAt |-> IF i \in Elems(cands) /\ shouldRefresh(config.refresh, viewAt[i])
                             THEN clock ELSE viewAt[i]]

\* RefreshCacheIfNeeded: all entries together, or none.
CacheDue == config.delay > 0 /\ clock - entriesAt >= config.delay
FreshEntries == IF CacheDue THEN [i \in DOMAIN entries |-> cached[i]] ELSE entries

\* buildRouterState: the routable instances serving the request's model, in
\* construction order, each with its snapshot and its exact in-flight count.
Candidates(r) ==
    Only(instances, {i \in All : IsRoutable(i) /\ Requests[r].model \in {"", ModelOf[i]}})

StateOf(cands) ==
    [i \in Elems(cands) |->
        [queue |-> Refreshed(cands)[i].queue, batch |-> Refreshed(cands)[i].batch,
         used |-> Refreshed(cands)[i].used, resident |-> Refreshed(cands)[i].resident,
         inFlight |-> inFlight[i]]]

\* The part of buildRouterState that stays behind in the provider.
Look(cands) ==
    /\ view' = Refreshed(cands)
    /\ viewAt' = RefreshedAt(cands)
    /\ entries' = FreshEntries
    /\ entriesAt' = IF CacheDue THEN clock ELSE entriesAt

\* CacheQuery through cs.cacheQueryFn: 0 for an instance without an entry.
CacheQuery(hashes, i) ==
    IF i \notin queries THEN 0
    ELSE IF config.delay = 0 THEN MatchLength(hashes, cached[i])
    ELSE IF i \in DOMAIN entries THEN MatchLength(hashes, FreshEntries[i]) ELSE 0

-----------------------------------------------------------------------------
(* Admission.                                                                *)

Refilled == [tokens |-> Min({BucketCapacity, bucket.tokens + (clock - bucket.last) * RefillRate}),
             last |-> clock]

Cost(r) == Len(Requests[r].prompt)

\* GAIELegacyAdmission.saturation and UtilizationDetector: the mean over the
\* candidates of the worse of the two ratios, at least 1; no candidate is full.
Utilized(s) ==
    MapThenSumSet(LAMBDA i : Max({s[i].queue * KVThreshold, s[i].used * QDThreshold}), DOMAIN s)
        >= Cardinality(DOMAIN s) * QDThreshold * KVThreshold

TierAdmits(r, s) == \/ \A i \in DOMAIN s : EffectiveLoad(s[i]) <= OverloadThreshold
                    \/ Requests[r].priority >= MinAdmitPriority

GAIEAdmits(r, s) == Requests[r].sheddable => ~Utilized(s)

Admits(r, s) == CASE config.admission = "token-bucket" -> Refilled.tokens >= Cost(r)
                  [] config.admission = "tier-shed" -> TierAdmits(r, s)
                  [] config.admission = "gaie-legacy" -> GAIEAdmits(r, s)
                  [] config.admission = "reject-all" -> FALSE
                  [] config.admission = "always-admit" -> TRUE

\* AdmissionDecisionEvent.Execute for the next request.
Admission ==
    /\ arrived < config.load
    /\ LET r == arrived + 1
           cands == Candidates(r)
           ok == Admits(r, StateOf(cands))
       IN /\ Look(cands)
          /\ bucket' = IF config.admission # "token-bucket" THEN bucket
                       ELSE [Refilled EXCEPT !.tokens = IF ok THEN @ - Cost(r) ELSE @]
          /\ admitted' = Append(admitted, [req |-> r, clock |-> clock, ok |-> ok])
          /\ pending' = IF ok THEN Append(pending, [req |-> r, at |-> clock + config.latency])
                        ELSE pending
          /\ arrived' = r
    /\ UNCHANGED <<config, clock, instances, life, truthVars, inFlight, queries, policyVars,
                   trace, changed>>

-----------------------------------------------------------------------------
(* Routing.                                                                  *)

\* newScorerWithObserver: the scorer of a name, applied.
ScoreOf(name, r, cands, s) ==
    LET hashes == HashesOf(r)
        hits == [i \in DOMAIN s |-> CacheQuery(hashes, i)]
    IN CASE name = "prefix-affinity" -> scorePrefixAffinity(hashes, index, s)
         [] name = "precise-prefix-cache" -> scorePrecisePrefix(hits, s)
         [] name = "no-hit-lru" -> scoreNoHitLRU(cands, order, hits, s)
         [] name = "queue-depth" -> scoreQueueDepth(s)
         [] name = "kv-utilization" -> scoreKVUtilization(s)
         [] name = "load-balance" -> scoreLoadBalance(s)
         [] name = "active-requests" -> scoreActiveRequests(s)
         [] name = "running-requests" -> scoreRunningRequests(s)
         [] name = "load-aware" -> scoreLoadAware(s)
         [] name = "vllm-dp" -> scoreVLLMDP(s)
         [] name = "lora-affinity" -> scoreLoRAAffinity(Requests[r].adapter, s)

Clamp(x) == Max({0, Min({x, Scale})})

\* The weighted sum; the common divisor of the normalised weights is left out.
Composite(r, cands, s) ==
    LET dim == [n \in 1 .. Len(config.scorers) |-> ScoreOf(config.scorers[n].name, r, cands, s)]
    IN [i \in DOMAIN s |-> Total([n \in 1 .. Len(config.scorers) |->
                                    Clamp(dim[n][i]) * config.scorers[n].weight])]

LowestLoad(s) == {i \in DOMAIN s : \A j \in DOMAIN s : EffectiveLoad(s[i]) <= EffectiveLoad(s[j])}
TopScore(scores) == {i \in DOMAIN scores : \A j \in DOMAIN scores : scores[i] >= scores[j]}

\* AlwaysBusiest keeps the first of the busiest.
FirstBusiest(cands, s) ==
    cands[Min({n \in 1 .. Len(cands) :
                 \A j \in DOMAIN s : EffectiveLoad(s[cands[n]]) >= EffectiveLoad(s[j])})]

RoundRobinPick(cands) == cands[(counter % Len(cands)) + 1]

\* Route: the instances the policy may choose (ties are broken by the rng).
Targets(r, cands, s) ==
    CASE config.routing = "round-robin" -> {RoundRobinPick(cands)}
      [] config.routing = "least-loaded" -> LowestLoad(s)
      [] config.routing = "weighted" -> TopScore(Composite(r, cands, s))
      [] config.routing = "always-busiest" -> {FirstBusiest(cands, s)}

\* What Route and the observers leave behind in the policy.
Learn(r, cands, s, target) ==
    LET hashes == HashesOf(r)
        hits == [i \in DOMAIN s |-> CacheQuery(hashes, i)]
    IN /\ counter' = IF config.routing = "round-robin" THEN counter + 1 ELSE counter
       /\ index' = IF Uses("prefix-affinity")
                   THEN [index EXCEPT ![target] = RecordBlocks(@, hashes)] ELSE index
       /\ order' = IF Uses("no-hit-lru")
                   THEN ObserveCold(PruneLRU(order, hits, s), IsWarm(hits, s), target)
                   ELSE order

\* computeCounterfactual: how far the chosen instance is below the best one, by
\* the policy's scores or, for a policy without scores, by load.
Regret(r, cands, s, target) ==
    LET score == IF config.routing = "weighted" THEN Composite(r, cands, s)
                 ELSE [i \in DOMAIN s |-> 0 - EffectiveLoad(s[i])]
    IN Max({score[i] : i \in DOMAIN s}) - score[target]

\* executeStandardRouting of the RoutingDecisionEvent at the head.
Routing ==
    /\ pending # <<>> /\ Head(pending).at = clock
    /\ LET r == Head(pending).req
           cands == Candidates(r)
           s == StateOf(cands)
       IN /\ Look(cands)
          /\ \/ /\ cands = <<>>
                /\ UNCHANGED <<policyVars, trace, inFlight, inbox>>
             \/ /\ cands # <<>>
                /\ \E target \in Targets(r, cands, s) :
                      /\ Learn(r, cands, s, target)
                      /\ trace' = Append(trace,
                             [req |-> r, chosen |-> target, cands |-> cands,
                              cold |-> ~IsWarm([i \in DOMAIN s |-> CacheQuery(HashesOf(r), i)], s),
                              regret |-> Regret(r, cands, s, target)])
                      /\ inFlight' = [inFlight EXCEPT ![target] = @ + 1]
                      /\ inbox' = [inbox EXCEPT ![target] = Append(@, r)]
    /\ pending' = Tail(pending)
    /\ UNCHANGED <<config, clock, instances, life, queue, batch, cached, resident, queries,
                   bucket, arrived, admitted, changed>>

-----------------------------------------------------------------------------
(* Instances, time, scale-up and drain.  Cluster events of a tick come first. *)

Quiet == pending # <<>> => Head(pending).at > clock

Signals(i) == changed' = [changed EXCEPT ![i].signals = clock]

\* The arrival event of the instance's heap puts the request in the wait queue.
Enqueue(i) ==
    /\ Quiet /\ inbox[i] # <<>>
    /\ queue' = [queue EXCEPT ![i] = Append(@, Head(inbox[i]))]
    /\ inbox' = [inbox EXCEPT ![i] = Tail(@)]
    /\ Signals(i)
    /\ UNCHANGED <<config, clock, instances, life, batch, cached, resident, inFlight,
                   providerVars, policyVars, bucket, arrived, pending, trace, admitted>>

\* A step schedules the head of the queue: its blocks are cached, evicting others
\* when the cache is full, and its adapter becomes resident.
Schedule(i) ==
    /\ Quiet /\ queue[i] # <<>> /\ Cardinality(batch[i]) < MaxBatch
    /\ LET r == Head(queue[i])
           mine == Elems(HashesOf(r))
           over == Max({0, Cardinality(cached[i] \cup mine) - KVBlocks})
       IN /\ \E gone \in kSubset(over, cached[i] \ mine) :
                cached' = [cached EXCEPT ![i] = (@ \cup mine) \ gone]
          /\ batch' = [batch EXCEPT ![i] = @ \cup {r}]
          /\ resident' = IF Requests[r].adapter = NoAdapter THEN resident
                         ELSE [resident EXCEPT ![i] = {Requests[r].adapter}]
    /\ queue' = [queue EXCEPT ![i] = Tail(@)]
    /\ changed' = [changed EXCEPT ![i] = [signals |-> clock, cache |-> clock]]
    /\ UNCHANGED <<config, clock, instances, life, inbox, inFlight, providerVars, policyVars,
                   bucket, arrived, pending, trace, admitted>>

\* A completion.  A draining instance that is empty is terminated, and the cache
\* queries of a terminated instance are removed with it.
Complete(i) ==
    /\ Quiet
    /\ \E r \in batch[i] : batch' = [batch EXCEPT ![i] = @ \ {r}]
    /\ inFlight' = [inFlight EXCEPT ![i] = @ - 1]
    /\ LET over == life[i] = "Draining" /\ queue[i] = <<>> /\ batch'[i] = {}
       IN /\ life' = IF over THEN [life EXCEPT ![i] = "Terminated"] ELSE life
          /\ entries' = IF over /\ i \in DOMAIN entries
                        THEN [j \in DOMAIN entries \ {i} |-> entries[j]] ELSE entries
          /\ queries' = IF over THEN queries \ {i} ELSE queries
    /\ Signals(i)
    /\ UNCHANGED <<config, clock, instances, inbox, queue, cached, resident, view, viewAt,
                   entriesAt, policyVars, bucket, arrived, pending, trace, admitted>>

\* The map f with k at v.
Put(f, k, v) == [x \in DOMAIN f \cup {k} |-> IF x = k THEN v ELSE f[x]]

\* Scale-up constructs the late instance and registers it with the provider.
AddInstance ==
    /\ Quiet /\ config.scaling /\ life[Late] = "none"
    /\ life' = [life EXCEPT ![Late] = "Loading"]
    /\ instances' = Append(instances, Late)
    /\ view' = Put(view, Late, NoView)
    /\ viewAt' = Put(viewAt, Late, 0)
    /\ entries' = IF config.delay > 0 THEN Put(entries, Late, cached[Late]) ELSE entries
    /\ queries' = queries \cup {Late}
    /\ UNCHANGED <<config, clock, truthVars, inFlight, entriesAt, policyVars, bucket,
                   arrived, pending, trace, admitted, changed>>

InstanceLoaded ==
    /\ Quiet /\ life[Late] = "Loading"
    /\ life' = [life EXCEPT ![Late] = "Active"]
    /\ UNCHANGED <<config, clock, instances, truthVars, inFlight, providerVars, policyVars,
                   bucket, arrived, pending, trace, admitted, changed>>

Drain(i) ==
    /\ Quiet /\ config.scaling /\ IsRoutable(i) /\ i # Late
    /\ \A j \in All : life[j] \notin {"Draining", "Terminated"}   \* bound: one drain
    /\ life' = [life EXCEPT ![i] = "Draining"]
    /\ UNCHANGED <<config, clock, instances, truthVars, inFlight, providerVars, policyVars,
                   bucket, arrived, pending, trace, admitted, changed>>

Tick ==
    /\ Quiet /\ clock < Horizon
    /\ clock' = clock + 1
    /\ UNCHANGED <<config, instances, life, truthVars, inFlight, providerVars, policyVars,
                   bucket, arrived, pending, trace, admitted, changed>>

Next ==
    \/ Admission \/ Routing \/ AddInstance \/ InstanceLoaded \/ Tick
    \/ \E i \in All : Enqueue(i) \/ Schedule(i) \/ Complete(i) \/ Drain(i)

Spec == Init /\ [][Next]_vars

-----------------------------------------------------------------------------
(* Properties.                                                               *)

\* Types of the variables.
TypeOK ==
    /\ clock \in 0 .. Horizon /\ arrived \in 0 .. Len(Requests)
    /\ life \in [All -> {"none", "Loading", "Active", "Draining", "Terminated"}]
    /\ inFlight \in [All -> 0 .. Len(Requests)]
    /\ \A i \in All : cached[i] \subseteq Hashes /\ Cardinality(cached[i]) <= KVBlocks
    /\ bucket.tokens \in 0 .. BucketCapacity /\ bucket.last \in 0 .. clock
    /\ DOMAIN view = Elems(instances) /\ DOMAIN viewAt = DOMAIN view

\* The blocks of the prompts routed to instance i so far, and those of them that
\* were routed there after h last was.
Sent(i) ==
    LET upTo[n \in 0 .. Len(trace)] ==
            IF n = 0 THEN <<>>
            ELSE IF trace[n].chosen = i THEN upTo[n - 1] \o HashesOf(trace[n].req)
            ELSE upTo[n - 1]
    IN upTo[Len(trace)]
Since(blocks, h) ==
    {blocks[n] : n \in {m \in 1 .. Len(blocks) : \A k \in m .. Len(blocks) : blocks[k] # h}}

\* INV-18 and more: in the index of every instance the table, the forward and the
\* backward pointers agree, and what they hold is exactly the most recently used
\* LRUCapacity blocks of the prompts routed to that instance, latest first: a block
\* after which n others were used comes after n others, or is evicted
\* (touch, evictOldest, pushHead, removeNode).
IndexIsRecency ==
    Uses("prefix-affinity") => \A i \in All :
        LET blocks == Sent(i)
            walk == Walk(index[i])
        IN /\ Elems(walk) = {h \in Elems(blocks) : Cardinality(Since(blocks, h)) < LRUCapacity}
           /\ \A n \in 1 .. Len(walk) : Cardinality(Since(blocks, walk[n])) = n - 1
           /\ index[i].lookup = Elems(walk)
           /\ \A n \in 2 .. Len(walk) : index[i].prev[walk[n]] = walk[n - 1]
           /\ walk # <<>> => index[i].tail = walk[Len(walk)] /\ index[i].prev[walk[1]] = Nil

\* The no-hit-lru scorer's order: the targets of the cold requests, the latest
\* first, without those that were not candidates of a later cold request that had
\* several candidates.
ColdChoices(i) == {n \in 1 .. Len(trace) : trace[n].cold /\ trace[n].chosen = i}
ColdOrderExact ==
    Uses("no-hit-lru") =>
        /\ Elems(order) =
              {i \in All : \E n \in ColdChoices(i) : \A m \in n + 1 .. Len(trace) :
                  trace[m].cold /\ Len(trace[m].cands) > 1 => i \in Elems(trace[m].cands)}
        /\ \A a, b \in 1 .. Len(order) : a < b =>
              \E n \in ColdChoices(order[a]) : \A m \in ColdChoices(order[b]) : m < n

\* no-hit-lru alone spreads cold requests: among as many consecutive cold
\* decisions over the same candidates as there are candidates, no target twice.
ColdRequestsSpread ==
    (Len(config.scorers) = 1 /\ Uses("no-hit-lru")) =>
        \A n \in 1 .. Len(trace) : \A m \in n + 1 .. Min({Len(trace), n + Len(trace[n].cands) - 1}) :
            (\A k \in n .. m : trace[k].cold /\ trace[k].cands = trace[n].cands)
                => trace[n].chosen # trace[m].chosen

\* Round-robin is fair as long as the candidates do not change: over any stretch
\* of decisions with the same candidates two targets differ by at most one.
RoundRobinFair ==
    config.routing = "round-robin" =>
        \A n, m \in 1 .. Len(trace) :
            (n <= m /\ \A k \in n .. m : trace[k].cands = trace[n].cands) =>
                LET hits(i) == Cardinality({k \in n .. m : trace[k].chosen = i})
                IN \A i, j \in Elems(trace[n].cands) : hits(i) <= hits(j) + 1

\* Regret is zero for the policies that choose by score (docs/guide/cluster.md:132):
\* the counterfactual is computed from the scores and snapshots the policy saw.
RegretStructurallyZero ==
    config.routing \in {"weighted", "least-loaded"} =>
        \A n \in 1 .. Len(trace) : trace[n].regret = 0

\* Every routable instance answers cache queries, in stale mode from an entry of
\* its own, and no terminated instance does: the three tables that construction,
\* scale-up, drain and termination keep apart agree.
QueriesCoverRoutable ==
    /\ \A i \in All : IsRoutable(i) => i \in queries
    /\ \A i \in All : life[i] = "Terminated" => i \notin queries
    /\ config.delay > 0 => DOMAIN entries = queries

\* A token bucket never lets through more than its capacity and what it was
\* refilled since the start.
BucketBound ==
    config.admission = "token-bucket" =>
        Total([n \in 1 .. Len(admitted) |->
                  IF admitted[n].ok THEN Cost(admitted[n].req) ELSE 0]) + bucket.tokens
            <= BucketCapacity + RefillRate * bucket.last

\* Staleness is bounded by the intervals: when a request is routed, the view of a
\* candidate whose signals have not changed for a whole refresh interval is the
\* truth, and so is the frozen copy of a cache that has not changed for a whole
\* cache delay, also for an instance added in between.
ViewsRecent ==
    [][trace' # trace =>
          \A i \in Elems(trace'[Len(trace')].cands) :
              /\ clock - changed[i].signals >= config.refresh => view'[i] = Truth(i)
              /\ (config.delay > 0 /\ clock - changed[i].cache >= config.delay)
                    => entries'[i] = cached[i]]_vars

-----------------------------------------------------------------------------
(* What the runs check. *)

\* What the router remembers (prefix indices, cold order, token bucket) is a
\* function of the requests it has seen.
RouterExact ==
  /\ TypeOK
  /\ IndexIsRecency
  /\ ColdOrderExact
  /\ BucketBound

\* Over a history of decisions each policy does what it is for: spread cold
\* requests, take turns, take the best score.
RoutingFair ==
  /\ ColdRequestsSpread
  /\ RoundRobinFair
  /\ RegretStructurallyZero

\* A decision is made on views of every routable instance that are no older
\* than their periods.
ViewsSound ==
  /\ []QueriesCoverRoutable
  /\ ViewsRecent
=============================================================================
