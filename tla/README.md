# BLIS in TLA+

BLIS (`sim/`, `cmd/`) is a discrete-event simulator of LLM inference serving: a
cluster of vLLM-like instances behind an admission gateway and a router, fed by
a synthetic workload or a recorded trace, with tools that compare the result
with a real server, plus a client (`blis observe`) that drives a real server
with the same workload. This directory holds TLA+ models of it, the TLC runs
that check them on small instances, and proofs that TLAPS checks.

## Inventory

| Part | State | Operations | Correct when | Module |
|---|---|---|---|---|
| KV cache, `sim/kv/cache.go` | blocks with reference counts, content and hash; LRU free list; prefix index; blocks per request | look up a cached prefix, allocate a token range, release | free, used and counted blocks agree; counts equal holders; the index never lies | `KVCache` |
| Tiered and offloading KV, `sim/kv/tiered.go`, `offload_*.go`, `sim/kvtransfer` | CPU tier, secondary tiers, pins, deferrals, transfer jobs | reload, mirror, cascade, promote, poll | pinned blocks stay; a deferred request wakes; counters agree with a scan | `OffloadTiers`, `Offload` |
| Instance, `sim/simulator.go`, `event.go`, `batch_formation.go`, `queue.go`, `scheduler.go` | event heap, wait queue, running batch, token budget, progress | arrival, queueing, step (FormBatch, execute, complete), timeout, adapter loaded | every request ends once; the budget balances; a step is pending while there is work | `Engine` |
| LoRA residency, `sim/lora/resident_set.go` | resident, pinned and loading adapters | touch, pin, evict, load | pins follow requests; a reserved slot stays reserved | `Engine` |
| Gateway queue, `sim/cluster/gateway_queue.go` | bands by priority, flows by tenant, counters, request index | enqueue with shedding, gated dequeue, removal | counters equal contents; no inversion; no panic | `GatewayQueue` |
| Cluster loop, `sim/cluster/cluster.go`, `cluster_event.go` | event heap, in-flight counts, tenant and eviction trackers, tallies | arrival, admission, dispatch, routing, TTL, eviction, tick, instance turn | every request in one place and one bucket; counters exact | `Gateway` |
| Routing and admission, `sim/routing*.go`, `prefix_cache_index.go`, `admission.go`, `cluster/snapshot.go` | prefix LRU per instance, cold-request order, round-robin counter, cached views, token bucket | admit, refresh, score, route, observe | views no older than their period; order and fairness survive a changing fleet | `PrefixIndex`, `Scorers`, `Router` |
| Disaggregation, `sim/cluster/pd_events.go` | parents, transfers, reservations, sub-requests | encode, prefill routing, transfer start and completion, decode, detection of completion | INV-PD-1 to 6; blocks and transfers balance | `Disagg` |
| Placement, lifecycle, autoscaler, `sim/cluster/infra_*.go`, `autoscaler.go`, ... | nodes, GPUs, instance states, pending placements, windows | place, release, provision, drain, tick, analyse, actuate | GPUs conserved; decisions fit; a drained instance terminates once | `Fleet` |
| Workload generation, `sim/workload/generator.go`, `stream.go` | per-client producers, merge heap, survivors, cap | generate eagerly; next request lazily | the lazy source emits the eager list | `Generator`, `Stream`, `Emission` |
| Sessions, `sim/workload/session*.go`, `replay.go` | round and context of each session, the pool's queue | on completion: next round, end, refill | one outstanding request per session; contexts as recorded; all sessions end | `Sessions`, `Workload` |
| Traces, metrics and reports, `workload/tracev2.go`, `sim/metrics*.go`, `cluster/metrics.go`, `cmd/goodput.go`, `cmd/calibrate.go` | records, aggregates | write, load, replay, report, export, pair, rate | nothing changes on the way; reports that count the same thing agree | `TraceV2`, `Reports`, `Goodput`, `Calibration`, `Analysis` |
| Saturation tracer, `sim/saturation` | detectors, samples, verdicts | feed an event, finalise, vote | samples equal the definition; no accepted tuning panics | `Saturation` |
| Command line, `cmd/root.go`, `replay.go`, `kv_offload.go`, `kernel_pools.go`, `sim/bundle.go` | the deployment under construction, the trace header | settle in stages, refuse, export | replay reproduces run; the header tells the truth | `PolicySettings`, `OffloadSettings`, `Settings`, `CommandLine` |
| Observe client, `cmd/observe_cmd.go` | goroutines, semaphore, wait group, two channels, atomic counter | dispatch, send, record, serialize, drain | everything sent and recorded once; it returns | `Observe` |
| Latency and kernel models, converters, samplers, HTTP | numeric or I/O | | | not modelled |

How they interact: the cluster loop pops its own event heap and, between cluster
events, lets the instance with the earliest event take one turn; it reads the
instance's counters before and after to learn what ended. It pulls requests from
the workload's source and injects each as an event of the instance the router
chose. The instance calls its KV cache in batch formation and at step execution,
and calls back (`OnRequestDone`) into the cluster's trackers and the session
manager, whose follow-ups enter the cluster heap. The autoscaler reads the fleet
at a tick and changes it one scrape delay later. After the run the metrics are
merged, reported and exported as a trace that the other commands read. Everything
in the simulator is single threaded; what is hard there is the order of events.
The observe client is the one part with real concurrency.

Hard behaviours: preemption in the middle of a scan of the batch; timeouts of
requests that wait, run, were preempted or are between two pods; shared and
lazily forgotten cache blocks; pins that outlive what took them; transfers that
land in any order on a cache that has moved on; a queue at its capacity with a
TTL, eviction and a periodic tick; instances drained while requests are on their
way; decisions made on stale views; a lazy generator that must know what its
cap will keep; settings read in two orders; goroutines that end in any order
around a bounded channel. `PROJECT.json` lists them as hazards with the line
where each bites and the properties that watch it; those without a property, or
with one under a condition, say why.

## Modules

| Module | Models | Notes |
|---|---|---|
| `KVCache` | `kv/cache.go`, driven as FormBatch and the step loop drive it | one step per block of a call; `call` is the call in progress |
| `KVCacheProofs` | | inductive invariants and theorems: the cache's bookkeeping, room for what was checked, what the blocks hold |
| `Engine` | `simulator.go`, `event.go`, `batch_formation.go`, queue, schedulers, `lora/resident_set.go` | one step per event, and per iteration inside FormBatch and completion |
| `EngineProofs` | | inductive invariants of the event loop and of batch formation; all safety properties of the `Engine` runs |
| `OffloadTiers`, `Offload` | `offload_*.go`, `tiered.go`, `kvtransfer/station.go` | operators on tier records; one step per cache call |
| `OffloadProofs` | | inductive invariant and theorems of the offloading caches |
| `Folding` | | what a loop over a sequence keeps, for any body; instantiated by `OffloadProofs` |
| `GatewayQueue` | `gateway_queue.go` | operators on a queue record, no state of its own |
| `Gateway` | `cluster.go`, `cluster_event.go`, flow control, trackers | composes `GatewayQueue`; instances abstracted |
| `GatewayProofs` | | each queue operator keeps a good queue good; inductive invariant of the cluster loop; all properties of run `Gateway` |
| `PrefixIndex`, `Scorers`, `Router` | prefix index, scorers, routing and admission policies, snapshots | `Router` composes the other two with a small fleet |
| `RouterProofs` | | the snapshot provider, the history of decisions, what the policies remember; all properties of run `Router` |
| `Disagg` | `pd_events.go`, pool roles, parents, detectors, PD metrics | composes the cluster loop with whole-step instances |
| `Fleet` | `infra_*.go`, `autoscaler.go`, `direct_actuator.go`, drains | requests are reduced to where they are |
| `FleetProofs` | | inductive invariants and theorems of `Fleet` |
| `Generator` | `workload/generator.go` | operators: the eager plan |
| `Emission` | `cluster.RequestSource` | abstract specification: the plan, in order, then the end |
| `Stream` | `workload/stream.go` | one step per iteration of the producers |
| `Sessions`, `Workload` | `session*.go`, corpora, the simulator as environment | `Workload` composes `Stream` and `Sessions` and refines `Emission` |
| `TraceV2`, `Reports`, `Goodput`, `Calibration`, `Saturation`, `Analysis` | trace files, metrics, reports, calibrate, saturation tracer | `Analysis` takes one trace through all of them |
| `PolicySettings`, `OffloadSettings`, `Settings` | `runCmd` and `replayCmd` before the first event, the header written after the last | one step per stage; an empty result is `logrus.Fatalf` |
| `CommandLine` | | the commands side by side: `Analysis`, `Settings`, `Workload` or `Observe` |
| `Observe` | `runObserveOrchestrator`, `SessionManager`, `SessionPoolDriver` | one step per operation on shared state |
| `ObserveProofs` | | inductive invariants and theorems of `Observe` |
| `MC*` | | small instances |

**KVCache.** `freeList` is the doubly linked LRU list as a sequence; `tokens`,
`hash`, `refCount`, `inUse` are the fields of `KVBlock`; `requestMap` and
`hashToBlock` the two maps. A hash is the sequence of block contents it chains,
so equal hashes mean equal lineages, as SHA-256 is assumed to give. Batch
formation calls allocate for a chunk of a prompt or for a decode token; a failed
allocation changes nothing; preemption and completion release. The last
allocation of a request is followed by its release, as `processCompletions` does.

**Engine.** `eventQ` holds events with the delay from now, so a run that goes on
for ever has finitely many states and `RunEnds` is meaningful. `clock` exists
only for deadlines and stops at `Late`. Queueing, step and load times are any
member of the sets given, in place of the latency model. Prefix caching is off:
the cache reduces to tokens stored per request, with the same block arithmetic.
Fractional speculative credit is kept as an integer over `SpecScale`.

**Gateway.** A configuration record `conf` chosen in `Init` selects dispatch
order, fairness, capacities, TTL, eviction, budgets and latencies, so that one
run covers several. An instance is a stage per request (injected, waiting,
running). The cluster heap is drained up to the current time before any instance
acts, as the loop does; in between, any instance may act in any way, so the
results do not depend on scheduling inside instances or on the routing policy.
`ledger` is a history variable: which terminal buckets counted a request.

**Observe.** Arrival times are left out: pacing ends at any time and the choice
between a follow-up and a pre-generated request goes either way. A session ends
by an error, its last round, or (budget, horizon) at any completion. The two
deferred calls of a dispatch goroutine are one step. A workload is a source, a
pool and the sessions the handler manages: closed-loop sessions send their first
round from the source, open-loop ones all their rounds (`generator.go:474-488`),
and a workload may mix both, so `seen` (`seenSessions`) decides who is counted.
A lazy source that fails half-way, a fatal error, is left out.

**Offload.** A block holds one token, so a key is the tokens up to its block.
`kind` selects the chain with secondary tiers, the chain of a CPU tier alone, or
the older two-tier cache. One call on the cache is one step; `phase` is how far
the instance's step is. No clock: a job in service lands at some poll, in any
order, and an episode may exceed the deferral limit at any poll. Requests may be
withdrawn (timeout) at any moment between steps.

**Router.** Instances take, run and finish requests between routing decisions,
one is added and one drained at any moment. Views are refreshed per field and
period, the cache queries on their own clock. Scores are integers.

**Disagg.** Time is relative, as in `Engine`; delays may be negative since the
code can arm a timeout in the past. Instances are those of `Engine` with a block
of one token, no prefix caching and ample batch limits, so a whole step is one
action and progress is the number of blocks held. A pod may stop being routable
at any moment. The end-of-run correction and projection of the metrics are
operators that `ReportMatchesCounter` compares with the counters in every state.

**Fleet.** Time is counted in autoscaler intervals; whatever has a sampled delay
falls anywhere between two ticks. The operator calls (`ProvisionNode`,
`DrainNode`, drain an instance under any of the three policies) come at any
moment. Request timeouts are left out: no timeout event is in an instance's heap
here.

**Generator, Stream, Workload.** A client's random draws are given sequences, the
same for both generators, as the code derives both from one seed. `Stream` has
the first pass over clones of the producers, the merge, and live sessions;
`LazyIsEager` is `Emission` with the plan of `Generator` for `plan`. Where a
draw fails the eager path returns the error; the lazy path has emitted requests
by then, and `ErrorSurfaces` says that the caller finds it. `Sessions` labels
tokens by their origin so that a context can be compared with the recording.

**Analysis.** (with `Settings`, `Workload` and `Observe` in run `CommandLine`) The replay is a first-come-first-served engine with step durations
from a set: the reports depend on when and in which order things happen, not on
why. Percentiles, ratios and slopes are exact rationals or compared on squares;
the code's floating point is not modelled.

**Settings.** Options are partial records. Each stage maps the deployment to the
set of deployments it may continue with. The header is written by `blis run`,
read by `blis replay` under the same flags (with or without the offload file),
and written again; traces of `blis observe` and `blis convert` come from outside.

## Runs

| Run | Expect | States, time | Shows |
|---|---|---|---|
| `KVCache` | pass | 1.63M, 60 s | three requests, one the next turn of another's session, four blocks of two tokens: sharing, recycling, preemption in every order |
| `EngineFCFS` | pass | 74k, 10 s | four requests, chunked prefill, deadlines, two adapters on one slot, a cache that holds any one request but not two; safety, and that the run ends |
| `EnginePriority` | pass | 16k, 2 s | priority scheduling and preemption with speculative decoding under a model length; victims anywhere in the batch |
| `Gateway` | pass | 426k, 50 s | four requests, two tenants, two tiers, two instances (one may load late), five configurations |
| `ObserveBlocked` | violation | | two closed-loop sessions, one slot: the serializer blocks on `followUpCh` after the loop has ended |
| `Offload` | pass | 283k, 75 s | four requests, three GPU blocks, two CPU blocks, one secondary tier, the three cache kinds |
| `OffloadReload` | violation | | the same instance: a reload overwrites the prefix that the request it is for was matched with |
| `Disagg` | pass | 100k, 145 s | three requests, a prefill pod, a pod of both roles, an encode pod, one pod scaled down at any moment; deadlock is checked |
| `DisaggStranded` | violation | | two transfers that reserve all of a decode pod's cache block each other for ever |
| `Fleet` | pass | 345k, 115 s | three start-up instances of two GPUs, nodes they fit and nodes they must span, one without room; three ticks, two operator calls |
| `Router` | pass | 1.16M, 65 s | every routing policy and scorer with every admission policy over stale views and a changing fleet |
| `CommandLine` | pass | 469k, 180 s | observations with two slots and an interrupt at any moment: closed-loop sessions around a plain request, a closed-loop session among the rounds of an open-loop one, a pool of three; seven two-client specs with every combination of draws and several caps; a two-session corpus replayed alone, pooled and cloned; refinement and termination; five traces through all the tools under nine tunings; twelve invocations that build and twenty-seven with one thing wrong, three imported traces, three commands in a row |

| Run | Properties, with their named parts |
|---|---|
| `KVCache` | `TypeOK`, `Conservation`, `RefCountExact`, `IndexSound`; `AllocationSound` (`PopNeverFails`, `IndexedHashesAreLineages`, `BlocksHoldProgress`); `ContentKept` (`SharedBlocksAreReadOnly`, `OnlyRecyclingForgets`); all proved too |
| `EngineFCFS` | `NothingLeaks` (`RequestConservation`, `BlocksConserved`, `PinsExact`, `SlotReserved`); `EventsArmed` (`OneStepPending`, `WorkConserving`, `DeadlineArmed`); `BatchSound` (`ComputedIsProgress`, `KVBacksProgress`, `Phase1Complete`); `RunEnds` |
| `EnginePriority` | `ScanSound` (`NobodySkipped`, `BudgetBalanced`, `LandsOnBoundary`) |
| `Gateway` | `QueueSound` (`QueueCountersExact`, `QueueNeverPanics`, `TickWhileWaiting`); `EndsCountedOnce` (`OneBucketEach`, `ShedAccounting`); `TrackersExact` (`InFlightExact`, `TenantCountExact`, `TrackerSound`); `NoPriorityInversion`; all proved too |
| `Offload` | `TiersExact` (`GPUConserved`, `CPUTierExact`, `PinsAreTransfers`, `StationWorkConserving`) and `WriteThrough`, proved too; `DeferralsSound` (`NobodyHeldUp`, `DeferralEnds`) |
| `Disagg` | `HandoffExact` (`BlocksAccounted`, `TransfersBalanced`, `SlotsExact`); `ReportedOnce` (`PDConservation`, `StagesInOrder`, `SessionToldOnce`, `ReportMatchesCounter`); `HandoffEnds` |
| `Fleet` | `FleetExact` (`GPUsMatchInstances`, `UniformSpan`, `PendingExact`, `DrainArmedOnce`, `InFlightExact`); `DecisionsSound` (`InventoryNeverHigh`, `DecisionFits`, `OneDecisionOutstanding`); `LifecycleSound` (`LifecycleForward`, `DrainEnds`); all but `DrainEnds` proved too |
| `Router` | `RouterExact` (`IndexIsRecency`, `ColdOrderExact`, `BucketBound`); `RoutingFair` (`ColdRequestsSpread`, `RoundRobinFair`, `RegretStructurallyZero`); `ViewsSound` (`QueriesCoverRoutable`, `ViewsRecent`); all proved too |
| `CommandLine` | `ChannelsSound` (`ActiveIsOutstanding`, `NoSendOnClosed`) and `NothingLeftBehind`, proved too; `Returns`; `LazyIsEager`; `GenerationSound` (`AssemblyMatches`, `ErrorSurfaces`, `NumRequestsBound`); `SessionsSound` (`OneRoundAtATime`, `InputsAsRecorded`, `ReExportFaithful`, `PoolSteady`); `SessionsGoOn` (`ContextExtends`, `SessionsEnd`); `ReportsAgree` (`CompletionOrderExact`, `PartitionsExact`, `PercentilesAgree`, `SessionReportExact`); `TracesFaithful` (`TraceRoundTrip`, `ReplayKeepsTrace`, `TracerInputsAgree`); `CalibrationExact` (`GoodputsAgree`, `PairsAccounted`, `CalibrationSound`); `DetectorsExact` (`DriftSamplesExact`, `PeakExact`, `DriftScoreMatchesLevel`, `LabelIsPlurality`, `TuningNeverPanics`); `ReplayParity` (`ReplayReproducesRun`, `HeaderTellsTruth`); `DeploymentSound` (`OverridesReported`, `EnginesFit`) |

The first invariant of a run also has the module's type invariant among its
parts. What each part says, and the code it is about, is in the comment above its
definition. Every property of a passing run has a mutant of the code in the
module (marked `mutant`) that TLC shows to violate it.

**Bounds.** The instances are the smallest in which each hazard occurs: a cache
one block short for two requests (preemption), a later turn that shares a block
with an earlier one (shared blocks), one slot for two adapters (eviction and
reservation), a queue depth of two for four requests with two of one flow
(tail truncation), a tick interval equal to the clock's unit, `Horizon = 2`
(arrivals, TTL and ticks coincide and follow one another). `Late = 6` (`Engine`)
and `Late = 9` (`Disagg`) are beyond every deadline. In `Gateway` no event past
`Horizon` is handled, as in the loop of the cluster, so time is bounded by the
code's own rule. `SYMMETRY AnyInstance` is sound there: instances are
interchangeable and no liveness is checked. `Offload`: a CPU tier of two blocks
under prompts that push each other out of it, one read and one write slot per
tier, so jobs queue. `Disagg`: caches one block short of two requests, one drain
(`MaxDrains`). `Fleet`: `MaxTicks = 3` lets a window fill, a decision be
actuated late and the next tick see it; `MaxAuto = 1` added instance, `MaxOps = 2`
operator calls. `CommandLine`: caps of two and three cut a session in half, windows
overlap or are out of order, `MaxFaults = 1` failed, cut or refused request.
`Router`: an LRU of two prefixes for three, `Horizon = 2` ticks of refresh.
In `CommandLine`, too, `MaxCommands = 3` is a run, its replay, and the replay of that.

**Deadlock.** `KVCache` and `Disagg` check it: the cache never stops, and
`Disagg` says with an action of its own when a run is over. The others say
`CHECK_DEADLOCK FALSE` because they really end: when the event heaps are empty,
when the bounds on ticks, arrivals or commands are used up, or when the command
has returned.

**Fairness.** All of it comes from one fact: `Run` loops while a heap holds an
event. `Engine`, and `Disagg` in the run `DisaggStranded`: weak fairness of the
loop. `Disagg`, `Fleet`, `CommandLine`: the same spelt out, either the heaps are empty
again and again or events are handled again and again, which costs TLC less than
an `ENABLED`. `Offload`: the pending step of an instance that has work is
executed, and the oldest transfer of a tier lands (strong fairness: service times
are finite but a poll may be between two of them). `Observe`: weak fairness of
main, of the serializer and of the dispatch goroutines together, since the Go
scheduler runs what can run and every HTTP exchange ends, at the latest by the
client's timeout. Nothing forces the user to interrupt, the operator to act or a
request to fail.

**Refinement.** `Workload!LazyIsEager` is `Emission!Spec` under the mapping
`emitted`, `finished` and the eager plan: every step of the lazy source emits
the next request of the plan or stutters, and the source ends.

## Findings

`DisaggStranded` (`NeverStranded`): two transfers can reserve all of a decode
pod's cache before either request decodes. FormBatch fails to get the block of
the first token (`batch_formation.go:333`) and breaks; no batch runs, so nothing
can be preempted, and the pod forms an empty batch for ever. The comment at
`batch_formation.go:325-327` says that the break "is safe and does not strand the
request".
`HandoffEnds` therefore speaks of the transfer only.

`ObserveBlocked` (`SerializerNotBlocked`): with more closed-loop sessions than
`--max-concurrency`, main can read a count of zero and leave the loop while an
earlier wakeup fills `followUpCh`. The serializer then blocks on the last one
(`observe_cmd.go:1086`), main waits for the serializer (1260), and no trace is
written, although the channel is "buffered to avoid blocking serializer" (1050).
An interrupt makes it likelier. Corpus mode and, by default, `--concurrency`
raise the limit to the number of sessions. `Returns` says that this is the only
way to hang.

`OffloadReload` (`MatchedPrefixKept`): a new request is matched with a cached
prefix whose blocks are free, and the blocks behind that prefix are readable in
the CPU tier. `consultAndReload` pops the head of the free list for each of them
(`offload_chain.go:495`, `tiered.go:376`), which may be a block of the matched
prefix: it is overwritten, the prefix recomputed afterwards is shorter than the
one the request was matched with, not "now longer" (`offload_chain.go:421`), and
the code allocates "as given" (`offload_chain.go:450`). The request then holds, for
its first token, a block that carries another prefix, and does not compute what
it lost. With a prompt that repeats tokens one block can even be twice in its
list, which `tiered.go:286-289` takes to be impossible; reference counts keep the
free list right, and `ReleaseKVBlocks` is modelled block by block for that reason.

Remarks met while modelling and not kept as runs.

*Cache and instance.* A fully cached prompt of whole blocks is admitted without
claiming its blocks (`cache.go:256`, against the comment at 262-264). Under
priority preemption a request that evicts itself in phase 1 ends the phase for
everybody behind it (`batch_formation.go:215`, against `invariants.md:291`). An
adapter pinned by a preempted request can block the head of the queue for ever
(`simulator.go:988`, against the comment at 992-993). A request whose prompt fits
and whose output does not is restarted for ever (`simulator.go:536`, against
`rules.md:258`). A block that decode completes token by token is hashed and
indexed (`cache.go:295`), although the comment at `cache.go:353` keeps output
tokens out of prefix caching; the hash chain of a fully cached prompt restarts in
the middle (`cache.go:298`); decode stores one token per call whatever the range
(`cache.go:229`), so with speculative decoding blocks fall behind progress; the
"cache accounting bug" message at `simulator.go:1184` is reachable by plain cache
pressure.

*Gateway.* Dispatch order `fifo` goes by band first (`gateway_queue.go:433`),
although `admission.md:216` says that it picks "the globally-earliest arrival
across all bands"; `NoPriorityInversion` exempts it. A victim still on its way to
its instance is dropped from the eviction tracker without being evicted.

*Observe.* A session is counted once (`observe_cmd.go:1150`) and discounted after
every completion without a follow-up (1083-1085). An open-loop session of several
rounds, mixed with closed-loop clients, so lowers the count below what is
outstanding, and the loop can end (1214, "no more requests and no sessions")
while a closed-loop session owes a follow-up, which is then never sent.
`ActiveIsOutstanding` and `NothingLeftBehind` claim the exact count and the
complete drain only while no such round was taken (`LaterRounds = {}`).

*Offload.* A running request can be deferred after a preemption in the
same step. A commit that fails half-way leaves a queued request holding blocks.
The command line accepts `blocks_per_chunk` of two or more and a CPU tier smaller
than a block, and the constructor panics (`offload_chain.go:113-134`).

*Disaggregation.* A timeout armed in the past (`simulator.go:674`) lets the clock
go back (`invariants.md:136` says it never does). `DroppedAtDecodeKV` is always
zero (`pd_metrics.go:48-51`). `pendingPrefillCompletions` keeps the entry of a
prefill that timed out. Nobody tells a session of prefill timeouts, routing
rejections and transfer drops, although INV-11 says that "no session is silently
abandoned" (`invariants.md:430`). `SessionToldOnce` asks for no such silence: it
says that a session is told at most once, not too early, and of every other end.

*Fleet.* The oldest instance is found by sorting names, so `autoscale-…` drains
before `instance_…` (`direct_actuator.go:131-158`). With no demand every replica
is drained. An idle instance scaled down never terminates, and one with a request
still on its way terminates and then serves it (`cluster.go:873`). GPUs freed by
a drain do not retry pending placements. A redirected request's timeout stays armed
on its old instance. Ticks stop before all work is done (`cluster.go:98`).

*Workload.* A clone's cache-buster is lost after round 0 when its session shares a
prefix (`session_pool.go:40-68`, `session.go:225-243`). A refused request never
reaches the session manager, and the pool loses a slot. `specHasConcurrencyClient`
looks at `spec.Clients` only, not at cohorts. A re-exported accumulating corpus
with outputs cut short is faithful closed-loop only.

*Router.* The round-robin counter and the cold-request order are shared by all
models and pools (`cluster.go:2199`, `pd_events.go:34`). `RecordBlocks` touches a
prefix root first, so eviction drops roots before leaves.

*Reports.* A record with a negative latency is counted as matched and as
unmatched (`calibrate.go:423,442`) and twice in `NumRequests` (711), at which
`CalibrationExact` does not look. Goodput of a simulated run differs
between `run` and `calibrate`, and real inter-token gaps of zero are kept by one
and dropped by the other. The warm-up factor can make TTFT exceed E2E. Fewer
than three pairs that match perfectly are rated poor. `detectHOLBlocking` cannot
fire with two instances (`cluster/metrics.go:268-301`). A tuning with `slope_k`
below one is accepted.

*Settings.* `--admission-policy tier-shed` without a bundle runs with
`TierShedMinPriority` 0, though `docs/reference/configuration.md:185` says 3.
Replay sizes an offload block from the offload's block size, run from the GPU's
(`replay.go:346` says they agree; they do, since the two must be equal unless the
file says otherwise). Replay refuses flags without effect that run warns of.

## Proofs

**The cache's bookkeeping.** `KVCacheProofs` proves, for any number of blocks,
block size, set of requests and token sequences (`KVAssumption`: positive sizes,
finitely many requests, nonempty prompts):

- `KVTypeOK`, `KVConservation` (INV-4), `KVRefCountExact`, `KVIndexSound`, from
- `KVInvariant`: `Spec => []KVInv`.

`KVInv` is `TypeOK /\ Conservation /\ IndexSound /\ IndexFull /\ Ownership /\
RefCountExact`. The listed properties are not inductive one by one:

- releasing a block decrements its count, which stays a natural number only if
  the releaser is among its holders (`RefCountExact`, for `TypeOK`);
- the count equals the holders only if a request never lists a block twice and
  the blocks a call is about to claim are not already its own (`Ownership`);
- claimed blocks are distinct because distinct hashes of a chain are registered
  to distinct blocks (`IndexSound`), and appending to a request's last, partly
  filled block cannot touch an indexed one because indexed blocks are full
  (`IndexFull`);
- a block taken from the head of the free list is free by `Conservation`.

Each action has a lemma, with a step per conjunct it can disturb; lemmas on
sequences without repetition (append, tail, front, removal) carry the free list.

**Room and contents.** The second half of `KVCacheProofs` adds two inductive invariants to `KVInv`.

- `RoomInv`: a block with room left has one holder (`Private`), what a call is
  about to claim is full (`CachedFull`), no listed block is empty or overfull
  (`Filled`), a request that does not run has no progress (`AtRest`), and
  `Budget`: what an allocation still has to store fits into the room of its last
  block and k new ones, and k and the claims off the free list together do not
  exceed it. The pre-check establishes `Budget` with the ceiling division of the
  code, and a claim, a fill and a pop each give up exactly their part of it. So
  `KVPopNeverFails`: the rollback of a failed pop, which the code has, is dead. And
  `KVContentKept`: only a block with one holder is ever written, and an indexed hash
  is lost only when its block is taken from the head of the free list.
- `ContentInv`: the i-th block of a request holds the i-th part of its sequence
  up to what it has computed, under the hash of the sequence up to there if it is
  full (`HoldsStored`); the blocks a call is about to claim continue that
  (`Claims`); and every indexed hash is the lineage of its block
  (`IndexedHashesAreLineages`). Hence `KVAllocationSound`, for prompts that end inside
  a block (`PromptsEndInsideABlock`, as in the run). The premise is needed: a
  prompt of whole blocks that is cached as a whole is admitted without its
  blocks (`cache.go:256`, see the remarks), and `BlocksHoldProgress` fails then.

**Observe.** `ObserveProofs` proves, for any mix of closed-loop, open-loop and pooled
sessions, any concurrency and warm-up count, with or without the interrupt
(`ObserveAssumption`: `WellFormed` is what the generator and the corpus loader build):

- `ObserveChannelsSound` from `CountInv`. The counter plus the later rounds taken of
  sessions seen before is a sum over the main loop's queues, the goroutines and both
  channels (`Counted`); each action moves a request from one term to another, or
  both sides together. `Shape` says who can still be about to report when the channel is
  closed: nobody, because the main goroutine waits for the workers first.
- `ObserveNothingLeftBehind` from `PlaceInv`, which is `OnceInv` (a request is at one
  place at a time, what a session sends next has never been seen, and the records
  and the goroutines still to record share out the dispatch indexes after the
  warm-up) and `SessionInv` (an active session is in the pool or has a request
  somewhere, and a pool is left over only while something can still refill from
  it; so the loop, which leaves when queues and counter are empty, leaves
  nothing, unless a later round has lowered the counter).

**Gateway.** `GatewayProofs` proves the four properties of the run, among them the action property `NoPriorityInversion`, for any requests,
tenants, tiers, instances, arrival and loading times and configurations
(`GatewayQueueAssumption`, `GatewayAssumption`: finite sets, positive tick interval and
concurrency, tenants numbered as their names sort).

- The queue first. `GoodQueue(q, n)` is the consistency the run checks (lengths
  and index equal the contents) and what it rests on: no request is queued twice,
  a flow holds its own tenant's requests of one tier in the order of their
  sequence numbers, and no number exceeds `n`. One lemma per operator shows that
  it is kept and what becomes of the set of queued requests. Two of them say why
  a panic is unreachable: the victim of shedding is the last of its flow, because
  it has the highest number of its tier (`VictimIsTail`), and a band that dequeue opens
  has a flow to pick from (`Counted`). `LeastNatural`, from the well-foundedness of
  the naturals, gives the minimum that each CHOOSE in a policy takes.
- `GatewayInv` counts the events of the heap by kind. A request is carried by one
  event, queued, at an instance or counted in one bucket: the four numbers add up
  to one (`OnePlace`). The ticks in the heap number one if `tickPending` and none
  otherwise, and it is set while anyone waits (`OneTick`), so no handler can lose
  the tick. A request tracked or about to be evicted is sheddable and at an
  instance, never tracked and about to be evicted, and evicted at most once
  (`Tracked`, `Evicting`). Every counter is the size of the set it counts.
- Pushing or popping changes a number of events by one or not at all, in whatever
  order the heap is. Its order matters once: an eviction is scheduled for the
  present, events never lie in the past (`Heap`), and an instance acts only when
  the next event is later. Hence nothing happens between the choice of a victim and
  its eviction (`NoEvictionNow`), and the code may drop the victim from its tracker
  early. Without this `Evicting` fails: the victim could complete first.
- `NoPriorityInversion` follows from `OnlyDispatchRoutes` (only the two handlers
  that dispatch turn a queued request into a routing event) and from what the
  dequeue chooses, with `EnqueueStays`: neither shedding nor the newcomer moves
  anyone who waits.

**Engine.** `EngineProofs` proves the safety properties of both `Engine` runs for any
requests, adapters, cache, batch limits, latencies, scheduler and preemption policy
(`EngineAssumption`: finitely many requests, steps and loads that take time, a
model length that fits the cache, no deadline beyond `Late`). `EngineInv` has nine
layers, each inductive given the ones before it:

- `Shapes` types the state and says the heap is sorted; `Scan` that the cursor is
  in the batch while a victim is sought, so that there is a request to serve.
- `Pendings` counts step and load events: one step exactly if `stepEvent` is set and
  no step is in progress, one load exactly for the adapter in flight, and whenever
  anyone waits at rest one of them is there. Each handler pops one event and its
  last call puts back what is missing.
- `Places` says a request is travelling, waiting, running or done, once, and
  `Deadlines` that its timeout is pending once, at its deadline. This needs the
  other direction too: a timeout still pending is for a request that waits, runs or
  has completed, or `TimeOut` could meet a request on its way and count it twice.
- `Counts`, `Room`, `Slots` and `Pins` are the conservation laws: `metrics`, blocks,
  resident adapters, pins. `Room` counts blocks as the size of a set of units, one
  per block, of which an allocation or a release changes the share of a single
  request. `Pins` also says who may hold a pin (those who wait or run, and all that
  run), so a release decrements a positive count and eviction, which spares
  pinned adapters, cannot take one away.

These give `EngineNothingLeaks` and `EngineEventsArmed`. As in `Gateway`, what is said of
the heap is said in numbers of events of a kind; only `Deadlines` (`RestDue`) and the
popping of a past event need its order. `BatchInv` adds how far each request is:

- `Advancing`: progress fits the completion boundary and the model length, also with
  the tokens granted but not executed yet, and `computed` is progress plus these while a
  step is formed. It needs that nobody in the batch is finished (`Sifted`, for the
  scan of `processCompletions`), because phase 1 grants a decoding request a token
  without looking at its output length.
- `Shared`: budget and grants make up the batch limit; the victim's share returns.
- `Swept`: everyone before the cursor is served, nobody from it on, and what
  `preemptForTokens` holds in `want` is still right for the request at the cursor after
  the batch has shifted (`SidesKept`, `CursorKept`). That no one after the cursor has
  tokens is what makes a grant new and `Shared` exact.
- `Backed`: what is computed is stored, without speculative decoding.

Hence `EngineScanSound` for every configuration. `EngineBatchSound` has two premises, and
TLC finds it false without either: no speculative decoding (a decode allocation stores
one token a step, so `KVBacksProgress` fails) and preemption policy "fcfs" (a victim
by priority that is the request itself ends phase 1 for those behind it, so
`Phase1Complete` fails); the run `EngineFCFS` meets both. `EngineComputedIsProgress` is the
part that needs neither.

**Offload.** `OffloadProofs` proves `TiersExact` and `WriteThrough`, for any prompts,
output lengths, GPU and CPU blocks, secondary tiers, servers and batch limit, and each
of the three caches (`OffloadAssumption`, `TierAssumption`: nonempty prompts, caches
of a block or more, a server per tier). `OffloadInv` says of the queues that nobody is
in two of them or twice in one (`QueuesOk`), of the requests that only those queued
or running hold blocks (`HoldersOk`), and of the cache (`CacheOk`):

- `GpuOk`: the free list has no block twice and is exactly what no request holds.
  It does not say that requests hold different blocks, nor that a request holds a
  block once: blocks are shared, and after a reload one may be in a list twice
  (`OffloadReload`). So a release gives a block back when the last entry for it goes.
- `CPUOk`: the counters of the CPU tier are the sizes of what they count, and the LRU
  list is the blocks that are ready and unpinned, each once. Hence the gate
  (`Gate`) lets a promotion in only if evicting from the head of the list makes
  room for all of it, and what is evicted is neither pinned nor being read into.
- `TierOk`: the servers of a tier are free or have a job, none is free while a job
  waits, and a write job moves one block. `Assign` starts a job per turn, so as
  many turns as there are servers are enough.
- `PinsOk`: the write jobs of a block are as many as its pins, for every block, also
  one the CPU tier no longer has; a slot not ready has a read job. Starting a job
  changes neither number (`SameLoad`); `cascade` adds one write job and one pin per
  tier, and a write job that lands takes both away.
- `Through`: what any tier has, every secondary tier holds or is being sent. In
  the middle of `cascade` it holds for the tiers already served (`ThroughBut`). A
  block leaves the CPU tier only unpinned, so with no write job of its own left:
  by then every secondary tier holds it.
- `DeferOk`: the run a deferred request waits to promote is held by the tier it is to
  be read from, and has no key twice: the gate counts entries, the tier slots.

The calls loop over blocks, keys, tiers or requests; each loop is a FoldLeft, and
`Folding!Loop`, instantiated with its body and what it keeps, is the induction along it.
The module takes body and invariant as constant operators, which is the form of
induction the provers can instantiate. `OffloadInv` was checked by TLC on the
instance of run `Offload` and on others with two secondary tiers, one CPU block or no
read servers before it was proved.

**Fleet.** `FleetProofs` proves both invariants of the run and the safety half of
`LifecycleSound`, for any pools, nodes, instances, requests, windows and operator
calls (`FleetAssumption`: finite sets, instances of at least one GPU, percentages in
order). `FleetInv` is the shape of the state and seven conjuncts:

- `Matching`: a GPU is allocated to an instance exactly while that lives, and the
  allocation is what the instance was given; `Fitting`: what it was given has its
  size and is on one node or on whole nodes of one pool. `PlacementFits` shows that a
  placement hands out free GPUs, as many as asked, for both strategies.
- `Waiting`: the pending list is exactly the start-up instances that are not built,
  each once. Start-up, scale-up and the retry of a ready node place one instance
  after the other, the retry on a list that changes under it, so each has an
  invariant of its own along the recursion (`StartupStarted`, `AdditionsAdded`,
  `RetriesPassed`).
- `Loads`, `NewInOrder`: load events are those of the instances that load, and
  added instances are built in the order of their identifiers, so that the next
  identifier is unused when a scale-up takes it.
- `Armed`: a draining node has its callback while GPUs are allocated on it and its
  drained event when none is, never both. The release of the last GPU, whichever
  handler does it, is where one becomes the other.
- `Counted`: an in-flight count never exceeds the requests on board, and equals
  them on an instance no immediate drain was applied to.

`FleetFleetExact` follows. `InventoryHolds` shows that the inventory the analyzer
reads is never above the GPUs that are free on ready nodes: what it subtracts per
pool are those of every instance that holds some, on draining nodes too. `Spaced` bounds
the time since the last decision of either direction by its actuation, which gives
`OneDecisionOutstanding` and so `FleetDecisionsSound`, for windows no shorter than
the scrape delay (`PromptActuation`, as in the run). The premise is needed: with a
window of 0 and a delay of 2 intervals TLC finds a second decision made from the
fleet that the first has not changed yet. `FleetForward` takes each handler
through the order of life-cycle states.

**Router.** `RouterProofs` proves `ViewsSound`, `RoutingFair` and `RouterExact` for any
instances, requests, prompts, intervals, capacities and valid configurations (`RouterAssumption`,
`ScorerAssumption`, `IndexAssumption`).

- `Readable`, for `RouterViewsSound`: the views are of the constructed instances, the
  cache queries of those not terminated, the frozen copies too when there are any
  (`Members`); what was read after the last change is the truth (`Views`, `Copies`).
  The comparison with the time of the last change is strict, since a change and a
  refresh can fall into the same tick in either order. A change at `changed` makes
  an interval of quiet end in a refresh or in a view younger than the change.
- `Loads`: the exact in-flight count covers what an instance holds, and every view
  is of counts. So each score is a whole number of a known range (one lemma per
  scorer), the weighted sum has a maximum, and the target reaches it: no regret.
- `History`, for `RouterRoutingFair`: every decision took the candidate its policy
  names (`Taken`), the round-robin counter is the number of decisions, and under
  no-hit-lru alone the targets of the present stretch of cold decisions over the
  same candidates are the head of the cold order, latest first, all different
  (`Spread`). A cold decision takes the head of the ranking (`ColdTarget`): a
  candidate the order does not hold, or the last one it holds. As long as the
  stretch is shorter than the candidates, that is none of its targets
  (`ColdQueued`).
- `TurnsFair`: among consecutive numbers two residues differ by at most one in how
  often they occur, by an injection of the turns of one target but the last into
  the turns of the other.
- `Memory`, for `RouterMemoryExact`, adds what the policies remember. The prefix index
  of an instance `Represents` the blocks sent there: there is a sequence `w`, none
  twice, such that head, tail, `prev` and `next` go through `w` (`Chained`), the table
  holds its elements, and `w` is the order of use, latest first, up to the capacity
  (`Recent`). `pushHead`, `removeNode` and with them `touch` act on `w` as putting in
  front and taking out do (`PushChained`, `RemoveChained`, `TouchHolds`), including the
  block that is head, tail or both. `Recent` also says why a block is missing: the list
  was full of blocks used after it, which the eviction of the tail keeps true
  (`BehindSince`, `RecentStep`). `WalkHolds` shows that the walk of the property
  finds `w`.
- `ColdOrder`: an instance is in the order exactly when a cold decision chose it and
  none after that dropped it, and of two in it the one in front was chosen last. The
  pruning of `no-hit-lru` keeps the order of what it keeps (`OnlyOrder`).
- `Bucket`, `Amounts`: tokens spent and left are no more than what was there and what
  was refilled up to `bucket.last`; no counter exceeds the number of requests.

Recursive functions over sequences (`Only`, `Total`) are reasoned about with
`StepsInduction` and `StepsDefined`, an induction along a sequence from the least
counterexample.

**Model-checked only.** Liveness and `ENABLED` are outside the prover's reach
(`RunEnds`, `Returns`, `DeferralsSound`, `HandoffEnds`, `DrainEnds`,
`SessionsGoOn`, `LazyIsEager`), and so is what a recursive operator computes for
every input (`Reports`, `Calibration`, `Saturation`). Induction
over one's own formula is possible where a least counterexample can be named, as
in `LeastNatural` and `Folding`. The safety
properties of the modules not named above are checked by TLC only; the ones worth
proving next are on the plan below.

## Not modelled

- Latency and kernel models, queueing-model analyzer, distributions and samplers
  (`distribution.go`, `arrival.go`): floating-point functions. Where control
  depends on them the model chooses from a set.
- `servegen.go`, `otel_convert.go`, `weka_convert.go`, `inference_perf.go`,
  `convert.go`: one-way conversion of foreign files, no state and no second
  definition to compare with. Imported traces enter `Settings` as given.
- HTTP, streaming and prompt synthesis in `observe.go` and `observe_cmd.go`,
  catalogue and file loading, flag parsing and help: input and output.
- LoRA cost formulas (except the static reservation, in `Settings`), contention
  of transfers (any duration of a set), token contents (labels and lengths).
- Inside modelled parts: prefix caching in `Engine` and `Disagg` (`KVCache` has
  it); decode sub-requests in `Engine` (`Disagg` has them); KV deferral in
  `Engine` (`Offload` has it); sessions, drains and autoscaling in `Gateway`
  (`Workload`, `Fleet`); request timeouts in `Fleet` (`Engine`, `Disagg`); runs
  that end at a horizon of zero; workload flags, LoRA workload checks and the
  autoscaler's windows in `Settings`.
- Four hazards have no property: a bound on round-robin starvation needs arrivals
  that go on for ever; the order of paced follow-ups needs arrival times; pinned
  adapter slots block each other only with more adapters than `Engine`'s runs have;
  and speculative decoding is off where blocks are compared with progress.

## Plan

Modelling along the first plan is done, with the abstract specification that pays:
the eager plan for the lazy source. An abstract block pool for `KVCache` would
restate `Conservation`, which is proved. What is left is proof: `HandoffExact` and
`ReportedOnce` for `Disagg`, whose `BlocksAccounted` shares `Engine`'s argument.
