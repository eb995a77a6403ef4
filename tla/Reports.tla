------------------------------- MODULE Reports -------------------------------
(***************************************************************************)
(* What a run writes into its metrics and how they are reported: the        *)
(* recording of sim/simulator.go on every instance, the merge of            *)
(* ClusterSimulator.aggregateMetrics, the completion order of               *)
(* sim/metrics.go, the breakdowns of sim/cluster/metrics.go and the goodput *)
(* of cmd/goodput.go.                                                       *)
(*                                                                          *)
(* The engine is reduced to what the metrics see: queues served first come  *)
(* first served in steps of any duration of StepTimes, one token per step.  *)
(* A request is an index into reqs; texts are numbers, 0 the empty one.     *)
(***************************************************************************)
EXTENDS TraceV2

CONSTANTS
    NumInstances,
    MaxBatch,             \* requests one instance runs at a time
    Capacity,             \* prompt tokens the KV cache can hold at all
    StepTimes,            \* step durations
    OutputTokenTime,      \* OutputTokenProcessingTime
    PostDecodeOverhead,   \* PostDecodeFixedOverhead
    DefaultHorizon,       \* 600 s: the horizon when every request arrives at 0
    DefaultClass          \* the class "default", standing in for an empty one

ASSUME ReportsAssumption ==
    /\ NumInstances \in Nat \ {0}
    /\ MaxBatch \in Nat \ {0}
    /\ StepTimes \subseteq Nat \ {0}
    /\ OutputTokenTime \in Nat /\ PostDecodeOverhead \in Nat
    /\ DefaultHorizon \in Nat \ {0}

VARIABLES
    reqs,             \* the requests of the run
    live,             \* their state: [state, inst, first, ttft, itl, toks]
    clock,
    horizon,
    queue, batch,     \* per instance: the wait queue and the running batch
    busy,             \* per instance: when its next step may start
    metrics,          \* per instance: sim.Metrics
    injectedByClass,  \* ClusterSimulator.injectedByClass
    rejected,         \* requests no instance was given
    order,            \* ghost: completions in the order they happened
    agg               \* aggregateMetrics, after the run

reportVars == <<reqs, live, clock, horizon, queue, batch, busy, metrics,
                injectedByClass, rejected, order, agg>>

Instances == 1..NumInstances
Indices == DOMAIN reqs
Id(i) == reqs[i].id
Class(i) == reqs[i].rec.slo_class

NewMetrics == [completed |-> 0, timedOut |-> 0, dropped |-> 0, outTokens |-> 0,
               queued |-> 0, running |-> 0, ended |-> 0, ttftSum |-> 0,
               completions |-> 0, requests |-> <<>>, ttfts |-> <<>>, e2es |-> <<>>,
               itls |-> <<>>, ends |-> <<>>]

\* A map with one more entry.
With(f, k, v) == [x \in DOMAIN f \cup {k} |-> IF x = k THEN v ELSE f[x]]

NotRun == [state |-> "none"]

ReportsInit ==
    /\ reqs = <<>> /\ live = <<>> /\ clock = 0 /\ horizon = 0
    /\ queue = [n \in Instances |-> <<>>] /\ batch = [n \in Instances |-> <<>>]
    /\ busy = [n \in Instances |-> 0]
    /\ metrics = [n \in Instances |-> NewMetrics]
    /\ injectedByClass = <<>> /\ rejected = 0
    /\ order = <<>> /\ agg = NotRun

\* computeReplayHorizon: twice the last arrival.
computeReplayHorizon(rs) ==
    LET last == Greatest({0} \cup {rs[i].arrival : i \in DOMAIN rs})
    IN IF last = 0 THEN DefaultHorizon ELSE 2 * last

StartRun(rs) ==
    /\ reqs' = rs
    /\ live' = [i \in DOMAIN rs |-> [state |-> "new", inst |-> 0, first |-> FALSE,
                                     ttft |-> 0, itl |-> 0, toks |-> 0]]
    /\ horizon' = computeReplayHorizon(rs)
    /\ UNCHANGED <<clock, queue, batch, busy, metrics, injectedByClass, rejected, order, agg>>

Due(i) == live[i].state = "new" /\ reqs[i].arrival <= clock

CountInjected(c) ==
    injectedByClass' = With(injectedByClass, c,
                            (IF c \in DOMAIN injectedByClass THEN injectedByClass[c] ELSE 0) + 1)

\* ClusterArrivalEvent counts the request before anything is decided about it.
Reject(i) ==
    /\ Due(i)
    /\ \A j \in Indices : Due(j) => i <= j
    /\ CountInjected(Class(i))
    /\ live' = [live EXCEPT ![i].state = "rejected"]
    /\ rejected' = rejected + 1
    /\ UNCHANGED <<reqs, clock, horizon, queue, batch, busy, metrics, order, agg>>

Unservable(i) == reqs[i].in > Capacity
PastDue(i) == reqs[i].rec.deadline_us > 0 /\ reqs[i].rec.deadline_us <= clock

\* InjectArrival enters the request in the requests map; EnqueueRequest takes a
\* request it cannot serve out again, and counts one whose deadline has passed.
EnqueueRequest(m, i, n) ==
    LET entry == [seq |-> 0, clock |-> 0, inst |-> n, idx |-> i]
    IN CASE Unservable(i) -> [m EXCEPT !.dropped = @ + 1]
         [] ~Unservable(i) /\ PastDue(i) ->
                [m EXCEPT !.requests = With(@, Id(i), entry), !.timedOut = @ + 1]
         [] OTHER -> [m EXCEPT !.requests = With(@, Id(i), entry)]

Arrive(i, n) ==
    /\ Due(i)
    /\ \A j \in Indices : Due(j) => i <= j   \* the arrival heap is in request order
    /\ CountInjected(Class(i))
    /\ metrics' = [metrics EXCEPT ![n] = EnqueueRequest(@, i, n)]
    /\ live' = [live EXCEPT ![i].inst = n,
                            ![i].state = IF Unservable(i) THEN "dropped"
                                         ELSE IF PastDue(i) THEN "timed out" ELSE "queued"]
    /\ queue' = IF Unservable(i) \/ PastDue(i) THEN queue
                ELSE [queue EXCEPT ![n] = Append(@, i)]
    /\ UNCHANGED <<reqs, clock, horizon, batch, busy, rejected, order, agg>>

Required(i) == IF reqs[i].out = 0 THEN 1 ELSE reqs[i].out

\* executeBatchStep on one request: the first token, or one more.
Progress(l, i, adv) ==
    IF ~l.first
    THEN [l EXCEPT !.state = "running", !.first = TRUE, !.toks = 1,
                   !.ttft = clock + adv + OutputTokenTime - reqs[i].arrival]
    ELSE [l EXCEPT !.itl = @ + adv + OutputTokenTime, !.toks = @ + 1]

CompletionTime(i, lat) == lat + reqs[i].arrival

\* recordRequestCompletion of the request whose state after the step is l.
\* recordCompletionOrder stamps it with the clock, which is the step's start.
recordRequestCompletion(m, i, l) ==
    LET lat == l.ttft + l.itl + (IF reqs[i].out > 0 THEN PostDecodeOverhead ELSE 0)
        itl == IF reqs[i].out = 0 THEN <<0, 1>>
               ELSE <<l.itl, IF reqs[i].out > 1 THEN reqs[i].out - 1 ELSE 1>>
    IN [m EXCEPT !.completed = @ + 1,
                 !.ttftSum = @ + l.ttft,
                 !.outTokens = @ + reqs[i].out,
                 !.e2es = With(@, Id(i), lat),
                 !.itls = With(@, Id(i), itl),
                 !.ends = With(@, Id(i), CompletionTime(i, lat)),
                 !.completions = @ + 1,
                 !.requests[Id(i)].seq = m.completions + 1,
                 !.requests[Id(i)].clock = clock]

\* All completions of a step, in batch order.
CompleteAll(m, done, l) ==
    LET after[k \in 0..Len(done)] ==
            IF k = 0 THEN m ELSE recordRequestCompletion(after[k - 1], done[k], l[done[k]])
    IN after[Len(done)]

HasWork(n) == queue[n] # <<>> \/ batch[n] # <<>>
StepDue(n) == HasWork(n) /\ busy[n] <= clock

\* One step of instance n lasting adv: admit from the queue, run the batch,
\* record first tokens, then the completions.
Step(n, adv) ==
    /\ StepDue(n)
    /\ \A i \in Indices : ~Due(i)
    /\ LET room == MaxBatch - Len(batch[n])
           k == IF Len(queue[n]) < room THEN Len(queue[n]) ELSE room
           b == batch[n] \o SubSeq(queue[n], 1, k)
           l == [i \in Indices |->
                   IF i \in ToSet(b) THEN Progress(live[i], i, adv) ELSE live[i]]
           done == SelectSeq(b, LAMBDA i : l[i].toks >= Required(i))
           firsts == {i \in ToSet(b) : ~live[i].first}
           m == [metrics[n] EXCEPT !.ttfts =
                    [x \in DOMAIN @ \cup {Id(i) : i \in firsts} |->
                        IF x \in DOMAIN @ THEN @[x]
                        ELSE l[CHOOSE i \in firsts : Id(i) = x].ttft]]
       IN /\ batch' = [batch EXCEPT ![n] = SelectSeq(b, LAMBDA i : i \notin ToSet(done))]
          /\ queue' = [queue EXCEPT ![n] = SubSeq(@, k + 1, Len(@))]
          /\ live' = [i \in Indices |->
                        IF i \in ToSet(done) THEN [l[i] EXCEPT !.state = "completed"] ELSE l[i]]
          /\ metrics' = [metrics EXCEPT ![n] = CompleteAll(m, done, l)]
          /\ order' = order \o done
    /\ busy' = [busy EXCEPT ![n] = clock + adv]
    /\ UNCHANGED <<reqs, clock, horizon, injectedByClass, rejected, agg>>

Waiting(i) == live[i].state \in {"queued", "running"}
DeadlineNow(i) == Waiting(i) /\ reqs[i].rec.deadline_us > 0 /\ reqs[i].rec.deadline_us = clock

\* TimeoutEvent: after the step of the same time, so completion wins.
TimeOut(i) ==
    /\ DeadlineNow(i)
    /\ ~StepDue(live[i].inst)
    /\ LET n == live[i].inst
           drop(s) == SelectSeq(s, LAMBDA j : j # i)
       IN /\ queue' = [queue EXCEPT ![n] = drop(@)]
          /\ batch' = [batch EXCEPT ![n] = drop(@)]
          /\ metrics' = [metrics EXCEPT ![n].timedOut = @ + 1]
    /\ live' = [live EXCEPT ![i].state = "timed out"]
    /\ UNCHANGED <<reqs, clock, horizon, busy, injectedByClass, rejected, order, agg>>

Settled ==
    /\ \A i \in Indices : ~Due(i) /\ ~DeadlineNow(i)
    /\ \A n \in Instances : ~StepDue(n)

Unfinished == \E i \in Indices : live[i].state = "new" \/ Waiting(i)

Tick ==
    /\ Settled /\ Unfinished /\ clock < horizon
    /\ clock' = clock + 1
    /\ UNCHANGED <<reqs, live, horizon, queue, batch, busy, metrics,
                   injectedByClass, rejected, order, agg>>

-----------------------------------------------------------------------------
(* The end of the run. *)

FinalizeInstance(n) ==
    [metrics[n] EXCEPT !.queued = Len(queue[n]), !.running = Len(batch[n]),
                       !.ended = IF clock < horizon THEN clock ELSE horizon]

TotalOf(f) ==
    LET sum[n \in 0..NumInstances] == IF n = 0 THEN 0 ELSE sum[n - 1] + f[n]
    IN sum[NumInstances]

\* mergeFloat64Map, over all instances: keys never repeat between instances.
Merged(ms) ==
    [k \in UNION {DOMAIN ms[n] : n \in Instances} |->
        ms[CHOOSE n \in Instances : k \in DOMAIN ms[n]][k]]

\* aggregateMetrics; the per-instance completion counters are not merged.
aggregateMetrics(ms) ==
    LET total(F(_)) == TotalOf([n \in Instances |-> F(ms[n])])
        merge(F(_)) == Merged([n \in Instances |-> F(ms[n])])
    IN [completed |-> total(LAMBDA m : m.completed),
        timedOut |-> total(LAMBDA m : m.timedOut),
        dropped |-> total(LAMBDA m : m.dropped),
        outTokens |-> total(LAMBDA m : m.outTokens),
        ttftSum |-> total(LAMBDA m : m.ttftSum),
        queued |-> total(LAMBDA m : m.queued),
        running |-> total(LAMBDA m : m.running),
        ended |-> Greatest({ms[n].ended : n \in Instances}),
        requests |-> merge(LAMBDA m : m.requests),
        ttfts |-> merge(LAMBDA m : m.ttfts),
        e2es |-> merge(LAMBDA m : m.e2es),
        itls |-> merge(LAMBDA m : m.itls),
        ends |-> merge(LAMBDA m : m.ends)]

Finalize ==
    /\ Settled /\ (~Unfinished \/ clock = horizon)
    /\ metrics' = [n \in Instances |-> FinalizeInstance(n)]
    /\ agg' = aggregateMetrics(metrics')
    /\ UNCHANGED <<reqs, live, clock, horizon, queue, batch, busy,
                   injectedByClass, rejected, order>>
=============================================================================
