------------------------------- MODULE Goodput -------------------------------
(***************************************************************************)
(* The reports computed from aggregated metrics: the completion index of    *)
(* sim/metrics.go, the four percentile functions of the code base, the      *)
(* breakdowns by class, model, tenant and session of                        *)
(* sim/cluster/metrics.go, and goodput as a run (cmd/goodput.go,            *)
(* SLOAttainmentMultiDim) and an observation count it.                      *)
(*                                                                          *)
(* A percentile is an exact number of hundredths of a tick. Targets are a   *)
(* function from classes to records with ttft, itl and e2e, 0 for none; a   *)
(* mean is a pair <<sum, count>>.                                           *)
(***************************************************************************)
EXTENDS Reports

-----------------------------------------------------------------------------
(* Completion order. *)

\* Mutant: instances one after the other, each in its own order.
CompletedBeforeByInstance(x, y) ==
    \/ x.inst < y.inst
    \/ x.inst = y.inst /\ x.seq < y.seq

\* The order of assignCompletionIndices. Instance names compare by length and
\* then as text, which is the order of their numbers.
CompletedBefore(x, y) ==
    \/ x.clock < y.clock
    \/ x.clock = y.clock /\ x.inst < y.inst
    \/ x.clock = y.clock /\ x.inst = y.inst /\ x.seq < y.seq
    \/ x.clock = y.clock /\ x.inst = y.inst /\ x.seq = y.seq /\ Id(x.idx) < Id(y.idx)

\* 0 for a request that did not complete.
CompletionIndex(id) ==
    LET me == agg.requests[id]
    IN IF me.seq = 0 THEN 0
       ELSE 1 + Cardinality({k \in DOMAIN agg.requests :
                               /\ agg.requests[k].seq > 0
                               /\ CompletedBefore(agg.requests[k], me)})

\* MetricsOutput.InjectedRequests of BuildOutput.
InjectedRequests ==
    agg.completed + agg.queued + agg.running + agg.dropped + agg.timedOut

\* CompletedRequestMetrics, as the tracer takes them.
CompletedRequestMetrics ==
    {[id |-> k, at |-> reqs[agg.requests[k].idx].arrival, e2e |-> agg.e2es[k]] :
        k \in {x \in DOMAIN agg.requests : x \in DOMAIN agg.e2es /\ agg.e2es[x] > 0}}

-----------------------------------------------------------------------------
(* Percentiles. vals is a sorted sequence, p in 0..100. *)

\* The values f[k], k \in S, in ascending order.
Sorted(f, S) ==
    LET before(x, y) == f[x] < f[y] \/ (f[x] = f[y] /\ x < y)
        at(i) == CHOOSE x \in S : Cardinality({y \in S : before(y, x)}) = i - 1
    IN [i \in 1..Cardinality(S) |-> f[at(i)]]

SortedSeq(s) == Sorted(s, DOMAIN s)

\* Between positions lo and hi (counted from 1), at the fraction of rank / 100.
Interpolate(vals, lo, hi, rank) ==
    100 * vals[lo] + (rank % 100) * (vals[hi] - vals[lo])

\* sim.CalculatePercentile.
CalculatePercentile(vals, p) ==
    LET n == Len(vals)
        rank == p * (n - 1)
        lo == rank \div 100 + 1
        hi == (rank + 99) \div 100 + 1
    IN IF n = 0 THEN 0
       ELSE IF lo = hi THEN 100 * vals[lo]
       ELSE IF hi > n THEN 100 * vals[n] ELSE Interpolate(vals, lo, hi, rank)

\* percentile of sim/cluster/metrics.go.
clusterPercentile(vals, p) ==
    LET n == Len(vals)
        rank == p * (n - 1)
        lo == rank \div 100 + 1
        hi == (rank + 99) \div 100 + 1
    IN CASE n = 0 -> 0
         [] n = 1 -> 100 * vals[1]
         [] OTHER -> IF lo = hi THEN 100 * vals[lo] ELSE Interpolate(vals, lo, hi, rank)

\* percentile of cmd/goodput.go: the neighbour above, even when the rank is whole.
goodputPercentile(vals, p) ==
    LET n == Len(vals)
        rank == p * (n - 1)
        lo == rank \div 100 + 1
    IN CASE n = 0 -> 0
         [] n = 1 -> 100 * vals[1]
         [] OTHER -> IF lo + 1 > n THEN 100 * vals[n] ELSE Interpolate(vals, lo, lo + 1, rank)

Total(s) == LET sum[i \in 0..Len(s)] == IF i = 0 THEN 0 ELSE sum[i - 1] + s[i] IN sum[Len(s)]

NewDistribution(vals) ==
    IF vals = <<>> THEN [count |-> 0]
    ELSE [mean |-> <<Total(vals), Len(vals)>>, p50 |-> clusterPercentile(vals, 50),
          p95 |-> clusterPercentile(vals, 95), p99 |-> clusterPercentile(vals, 99),
          min |-> vals[1], max |-> vals[Len(vals)], count |-> Len(vals)]

-----------------------------------------------------------------------------
(* Breakdowns. *)

ClassOr(c) == IF c = 0 THEN DefaultClass ELSE c
RequestOf(k) == reqs[agg.requests[k].idx]
ClassOf(k) == ClassOr(RequestOf(k).rec.slo_class)

\* The keys of map f whose request is in the requests map and satisfies P.
Group(f, P(_)) == {k \in DOMAIN f : k \in DOMAIN agg.requests /\ P(k)}

SLOClasses ==
    {ClassOf(k) : k \in (DOMAIN agg.ttfts \cup DOMAIN agg.e2es) \cap DOMAIN agg.requests}

ComputePerSLODistributions ==
    LET dist(f, c) == NewDistribution(Sorted(f, Group(f, LAMBDA k : ClassOf(k) = c)))
    IN [c \in SLOClasses |-> [ttft |-> dist(agg.ttfts, c), e2e |-> dist(agg.e2es, c)]]

\* Tokens a completed set of requests asked for.
DecodeTokens(S) ==
    LET toks == [k \in S |-> RequestOf(k).out] IN Total(Sorted(toks, S))

\* ComputePerModelMetrics and ComputePerTenantMetrics: requests with the label.
LabelCounts(label, S) ==
    LET of(v) == {k \in S : RequestOf(k).rec[label] = v}
    IN [v \in {RequestOf(k).rec[label] : k \in S} \ {0} |->
          [count |-> Cardinality(of(v)), tokens |-> DecodeTokens(of(v))]]

CompletedKeys == DOMAIN agg.e2es \cap DOMAIN agg.requests
ComputePerModelMetrics == LabelCounts("model", CompletedKeys)
ComputePerTenantMetrics == LabelCounts("tenant_id", CompletedKeys)

InSession == {k \in DOMAIN agg.requests : RequestOf(k).rec.session_id # 0}

\* ComputeSessionMetrics: first-round and later first-token times apart, and a
\* duration for the sessions whose first round is known and whose last recorded
\* completion lies after it.
ComputeSessionMetrics ==
    LET sessions == {RequestOf(k).rec.session_id : k \in InSession}
        of(s) == {k \in InSession : RequestOf(k).rec.session_id = s}
        opening(s) == {k \in of(s) : RequestOf(k).rec.round_index = 0}
        last(s) == Greatest({0} \cup {agg.ends[k] : k \in of(s) \cap DOMAIN agg.ends})
        span(s) == last(s) - RequestOf(CHOOSE k \in opening(s) : TRUE).arrival
        timed == {s \in sessions : opening(s) # {} /\ span(s) > 0}
        told(P(_)) == {k \in InSession \cap DOMAIN agg.ttfts : P(RequestOf(k).rec.round_index)}
    IN [count |-> Cardinality(sessions),
        cold |-> NewDistribution(Sorted(agg.ttfts, told(LAMBDA n : n = 0))),
        warm |-> NewDistribution(Sorted(agg.ttfts, told(LAMBDA n : n # 0))),
        duration |-> NewDistribution(Sorted([s \in timed |-> span(s)], timed))]

-----------------------------------------------------------------------------
(* Goodput. *)

Dims == {"ttft", "itl", "e2e"}

\* mergeGoodputTargets: command line over trace header over workload, by
\* dimension; a class without any threshold is left out.
mergeGoodputTargets(cli, header, spec) ==
    LET of(src, c, d) == IF c \in DOMAIN src THEN src[c][d] ELSE 0
        pick(c, d) == IF of(cli, c, d) > 0 THEN of(cli, c, d)
                      ELSE IF of(header, c, d) > 0 THEN of(header, c, d) ELSE of(spec, c, d)
    IN [c \in {x \in DOMAIN cli \cup DOMAIN header \cup DOMAIN spec :
                 \E d \in Dims : pick(x, d) # 0}
          |-> [d \in Dims |-> pick(c, d)]]

\* stripITLForObserveFallback: without chunk times no inter-token target.
stripITL(targets, recordITL) ==
    IF recordITL THEN targets
    ELSE [c \in DOMAIN targets |-> [targets[c] EXCEPT !.itl = 0]]

MeanWithin(mean, limit) == mean[1] <= limit * mean[2]

\* SLOAttainmentMultiDim's test of one completed request.
RunGood(k, t) ==
    /\ t.ttft > 0 => k \in DOMAIN agg.ttfts /\ agg.ttfts[k] <= t.ttft
    /\ t.itl > 0 => k \in DOMAIN agg.itls /\ MeanWithin(agg.itls[k], t.itl)
    /\ t.e2e > 0 => agg.e2es[k] <= t.e2e

InjectedOf(c) == IF c \in DOMAIN injectedByClass THEN injectedByClass[c] ELSE 0

SLOAttainmentMultiDim(targets) ==
    [c \in DOMAIN targets |->
        [good |-> Cardinality({k \in Group(agg.e2es, LAMBDA x : ClassOf(x) = c) :
                                 RunGood(k, targets[c])}),
         injected |-> InjectedOf(c) + (IF c = DefaultClass THEN InjectedOf(0) ELSE 0)]]

\* perClassLatencyStats: over the requests of the class that completed.
perClassLatencyStats(c) ==
    LET done == {k \in CompletedKeys : ClassOf(k) = c}
    IN [ttftP99 |-> CalculatePercentile(Sorted(agg.ttfts, done \cap DOMAIN agg.ttfts), 99),
        e2eP99 |-> CalculatePercentile(Sorted(agg.e2es, done), 99)]

\* The positive gaps between the chunks of request id, as <<sum, count>>;
\* chunks is a set of [id, chunk, ts], in no particular order.
PositiveGaps(chunks, id) ==
    LET mine == {c \in chunks : c.id = id}
        times == Sorted([k \in {c.chunk : c \in mine} |-> k], {c.chunk : c \in mine})
        at(j) == (CHOOSE c \in mine : c.chunk = times[j]).ts
        gaps == SelectSeq([j \in 1..(Len(times) - 1) |-> at(j + 1) - at(j)], LAMBDA d : d > 0)
    IN IF Cardinality(mine) < 2 THEN <<0, 0>> ELSE <<Total(gaps), Len(gaps)>>

RecordClass(rec) == ClassOr(rec.slo_class)
Countable(rec) == rec.status \in {Ok, Failed, TimedOut}
FirstLatency(rec) == rec.first_chunk_time_us - rec.send_time_us
WholeLatency(rec) == rec.last_chunk_time_us - rec.send_time_us

\* emitObserveGoodput: every outcome counts, only a sane success can be good.
ObserveGood(rec, chunks, t) ==
    LET mean == PositiveGaps(chunks, rec.request_id)
    IN /\ rec.status = Ok
       /\ FirstLatency(rec) > 0 /\ WholeLatency(rec) > 0
       /\ WholeLatency(rec) >= FirstLatency(rec)
       /\ t.ttft > 0 => FirstLatency(rec) <= t.ttft
       /\ t.e2e > 0 => WholeLatency(rec) <= t.e2e
       /\ t.itl > 0 => mean[2] > 0 /\ MeanWithin(mean, t.itl)

emitObserveGoodput(recs, chunks, targets) ==
    [c \in DOMAIN targets |->
        LET mine == {i \in DOMAIN recs : Countable(recs[i]) /\ RecordClass(recs[i]) = c}
        IN [injected |-> Cardinality(mine),
            good |-> Cardinality({i \in mine : ObserveGood(recs[i], chunks, targets[c])})]]
=============================================================================
