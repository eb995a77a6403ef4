------------------------------ MODULE Analysis ------------------------------
(***************************************************************************)
(* The way of a trace through the tools: it is recorded and written to a    *)
(* file, observed, loaded and replayed by the simulator, reported, exported *)
(* again, compared with the replay by blis calibrate, and given to the      *)
(* saturation detectors either as it was observed or as it was replayed.    *)
(***************************************************************************)
EXTENDS Calibration, Saturation

CONSTANTS
    Traces,         \* [recs, chunks]: real traces and their chunk times
    Tunings,        \* [sel, cfg, flag]: detector selections and tunings
    ReplayTunings,  \* those under which the trace is replayed as well
    Truncations,    \* [early, short]: the times that lose a tick
    CalConfigs,     \* [warm, rtt, perToken]: settings of blis calibrate
    TargetSources   \* [cli, header, spec]: goodput targets

VARIABLES trace, tuning, phase

vars == <<trace, tuning, phase, reportVars, satVars>>

Init ==
    /\ trace \in Traces
    /\ tuning \in Tunings
    /\ phase = "start"
    /\ ReportsInit
    /\ SaturationInit

\* The flags are resolved before anything is read; a bad one ends the command.
ResolveFlags ==
    /\ phase = "start"
    /\ Resolve(tuning.sel, tuning.cfg, tuning.flag)
    /\ phase' = "resolved"
    /\ UNCHANGED <<trace, tuning, reportVars>>

Running == phase = "resolved" /\ tracer.state = "ready"

\* blis observe: the detectors see the recorded trace.
TraceObserved ==
    /\ Running
    /\ \E x \in Truncations : StartTrace(TraceRecordsToRequestMetrics(trace.recs), x.early, x.short)
    /\ phase' = "tracing"
    /\ UNCHANGED <<trace, tuning, reportVars>>

OnDisk(recs) == ExportTraceV2(recs, "real")

\* blis replay: a record that does not parse ends the command.
LoadRefused ==
    /\ Running
    /\ \E i \in DOMAIN trace.recs : Refused(LoadTraceV2(OnDisk(trace.recs))[i])
    /\ phase' = "refused"
    /\ UNCHANGED <<trace, tuning, reportVars, satVars>>

Load ==
    /\ Running /\ tuning \in ReplayTunings
    /\ \A i \in DOMAIN trace.recs : ~Refused(LoadTraceV2(OnDisk(trace.recs))[i])
    /\ StartRun(LoadTraceV2Requests(LoadTraceV2(OnDisk(trace.recs))))
    /\ phase' = "replay"
    /\ UNCHANGED <<trace, tuning, satVars>>

Replay ==
    /\ phase = "replay"
    /\ \/ \E i \in Indices : Reject(i)
       \/ \E i \in Indices, n \in Instances : Arrive(i, n)
       \/ \E n \in Instances, adv \in StepTimes : Step(n, adv)
       \/ \E i \in Indices : TimeOut(i)
       \/ Tick
    /\ UNCHANGED <<trace, tuning, phase, satVars>>

FinishReplay ==
    /\ phase = "replay"
    /\ Finalize
    /\ phase' = "reported"
    /\ UNCHANGED <<trace, tuning, satVars>>

TraceReplayed ==
    /\ phase = "reported"
    /\ StartTrace(CompletedRequestMetrics, {}, {})
    /\ phase' = "tracing"
    /\ UNCHANGED <<trace, tuning, reportVars>>

Trace ==
    /\ Fanout \/ Reduce
    /\ UNCHANGED <<trace, tuning, phase, reportVars>>

Next ==
    \/ ResolveFlags \/ TraceObserved \/ LoadRefused \/ Load \/ Replay
    \/ FinishReplay \/ TraceReplayed \/ Trace

Spec == Init /\ [][Next]_vars

-----------------------------------------------------------------------------
(* Properties. *)

States == {"new", "rejected", "dropped", "queued", "running", "completed", "timed out"}

(* Type correctness of the replay, of the metrics and of the tracer. *)
TypeOK ==
    /\ phase \in {"off", "start", "resolved", "refused", "replay", "reported", "tracing"}
    /\ clock \in 0..horizon
    /\ \A i \in Indices : live[i].state \in States /\ live[i].inst \in 0..NumInstances
    /\ \A n \in Instances : ToSet(queue[n]) \cup ToSet(batch[n]) \subseteq Indices
    /\ pos \in 0..Len(events)
    /\ tracer.state \in {"off", "refused", "ready", "tracing", "reported"}

Reported == phase = "reported"

Done == {i \in Indices : live[i].state = "completed"}
Number(state) == Cardinality({i \in Indices : live[i].state = state})

Exported == RequestsToTraceRecords(reqs, live)

(* EmitOutput ranks the completed requests of all instances by stamps taken   *)
(* while they ran. The ranks are 1, 2, ... without gaps, later clocks rank    *)
(* later, each instance's completions keep their order, and the requests with *)
(* a rank are exactly those with an end-to-end latency and those the exported *)
(* trace calls ok.                                                            *)
CompletionOrderExact ==
    Reported =>
        LET rank(i) == IF Id(i) \in DOMAIN agg.requests THEN CompletionIndex(Id(i)) ELSE 0
            at(i) == CHOOSE k \in DOMAIN order : order[k] = i
        IN /\ {rank(i) : i \in Done} = 1..Cardinality(Done)
           /\ \A i \in Indices :
                /\ rank(i) > 0 <=> Id(i) \in DOMAIN agg.e2es
                /\ rank(i) > 0 <=> Exported[i].status = Ok
           /\ \A i, j \in Done :
                /\ live[i].inst = live[j].inst => (rank(i) < rank(j) <=> at(i) < at(j))
                /\ agg.requests[Id(i)].clock < agg.requests[Id(j)].clock => rank(i) < rank(j)

Labelled(counts) == Total(Sorted([v \in DOMAIN counts |-> counts[v].count], DOMAIN counts))

(* Every counter of the report is kept on its own, in several places. After   *)
(* the merge they add up: each arrival is in exactly one outcome, the classes *)
(* partition arrivals and completions, models and tenants partition the       *)
(* labelled completions, their tokens never exceed the total, and a class     *)
(* has no more good requests than completed ones.                             *)
PartitionsExact ==
    Reported =>
        LET perClass == ComputePerSLODistributions
            models == ComputePerModelMetrics
            labelled(l) == {k \in CompletedKeys : RequestOf(k).rec[l] # 0}
            counts == [c \in SLOClasses |-> perClass[c].e2e.count]
        IN /\ InjectedRequests + rejected = Len(reqs)
           /\ agg.completed = Cardinality(Done) /\ agg.timedOut = Number("timed out")
           /\ DOMAIN agg.requests = {Id(i) : i \in {j \in Indices :
                                        live[j].state \notin {"new", "rejected", "dropped"}}}
           /\ Total(Sorted(injectedByClass, DOMAIN injectedByClass)) = Len(reqs)
           /\ Total(Sorted(counts, SLOClasses)) = agg.completed
           /\ Labelled(models) = Cardinality(labelled("model"))
           /\ Labelled(ComputePerTenantMetrics) = Cardinality(labelled("tenant_id"))
           /\ agg.outTokens = DecodeTokens(CompletedKeys)
           /\ \A x \in TargetSources :
                LET att == SLOAttainmentMultiDim(mergeGoodputTargets(x.cli, x.header, x.spec))
                IN \A c \in DOMAIN att :
                     /\ att[c].good <= (IF c \in SLOClasses THEN counts[c] ELSE 0)
                     /\ att[c].good <= att[c].injected

(* Four functions compute percentiles, with different ways to handle the last *)
(* position. On the latencies of a run they agree, lie between the smallest   *)
(* and the largest value, and do not fall as the percentage grows; the two    *)
(* breakdowns by class report the same tail of the latencies.                 *)
PercentilesAgree ==
    /\ Reported =>
        LET perClass == ComputePerSLODistributions
        IN \A c \in SLOClasses : perClass[c].e2e.count > 0 =>
                perClassLatencyStats(c).e2eP99 = perClass[c].e2e.p99
    /\ Reported =>
        \A f \in {agg.ttfts, agg.e2es} :
            LET vals == Sorted(f, DOMAIN f)
            IN \A p \in {0, 50, 90, 99, 100} :
                LET v == CalculatePercentile(vals, p)
                IN /\ v = clusterPercentile(vals, p)
                   /\ v = goodputPercentile(vals, p)
                   /\ v = percentileFromSorted(vals, p)
                   /\ vals # <<>> => v \in 100 * vals[1] .. 100 * vals[Len(vals)]
                   /\ \A q \in {50, 99, 100} : q >= p => CalculatePercentile(vals, q) >= v

(* Sessions: the reported number is that of the sessions with a served        *)
(* request, every first-token time of a session request is cold or warm, and  *)
(* no reported duration is shorter than a latency of the session's opening    *)
(* round allows.                                                              *)
SessionReportExact ==
    Reported =>
        LET m == ComputeSessionMetrics
            rounds == {k \in DOMAIN agg.ttfts : k \in InSession}
            opened == {k \in DOMAIN agg.e2es \cap InSession : RequestOf(k).rec.round_index = 0}
        IN /\ m.cold.count + m.warm.count = Cardinality(rounds)
           /\ m.duration.count <= m.count
           /\ Cardinality(opened) <= m.duration.count
           /\ \A k \in opened : m.duration.max >= agg.e2es[k]

(* Observe and calibrate judge the same record in code of their own. When     *)
(* every record has a counterpart and none is warm-up they find the same good *)
(* requests; and calibrate never credits the simulator with a good request    *)
(* that the run itself did not report.                                        *)
GoodputsAgree ==
    Reported =>
        \A x \in TargetSources, itl \in BOOLEAN :
            LET targets == stripITL(mergeGoodputTargets(x.cli, x.header, x.spec), itl)
                sims == extractSimResults
                cfg == [warm |-> 0, rtt |-> 0, perToken |-> 0]
                matched == MatchedIds(trace.recs, sims, cfg)
                seen == emitObserveGoodput(trace.recs, trace.chunks, targets)
                cmp == ComputeGoodputComparison(trace.recs, sims, matched, trace.chunks, targets)
                run == SLOAttainmentMultiDim(targets)
            IN \A c \in DOMAIN targets :
                 /\ cmp[c].realGood <= seen[c].good
                 /\ cmp[c].count <= seen[c].injected
                 /\ Cardinality(matched) = Len(trace.recs) =>
                        cmp[c].realGood = seen[c].good /\ cmp[c].count = seen[c].injected
                 /\ cmp[c].simGood <= run[c].good

(* ExportTraceV2 writes by column name and leaves empty optional columns out; *)
(* parseTraceRecord reads by position. A real trace comes back unchanged; the *)
(* export of a replay too, but for the request id of the server, which only a *)
(* real trace keeps.                                                          *)
TraceRoundTrip ==
    /\ phase = "start" => LoadTraceV2(OnDisk(trace.recs)) = trace.recs
    /\ Reported => LoadTraceV2(ExportTraceV2(Exported, "replayed")) = Exported

(* A replay injects at recorded send times, moved to the origin of the        *)
(* recorded arrivals. The earliest request arrives when the earliest recorded *)
(* one did, all gaps between injections are the recorded ones, no request     *)
(* arrives after the horizon, and the export of the replay repeats the        *)
(* prompt, output, class, session and deadline of every record.               *)
ReplayKeepsTrace ==
    phase \in {"replay", "reported"} =>
        LET recs == trace.recs
        IN /\ Least({reqs[i].arrival : i \in Indices})
                = Least({recs[i].arrival_time_us : i \in Indices})
           /\ \A i, j \in Indices :
                reqs[i].arrival - reqs[j].arrival = injectionTime(recs[i]) - injectionTime(recs[j])
           /\ \A i \in Indices : reqs[i].arrival <= horizon
           /\ MaxNormalizedInjectionTime(recs) <= Greatest({reqs[i].arrival : i \in Indices})
           /\ Reported => \A i \in Indices :
                /\ \A c \in {"slo_class", "session_id", "round_index", "deadline_us",
                             "prefix_length", "output_tokens", "tenant_id", "model"} :
                        Exported[i][c] = recs[i][c]
                /\ Exported[i].input_tokens = effectiveInputTokenCount(recs[i])

(* The tracer's inputs from a run's metrics and from the run's exported trace *)
(* name the same requests with the same arrivals; the latencies differ by the *)
(* fixed overhead that traces do not carry.                                   *)
TracerInputsAgree ==
    Reported =>
        LET fromRun == CompletedRequestMetrics
            fromTrace == TraceRecordsToRequestMetrics(Exported)
            overhead(r) == IF reqs[r.id + 1].out > 0 THEN PostDecodeOverhead ELSE 0
        IN fromTrace = {[r EXCEPT !.e2e = @ - overhead(r)] : r \in fromRun}

(* Each record is excluded as warm-up, paired, or counted as unmatched, and   *)
(* each simulated result is matched or not; the classes partition the pairs   *)
(* that have one.                                                             *)
PairsAccounted ==
    Reported =>
        \A cfg \in CalConfigs :
            LET sims == extractSimResults
                p == PrepareCalibrationPairs(trace.recs, sims, cfg)
                classes == {p.class[i] : i \in DOMAIN p.class} \ {0}
                sizes == [c \in classes |-> Len(BySLO(p, c))]
                itl == ITLPairs(trace.recs, sims, trace.chunks, cfg)
            IN /\ p.excluded + Len(p.e2e) + p.unmatchedReal = Len(trace.recs)
               /\ p.matched + p.unmatchedSim = Cardinality(DOMAIN sims)
               /\ Len(p.ttft) <= p.matched
               /\ Total(Sorted(sizes, classes))
                    = Len(SelectSeq(p.class, LAMBDA c : c # 0))
               /\ Len(itl.pairs) + itl.dropped <= p.matched

(* The comparison is sound at its fixed point and keeps its sign: when every  *)
(* simulated latency equals the recorded one no error is reported anywhere,   *)
(* throughput included; a replay that is nowhere faster and somewhere slower  *)
(* is reported as over-predicting with no negative percentile error; and with *)
(* fewer than three pairs the rating is never better than poor.               *)
CalibrationSound ==
    Reported =>
        \A cfg \in CalConfigs :
            LET sims == extractSimResults
                ps == PrepareCalibrationPairs(trace.recs, sims, cfg).e2e
                rep == ComputeCalibration(ps)
                thr == ComputeThroughputComparison(trace.recs, sims,
                           MatchedIds(trace.recs, sims, cfg), cfg)
                slower == \A i \in DOMAIN ps : ps[i].sim >= ps[i].real
            IN ps # <<>> =>
                /\ Len(ps) < 3 => rep.quality = "poor"
                /\ (\A i \in DOMAIN ps : ps[i].sim = ps[i].real) =>
                      /\ rep.meanError = 0 /\ rep.mape.sum[1] = 0
                      /\ \A q \in DOMAIN rep.errors : rep.errors[q] = 0
                      /\ thr # <<>> => thr[1].realTime = thr[1].simTime
                /\ slower =>
                      /\ \A q \in DOMAIN rep.errors : rep.errors[q] >= 0
                      /\ rep.bias # "under-predict"
                      /\ thr # <<>> => thr[1].realTime <= thr[1].simTime
                /\ (slower /\ \E i \in DOMAIN ps : ps[i].real > 0 /\ ps[i].sim > ps[i].real)
                      => rep.bias = "over-predict"

-----------------------------------------------------------------------------
(* What the runs check. *)

(* The reports of a run agree with each other and with their definitions on*)
(* the merged metrics of all instances.                                    *)
ReportsAgree ==
  /\ TypeOK
  /\ CompletionOrderExact
  /\ PartitionsExact
  /\ PercentilesAgree
  /\ SessionReportExact

(* A trace is the same workload after it was written, loaded, replayed and *)
(* exported, also to the saturation tracer.                                *)
TracesFaithful ==
  /\ TraceRoundTrip
  /\ ReplayKeepsTrace
  /\ TracerInputsAgree

(* blis calibrate accounts for every record, and what it computes on the   *)
(* pairs agrees with the reports of the two sides.                         *)
CalibrationExact ==
  /\ GoodputsAgree
  /\ PairsAccounted
  /\ CalibrationSound

(* The streaming detectors equal their definitions over the whole event    *)
(* sequence, under every tuning the validation accepts.                    *)
DetectorsExact ==
  /\ DriftSamplesExact
  /\ PeakExact
  /\ DriftScoreMatchesLevel
  /\ LabelIsPlurality
  /\ TuningNeverPanics
=============================================================================
