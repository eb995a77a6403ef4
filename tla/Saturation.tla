------------------------------ MODULE Saturation ------------------------------
(***************************************************************************)
(* The post-hoc saturation tracer (sim/saturation, cmd/saturation.go):      *)
(* the four detectors, the bank that fans every event out to them, the      *)
(* strict tuning file, and the vote that reduces the trace of verdicts to   *)
(* one label per detector.                                                  *)
(*                                                                          *)
(* Ratios are exact: a knob is an integer number of hundredths, and every   *)
(* comparison with a noise floor 1/sqrt(arrivals) is made on the squares.   *)
(* A score is kept as what the code distinguishes of it: "zero", "part" or  *)
(* "full" (the cap 1.0).                                                    *)
(***************************************************************************)
EXTENDS Integers, Sequences, FiniteSets, SequencesExt

CONSTANTS
    DefaultDriftWindow,  \* DefaultBacklogDriftConfig().WindowSize, in ticks
    DefaultSlopeK,       \* backlogDriftSlopeK, in hundredths
    DefaultThreshold,    \* defaultThresholdMs, in ticks
    DefaultPeak,         \* the default peakRateConfig
    DefaultFinalWindow,  \* defaultFinalWindowUs, in ticks
    TrendMin             \* completions below which there is no latency trend

ASSUME SaturationAssumption ==
    /\ DefaultDriftWindow \in Nat \ {0}
    /\ DefaultSlopeK \in Nat \ {0}
    /\ DefaultThreshold \in Nat \ {0}
    /\ DefaultFinalWindow \in Nat
    /\ TrendMin \in Nat /\ TrendMin >= 4

VARIABLES
    tracer,   \* the resolved saturationTracer, or the error that refused it
    events,   \* the run's events, in buildSortedEvents order
    pos,      \* how many of them have been replayed
    dets,     \* the streaming state of each selected detector
    sink,     \* InMemoryCollector.records
    final     \* the labels ReduceAll returned

satVars == <<tracer, events, pos, dets, sink, final>>

Stable == 0
Backlogged == 1
Overloaded == 2
Levels == Stable .. Overloaded

Arrival == 0
Completion == 1

rosterOrder == <<"composite", "threshold", "backlog-drift", "peak-rate">>
Roster == {rosterOrder[i] : i \in DOMAIN rosterOrder}

Larger(a, b) == IF a > b THEN a ELSE b
Smaller(a, b) == IF a < b THEN a ELSE b

\* An optional knob is <<>> (absent) or <<v>>. A value below 1 stands for all
\* that the validators refuse: non-positive, below the minimum, NaN, Inf.
Knob(o, d) == IF o = <<>> THEN d ELSE o[1]
Absurd(o) == o # <<>> /\ o[1] < 1

-----------------------------------------------------------------------------
(* The tuning file. *)

NoBlocks == [composite |-> <<>>, threshold |-> <<>>, drift |-> <<>>, peak |-> <<>>]

\* blockOwners: a block and the only detector that may carry it.
BlockOf == [composite |-> "composite", threshold |-> "threshold",
            drift |-> "backlog-drift", peak |-> "peak-rate"]

BlocksOwned(names, cfg) ==
    \A b \in DOMAIN BlockOf : cfg[b] # <<>> => BlockOf[b] \in names

\* The drain ratios of DefaultBacklogDriftConfig, in hundredths.
DefaultSaturatedDrain == 95
DefaultTransientDrain == 98

\* What NewBacklogDriftConfig requires of its arguments; it panics otherwise.
DriftConstructible(c) ==
    /\ c.window > 0
    /\ c.saturated \in 1..100 /\ c.transient \in 1..100
    /\ c.saturated <= c.transient

DriftBlockValid(b) ==
    /\ ~Absurd(b.window) /\ ~Absurd(b.slopeK)
    /\ ~Absurd(b.saturated) /\ Knob(b.saturated, 1) <= 100
    /\ ~Absurd(b.transient) /\ Knob(b.transient, 1) <= 100
    /\ Knob(b.saturated, DefaultSaturatedDrain) <= Knob(b.transient, DefaultTransientDrain)

NoDriftBlock == [window |-> <<>>, slopeK |-> <<>>, saturated |-> <<>>, transient |-> <<>>]
NoPeakBlock == [threshold |-> <<>>, minObs |-> <<>>, warmup |-> <<>>,
                consecutiveK |-> <<>>, overload |-> <<>>]

resolveBacklogDriftConfig(o) ==
    LET b == Knob(o, NoDriftBlock)
    IN [window |-> Knob(b.window, DefaultDriftWindow),
        slopeK |-> Knob(b.slopeK, DefaultSlopeK),
        saturated |-> Knob(b.saturated, DefaultSaturatedDrain),
        transient |-> Knob(b.transient, DefaultTransientDrain)]

PeakBlockValid(b) ==
    /\ ~Absurd(b.threshold) /\ ~Absurd(b.minObs) /\ ~Absurd(b.consecutiveK)
    /\ ~Absurd(b.overload)
    /\ Knob(b.warmup, 0) >= 0

resolvePeakRateConfig(o) ==
    LET b == Knob(o, NoPeakBlock)
    IN [threshold |-> Knob(b.threshold, DefaultPeak.threshold),
        minObs |-> Knob(b.minObs, DefaultPeak.minObs),
        warmup |-> Knob(b.warmup, DefaultPeak.warmup),
        consecutiveK |-> Knob(b.consecutiveK, DefaultPeak.consecutiveK),
        overload |-> Knob(b.overload, DefaultPeak.overload)]

\* buildDetector: does the detector's own block pass its validation?
Builds(name, cfg) ==
    CASE name = "composite" -> ~Absurd(cfg.composite)
      [] name = "threshold" -> ~Absurd(cfg.threshold)
      [] name = "backlog-drift" -> DriftBlockValid(Knob(cfg.drift, NoDriftBlock))
      [] name = "peak-rate" -> PeakBlockValid(Knob(cfg.peak, NoPeakBlock))

Resolved(cfg) ==
    [sensitivity |-> Knob(cfg.composite, 100),
     thresholdMs |-> Knob(cfg.threshold, DefaultThreshold),
     drift |-> resolveBacklogDriftConfig(cfg.drift),
     peak |-> resolvePeakRateConfig(cfg.peak)]

-----------------------------------------------------------------------------
(* The detectors: streaming state, Observe and Detect. *)

\* A fresh detector, and what Reset returns it to.
Fresh(name) ==
    CASE name = "composite" -> [arrivals |-> 0, done |-> <<>>]
      [] name = "threshold" -> [done |-> <<>>]
      [] name = "backlog-drift" ->
            [arrivals |-> 0, completions |-> 0, buckets |-> <<>>, cur |-> 0]
      [] name = "peak-rate" ->
            [peak |-> 0, inFlight |-> 0, observations |-> 0,
             span |-> <<>>, consecutive |-> 0]

\* Mutant: windows without an event get no sample of their own.
ObserveDriftNoFill(st, e, c) ==
    LET a == st.arrivals + (IF e.type = Arrival THEN 1 ELSE 0)
        d == st.completions + (IF e.type = Completion THEN 1 ELSE 0)
        idx == e.ts \div c.window
        n == Len(st.buckets)
    IN [arrivals |-> a, completions |-> d,
        buckets |-> IF n = 0 \/ idx > st.cur THEN Append(st.buckets, a - d)
                    ELSE [st.buckets EXCEPT ![n] = a - d],
        cur |-> IF n = 0 THEN idx ELSE Larger(idx, st.cur)]

\* BacklogDriftDetector.Observe: one sample of the in-flight count per window,
\* the last value carried over the windows in which nothing happened.
ObserveDrift(st, e, c) ==
    LET a == st.arrivals + (IF e.type = Arrival THEN 1 ELSE 0)
        d == st.completions + (IF e.type = Completion THEN 1 ELSE 0)
        idx == e.ts \div c.window
        n == Len(st.buckets)
        filled == [i \in 1..(n + idx - st.cur) |->
                     IF i <= n THEN st.buckets[i]
                     ELSE IF i = n + idx - st.cur THEN a - d ELSE st.buckets[n]]
    IN [arrivals |-> a, completions |-> d,
        buckets |-> IF n = 0 THEN <<a - d>>
                    ELSE IF idx > st.cur THEN filled
                    ELSE [st.buckets EXCEPT ![n] = a - d],
        cur |-> IF n = 0 THEN idx ELSE Larger(idx, st.cur)]

SumTo(f, n) == LET s[i \in 0..n] == IF i = 0 THEN 0 ELSE s[i - 1] + f[i] IN s[n]

\* onlineSlope: the least-squares slope of the samples, as <<numerator, denominator>>.
onlineSlope(y) ==
    LET n == Len(y)
        sumX == SumTo([i \in 1..n |-> i - 1], n)
        sumXX == SumTo([i \in 1..n |-> (i - 1) * (i - 1)], n)
        sumY == SumTo(y, n)
        sumXY == SumTo([i \in 1..n |-> (i - 1) * y[i]], n)
    IN IF n < 2 THEN <<0, 1>>
       ELSE <<n * sumXY - sumX * sumY, n * sumXX - sumX * sumX>>

\* slope vs k/sqrt(a), k in hundredths: the sign of slope^2 * a - k^2 for a
\* rising slope.
Above(q, k, a) == q[1] > 0 /\ 100 * 100 * q[1] * q[1] * a > k * k * q[2] * q[2]
AtLeast(q, k, a) == q[1] > 0 /\ 100 * 100 * q[1] * q[1] * a >= k * k * q[2] * q[2]

DetectDrift(st, c) ==
    LET q == onlineSlope(st.buckets)
    IN IF st.arrivals = 0 THEN [level |-> Stable, score |-> "zero"]
       ELSE [level |-> IF ~Above(q, 100, st.arrivals) THEN Stable
                       ELSE IF ~Above(q, c.slopeK, st.arrivals) THEN Backlogged
                       ELSE Overloaded,
             score |-> IF AtLeast(q, c.slopeK, st.arrivals) THEN "full"
                       ELSE IF q[1] > 0 THEN "part" ELSE "zero"]

elapsed(st) == IF st.span = <<>> THEN 0 ELSE st.span[2] - st.span[1]

ready(st, c) ==
    /\ st.observations >= c.minObs
    /\ elapsed(st) >= c.warmup
    /\ elapsed(st) > 0

\* statistic > limit: peak backlog per tick of elapsed time. The limit is in
\* ten-thousandths, the product of two knobs in hundredths.
StatisticAbove(st, limit) == elapsed(st) > 0 /\ 100 * 100 * st.peak > limit * elapsed(st)

overloadAt(c) == c.overload * c.threshold

\* PeakRateDetector.Observe.
ObservePeak(st, e, c) ==
    LET fl == IF e.type = Arrival THEN st.inFlight + 1 ELSE Larger(st.inFlight - 1, 0)
        seen == [st EXCEPT !.inFlight = fl,
                           !.peak = Larger(st.peak, fl),
                           !.observations = @ + 1,
                           !.span = IF st.span = <<>> THEN <<e.ts, e.ts>>
                                    ELSE <<Smaller(st.span[1], e.ts), Larger(st.span[2], e.ts)>>]
    IN [seen EXCEPT !.consecutive =
            IF ready(seen, c) /\ StatisticAbove(seen, 100 * c.threshold) THEN @ + 1 ELSE 0]

DetectPeak(st, c) ==
    LET over == StatisticAbove(st, overloadAt(c))
    IN IF ~ready(st, c) THEN [level |-> Stable, score |-> "zero"]
       ELSE [level |-> IF st.consecutive < c.consecutiveK THEN Stable
                       ELSE IF over THEN Overloaded ELSE Backlogged,
             score |-> IF over THEN "full" ELSE IF st.peak > 0 THEN "part" ELSE "zero"]

\* ThresholdDetector: the mean latency of all completions against a bound.
DetectThreshold(st, thresholdMs) ==
    LET n == Len(st.done)
        sum == SumTo([i \in 1..n |-> st.done[i].lat], n)
    IN IF n = 0 THEN [level |-> Stable, score |-> "zero"]
       ELSE [level |-> IF sum < thresholdMs * n THEN Stable ELSE Overloaded,
             score |-> IF sum = 0 THEN "zero"
                       ELSE IF sum >= 2 * thresholdMs * n THEN "full" ELSE "part"]

\* The mean of lats[a..b], as <<sum, count>>, and the order of two such means.
MeanOf(lats, a, b) == <<SumTo([i \in 1..(b - a + 1) |-> lats[a + i - 1]], b - a + 1), b - a + 1>>
Below(p, q) == p[1] * q[2] < q[1] * p[2]

\* computeComposite: the rate deficit, and a latency trend that counts only
\* when the four quartiles rise. lt is <<numerator, denominator>>.
computeComposite(arrivals, lats, sens) ==
    LET n == Len(lats)
        rd == <<Larger(0, arrivals - n), arrivals>>
        half == n \div 2
        q == n \div 4
        quart(k) == MeanOf(lats, (k - 1) * q + 1, IF k = 4 THEN n ELSE k * q)
        f == MeanOf(lats, 1, half)
        s == MeanOf(lats, half + 1, n)
        monotone == /\ n >= TrendMin
                    /\ \A k \in 1..3 : Below(quart(k), quart(k + 1))
        rise == <<s[1] * f[2] - f[1] * s[2], f[1] * s[2]>>
        lt == IF monotone /\ f[1] > 0 /\ rise[1] > 0 THEN rise ELSE <<0, 1>>
        noise(x) == AtLeast(x, sens, arrivals)
    IN [level |-> IF ~noise(rd) /\ ~noise(<<Smaller(lt[1], lt[2]), lt[2]>>) THEN Stable
                  ELSE IF Above(lt, sens, arrivals) THEN Overloaded
                  ELSE Backlogged,
        score |-> IF n = 0 \/ lt[1] >= lt[2] THEN "full"
                  ELSE IF rd[1] > 0 \/ lt[1] > 0 THEN "part" ELSE "zero"]

DetectComposite(st, sens) ==
    IF st.arrivals = 0 THEN [level |-> Stable, score |-> "zero"]
    ELSE computeComposite(st.arrivals, [i \in DOMAIN st.done |-> st.done[i].lat], sens)

\* Events reach a detector in time order, so the completions it keeps are the
\* ones CompositeDetector.Detect would sort.
Observe(name, st, e, c) ==
    CASE name = "composite" ->
            IF e.type = Arrival THEN [st EXCEPT !.arrivals = @ + 1]
            ELSE [st EXCEPT !.done = Append(@, e)]
      [] name = "threshold" ->
            IF e.type = Arrival THEN st ELSE [st EXCEPT !.done = Append(@, e)]
      [] name = "backlog-drift" -> ObserveDrift(st, e, c.drift)
      [] name = "peak-rate" -> ObservePeak(st, e, c.peak)

Detect(name, st, c) ==
    CASE name = "composite" -> DetectComposite(st, c.sensitivity)
      [] name = "threshold" -> DetectThreshold(st, c.thresholdMs)
      [] name = "backlog-drift" -> DetectDrift(st, c.drift)
      [] name = "peak-rate" -> DetectPeak(st, c.peak)

-----------------------------------------------------------------------------
(* The bank, the tracer and the vote. *)

\* The elements of a finite set in the order Before, a strict total order on it.
Ranked(S, Before(_, _)) ==
    [i \in 1..Cardinality(S) |->
        CHOOSE x \in S : Cardinality({y \in S : Before(y, x)}) = i - 1]

\* Event order: time, arrivals before completions, then request.
EventBefore(x, y) ==
    \/ x.ts < y.ts
    \/ x.ts = y.ts /\ x.type < y.type
    \/ x.ts = y.ts /\ x.type = y.type /\ x.id < y.id

\* buildSortedEvents. Times go through floating seconds and milliseconds and
\* are truncated back to microseconds, which loses one tick of some values:
\* early and short are the requests whose arrival and latency lose one.
buildSortedEvents(requests, early, short) ==
    LET at(r) == IF r.id \in early THEN Larger(r.at - 1, 0) ELSE r.at
        lat(r) == IF r.id \in short THEN Larger(r.e2e - 1, 0) ELSE r.e2e
    IN Ranked({[ts |-> at(r), type |-> Arrival, id |-> r.id, lat |-> 0] : r \in requests}
              \cup {[ts |-> at(r) + lat(r), type |-> Completion, id |-> r.id, lat |-> r.e2e] : r \in requests},
              EventBefore)

\* parseDetectorSelection and NewBank: duplicates go, the roster's order stays.
Selected(sel) == IF sel = <<"all">> THEN Roster ELSE ToSet(sel)
Canonical(names) == SelectSeq(rosterOrder, LAMBDA n : n \in names)

resolveFinalWindow(flag, cfg) ==
    Knob(flag, Knob(Knob(cfg.drift, NoDriftBlock).window, DefaultFinalWindow))

\* resolveSaturation's refusals. A single name goes through BuildDetector, a
\* list or "all" through the bank; both refuse unknown names, blocks of
\* detectors that are not selected and blocks that do not validate.
Accepted(sel, cfg, flag) ==
    LET names == Selected(sel)
    IN /\ "all" \in ToSet(sel) => Len(sel) = 1
       /\ names \subseteq Roster
       /\ BlocksOwned(names, cfg)
       /\ \A n \in names : Builds(n, cfg)
       /\ ~Absurd(flag)

Off == [state |-> "off"]

SaturationInit ==
    /\ tracer = Off
    /\ events = <<>> /\ pos = 0
    /\ dets = <<>> /\ sink = <<>> /\ final = <<>>

\* resolveSaturation.
Resolve(sel, cfg, flag) ==
    /\ tracer = Off
    /\ tracer' = IF ~Accepted(sel, cfg, flag) THEN [state |-> "refused"]
                 ELSE [state |-> "ready",
                       names |-> Canonical(Selected(sel)),
                       cfg |-> Resolved(cfg),
                       window |-> resolveFinalWindow(flag, cfg)]
    /\ UNCHANGED <<events, pos, dets, sink, final>>

\* Bank.Run and ReplayOneDetector: reset every detector, lay out the events.
StartTrace(requests, early, short) ==
    /\ tracer.state = "ready"
    /\ tracer' = [tracer EXCEPT !.state = "tracing"]
    /\ events' = buildSortedEvents(requests, early, short)
    /\ pos' = 0
    /\ dets' = [n \in ToSet(tracer.names) |-> Fresh(n)]
    /\ UNCHANGED <<sink, final>>

\* fanout: every detector, in roster order, observes the event and its verdict
\* is recorded before the next event.
Fanout ==
    /\ tracer.state = "tracing"
    /\ pos < Len(events)
    /\ pos' = pos + 1
    /\ dets' = [n \in DOMAIN dets |-> Observe(n, dets[n], events[pos'], tracer.cfg)]
    /\ sink' = sink \o [i \in DOMAIN tracer.names |->
                   [ts |-> events[pos'].ts, det |-> tracer.names[i],
                    res |-> Detect(tracer.names[i], dets'[tracer.names[i]], tracer.cfg)]]
    /\ UNCHANGED <<tracer, events, final>>

VotesIn(recs, window) ==
    LET last == recs[Len(recs)].ts
    IN SelectSeq(recs, LAMBDA r : r.ts >= last - window)

Votes(recs, window, l) == Len(SelectSeq(VotesIn(recs, window), LAMBDA r : r.res.level = l))

\* ReduceOne: scan from the worst level down, keeping the first level that has
\* strictly more votes than the best so far.
ReduceOne(recs, window) ==
    LET c(l) == Votes(recs, window, l)
        o == IF c(Overloaded) > 0 THEN Overloaded ELSE Stable
        top == c(Overloaded)
        b == IF c(Backlogged) > top THEN Backlogged ELSE o
    IN IF recs = <<>> THEN Stable
       ELSE IF c(Stable) > Larger(top, c(Backlogged)) THEN Stable ELSE b

RecordsOf(name) == SelectSeq(sink, LAMBDA r : r.det = name)

\* The end of saturationTracer.run: ReduceAll over the collector's records.
Reduce ==
    /\ tracer.state = "tracing"
    /\ pos = Len(events)
    /\ tracer' = [tracer EXCEPT !.state = "reported"]
    /\ final' = [n \in {sink[i].det : i \in DOMAIN sink} |->
                    ReduceOne(RecordsOf(n), tracer.window)]
    /\ UNCHANGED <<events, pos, dets, sink>>

-----------------------------------------------------------------------------
(* Properties. *)

Tracing(name) == tracer.state \in {"tracing", "reported"} /\ name \in DOMAIN dets

\* In-flight requests after the first j events, by counting them.
InFlightAfter(j) ==
    Cardinality({i \in 1..j : events[i].type = Arrival})
      - Cardinality({i \in 1..j : events[i].type = Completion})

(* BacklogDriftDetector.Observe keeps one sample per window by overwriting,   *)
(* appending and carrying forward. At every point of the replay the samples   *)
(* are the in-flight counts at the end of every window from the first event's *)
(* to the latest event's, none missing, and none negative: a completion never *)
(* comes before its own arrival, even when truncation gives both one time.    *)
DriftSamplesExact ==
    (Tracing("backlog-drift") /\ pos > 0) =>
        LET W == tracer.cfg.drift.window
            b == dets["backlog-drift"].buckets
            w0 == events[1].ts \div W
        IN /\ Len(b) = events[pos].ts \div W - w0 + 1
           /\ \A k \in DOMAIN b :
                /\ b[k] = InFlightAfter(Cardinality({j \in 1..pos : events[j].ts \div W < w0 + k}))
                /\ b[k] >= 0

\* After j events: was the statistic above the threshold on a warmed-up detector?
Elevated(j) ==
    LET c == tracer.cfg.peak
        span == events[j].ts - events[1].ts
        high == CHOOSE p \in 0..j : /\ \A i \in 1..j : InFlightAfter(i) <= p
                                    /\ p = 0 \/ \E i \in 1..j : InFlightAfter(i) = p
    IN /\ j >= c.minObs /\ span >= c.warmup /\ span > 0
       /\ 100 * high > c.threshold * span

(* PeakRateDetector keeps a running peak, a clamped in-flight count and a     *)
(* streak that any quiet observation must break. The clamp is never needed,   *)
(* the peak is the largest backlog of the events so far, and the streak is    *)
(* the number of observations since the last that was not elevated.           *)
PeakExact ==
    (Tracing("peak-rate") /\ pos > 0) =>
        LET st == dets["peak-rate"]
        IN /\ st.inFlight = InFlightAfter(pos)
           /\ \A i \in 1..pos : InFlightAfter(i) <= st.peak
           /\ \E i \in 1..pos : InFlightAfter(i) = st.peak
           /\ st.consecutive <= pos
           /\ \A i \in 1..st.consecutive : Elevated(pos - i + 1)
           /\ st.consecutive < pos => ~Elevated(pos - st.consecutive)

(* Level and score of the backlog-drift detector use one multiplier: an       *)
(* Overloaded verdict always carries the full score, and with a multiplier of *)
(* at least one a full score is never reported as Stable. (A tuned slope_k    *)
(* below one, which the tuning file accepts, breaks the second half.)         *)
DriftScoreMatchesLevel ==
    \A i \in DOMAIN sink :
        sink[i].det = "backlog-drift" =>
            /\ sink[i].res.level = Overloaded => sink[i].res.score = "full"
            /\ (sink[i].res.score = "full" /\ tracer.cfg.drift.slopeK >= 100)
                  => sink[i].res.level # Stable

(* Each detector's label is the most frequent level of its trailing window,   *)
(* a tie going to the worse level, so that no level at least as bad and at    *)
(* least as frequent was passed over; and every detector selected gets one.   *)
LabelIsPlurality ==
    tracer.state = "reported" =>
        /\ DOMAIN final = IF events = <<>> THEN {} ELSE ToSet(tracer.names)
        /\ \A n \in DOMAIN final :
             LET recs == RecordsOf(n)
                 votes(l) == Cardinality({i \in DOMAIN recs :
                                /\ recs[i].ts >= events[Len(events)].ts - tracer.window
                                /\ recs[i].res.level = l})
             IN \A l \in Levels \ {final[n]} :
                    IF l > final[n] THEN votes(l) < votes(final[n])
                    ELSE votes(l) <= votes(final[n])

(* resolveBacklogDriftConfig validates the file's block and then calls a      *)
(* constructor that panics on a bad combination: whatever the file sets or    *)
(* leaves out, a tuning that is accepted never makes the constructor panic.   *)
TuningNeverPanics ==
    tracer.state \notin {"off", "refused"} => DriftConstructible(tracer.cfg.drift)
=============================================================================
