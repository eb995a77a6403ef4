----------------------------- MODULE Calibration -----------------------------
(***************************************************************************)
(* blis calibrate (cmd/calibrate.go, sim/workload/calibrate.go and          *)
(* goodput_compare.go): real trace records paired with the results of a     *)
(* replay, and the errors, ratings, goodput and throughput computed on the  *)
(* pairs. cfg is [warm, rtt, perToken]: the requests excluded at the start, *)
(* the network round trip, and the transfer time of a token (0 when no      *)
(* bandwidth is given). All ratios are exact.                               *)
(***************************************************************************)
EXTENDS Goodput

-----------------------------------------------------------------------------
(* The simulator's side: extractSimResults writes one result per request    *)
(* that completed and has a first token.                                    *)

extractSimResults ==
    [k \in {x \in DOMAIN agg.ttfts : x \in DOMAIN agg.e2es /\ x \in DOMAIN agg.requests} |->
        [ttft |-> agg.ttfts[k], e2e |-> agg.e2es[k], itl |-> agg.itls[k],
         in |-> RequestOf(k).in, out |-> RequestOf(k).out,
         class |-> RequestOf(k).rec.slo_class, model |-> RequestOf(k).rec.model]]

-----------------------------------------------------------------------------
(* Pairs. *)

NetworkTTFT(sr, cfg) == cfg.rtt + cfg.perToken * sr.in
NetworkE2E(sr, cfg) == cfg.rtt + cfg.perToken * (sr.in + sr.out)

Found(r, sims, cfg) == r.request_id >= cfg.warm /\ r.request_id \in DOMAIN sims
Pairable(r, sims, cfg) ==
    Found(r, sims, cfg) /\ FirstLatency(r) >= 0 /\ WholeLatency(r) >= 0

\* Mutant: only the records without a simulated counterpart are counted.
UnmatchedRealNoSim(recs, sims, cfg) ==
    Len(SelectSeq(recs, LAMBDA r : r.request_id >= cfg.warm /\ ~Found(r, sims, cfg)))

\* Records that contribute no pair though they are past the warm-up. One with
\* negative latencies counts here and as matched.
UnmatchedReal(recs, sims, cfg) ==
    Len(SelectSeq(recs, LAMBDA r : r.request_id >= cfg.warm /\ ~Pairable(r, sims, cfg)))

PrepareCalibrationPairs(recs, sims, cfg) ==
    LET kept == SelectSeq(recs, LAMBDA r : Pairable(r, sims, cfg))
        sim(i) == sims[kept[i].request_id]
    IN [excluded |-> Len(SelectSeq(recs, LAMBDA r : r.request_id < cfg.warm)),
        matched |-> Len(SelectSeq(recs, LAMBDA r : Found(r, sims, cfg))),
        unmatchedReal |-> UnmatchedReal(recs, sims, cfg),
        unmatchedSim |-> Cardinality({k \in DOMAIN sims :
            ~\E i \in DOMAIN recs : Found(recs[i], sims, cfg) /\ recs[i].request_id = k}),
        ttft |-> [i \in DOMAIN kept |-> [real |-> FirstLatency(kept[i]),
                                         sim |-> sim(i).ttft + NetworkTTFT(sim(i), cfg)]],
        e2e |-> [i \in DOMAIN kept |-> [real |-> WholeLatency(kept[i]),
                                        sim |-> sim(i).e2e + NetworkE2E(sim(i), cfg)]],
        class |-> [i \in DOMAIN kept |-> sim(i).class],
        model |-> [i \in DOMAIN kept |-> sim(i).model]]

\* pairs.BySLO[c]: the pairs whose simulated result has the class, 0 has none.
BySLO(pairs, c) ==
    LET mine == {i \in DOMAIN pairs.class : pairs.class[i] = c}
    IN [i \in 1..Cardinality(mine) |->
          pairs.e2e[CHOOSE j \in mine : Cardinality({k \in mine : k < j}) = i - 1]]

\* PrepareCalibrationPairsWithITL: gaps that are not negative; a request all of
\* whose gaps are negative is dropped.
ITLPairs(recs, sims, chunks, cfg) ==
    LET gaps(id) ==
            LET mine == {c \in chunks : c.id = id}
                ks == SortedSeq(SetToSeq({c.chunk : c \in mine}))
                at(j) == (CHOOSE c \in mine : c.chunk = ks[j]).ts
            IN SelectSeq([j \in 1..(Len(ks) - 1) |-> at(j + 1) - at(j)], LAMBDA d : d >= 0)
        used(r) == /\ r.request_id >= cfg.warm /\ r.request_id \in DOMAIN sims
                   /\ Cardinality({c \in chunks : c.id = r.request_id}) >= 2
        kept == SelectSeq(recs, LAMBDA r : used(r) /\ gaps(r.request_id) # <<>>)
        simITL(sr) == IF sr.out > 1 THEN <<sr.e2e - sr.ttft, sr.out - 1>> ELSE <<0, 1>>
    IN [dropped |-> Len(SelectSeq(recs, LAMBDA r : used(r) /\ gaps(r.request_id) = <<>>)),
        pairs |-> [i \in DOMAIN kept |->
            [real |-> <<Total(gaps(kept[i].request_id)), Len(gaps(kept[i].request_id))>>,
             sim |-> simITL(sims[kept[i].request_id])]]]

-----------------------------------------------------------------------------
(* Errors and ratings on a sequence of pairs. *)

Reals(ps) == [i \in DOMAIN ps |-> ps[i].real]
Sims(ps) == [i \in DOMAIN ps |-> ps[i].sim]
Distance(a, b) == IF a < b THEN b - a ELSE a - b

\* percentileFromSorted.
percentileFromSorted(vals, p) ==
    LET n == Len(vals)
        rank == p * (n - 1)
        lo == rank \div 100 + 1
        hi == (rank + 99) \div 100 + 1
    IN CASE n = 0 -> 0
         [] n = 1 -> 100 * vals[1]
         [] OTHER -> IF lo = hi THEN 100 * vals[lo] ELSE Interpolate(vals, lo, hi, rank)

\* Sum of |real - sim| / real over the pairs with real > 0, and their number.
MAPE(ps) ==
    LET ok == SelectSeq(ps, LAMBDA q : q.real # 0)
        sum[i \in 0..Len(ok)] ==
            IF i = 0 THEN <<0, 1>>
            ELSE <<sum[i - 1][1] * ok[i].real + Distance(ok[i].real, ok[i].sim) * sum[i - 1][2],
                   sum[i - 1][2] * ok[i].real>>
    IN [sum |-> sum[Len(ok)], n |-> Len(ok)]

\* mape < percent / 100.
MAPEBelow(m, percent) == m.n = 0 \/ 100 * m.sum[1] < percent * m.n * m.sum[2]

\* pearsonCorrelation, as <<numerator, squared denominator>>; a zero
\* denominator gives 0.
pearsonCorrelation(ps) ==
    LET n == Len(ps)
        sum(F(_)) == Total([i \in DOMAIN ps |-> F(ps[i])])
        x == sum(LAMBDA q : q.real)
        y == sum(LAMBDA q : q.sim)
        xx == sum(LAMBDA q : q.real * q.real)
        yy == sum(LAMBDA q : q.sim * q.sim)
        xy == sum(LAMBDA q : q.real * q.sim)
    IN <<n * xy - x * y, (n * xx - x * x) * (n * yy - y * y)>>

\* r > percent / 100.
CorrelationAbove(r, percent) == r[2] # 0 /\ r[1] > 0 /\ 10000 * r[1] * r[1] > percent * percent * r[2]

qualityRating(mape, r) ==
    CASE MAPEBelow(mape, 10) /\ CorrelationAbove(r, 95) -> "excellent"
      [] ~(MAPEBelow(mape, 10) /\ CorrelationAbove(r, 95))
           /\ MAPEBelow(mape, 20) /\ CorrelationAbove(r, 85) -> "good"
      [] ~(MAPEBelow(mape, 20) /\ CorrelationAbove(r, 85))
           /\ MAPEBelow(mape, 35) /\ CorrelationAbove(r, 70) -> "fair"
      [] OTHER -> "poor"

Sign(x) == IF x > 0 THEN "over-predict" ELSE IF x < 0 THEN "under-predict" ELSE "neutral"

\* BiasDirection, over the pairs that count for the MAPE.
BiasDirection(ps) ==
    LET ok == SelectSeq(ps, LAMBDA q : q.real # 0)
    IN IF ok = <<>> THEN "" ELSE Sign(Total(Sims(ok)) - Total(Reals(ok)))

\* ComputeCalibration. meanError is the error of the means times the count.
ComputeCalibration(ps) ==
    LET real == SortedSeq(Reals(ps))
        sim == SortedSeq(Sims(ps))
    IN [count |-> Len(ps),
        meanError |-> Total(sim) - Total(real),
        errors |-> [p \in {50, 90, 95, 99} |->
                      percentileFromSorted(sim, p) - percentileFromSorted(real, p)],
        mape |-> MAPE(ps),
        bias |-> BiasDirection(ps),
        quality |-> qualityRating(MAPE(ps),
                        IF Len(ps) >= 3 THEN pearsonCorrelation(ps) ELSE <<0, 0>>)]

-----------------------------------------------------------------------------
(* Goodput and throughput on the matched requests. *)

\* The matched set of calibrate's Run.
MatchedIds(recs, sims, cfg) ==
    {recs[i].request_id : i \in {j \in DOMAIN recs : /\ recs[j].request_id >= cfg.warm
                                                     /\ recs[j].request_id \in DOMAIN sims}}

CalibrateRealGood(rec, chunks, t) ==
    LET mean == PositiveGaps(chunks, rec.request_id)
    IN /\ rec.status = Ok
       /\ FirstLatency(rec) > 0 /\ WholeLatency(rec) > 0
       /\ WholeLatency(rec) >= FirstLatency(rec)
       /\ t.ttft > 0 => FirstLatency(rec) <= t.ttft
       /\ t.e2e > 0 => WholeLatency(rec) <= t.e2e
       /\ t.itl > 0 => mean[2] > 0 /\ MeanWithin(mean, t.itl)

\* A simulated inter-token mean of 0 counts as missing.
CalibrateSimGood(sr, t) ==
    /\ sr.ttft > 0 /\ sr.e2e > 0 /\ sr.e2e >= sr.ttft
    /\ t.ttft > 0 => sr.ttft <= t.ttft
    /\ t.e2e > 0 => sr.e2e <= t.e2e
    /\ t.itl > 0 => sr.itl[1] > 0 /\ MeanWithin(sr.itl, t.itl)

ComputeGoodputComparison(recs, sims, matched, chunks, targets) ==
    [c \in DOMAIN targets |->
        LET mine == {i \in DOMAIN recs : /\ Countable(recs[i]) /\ recs[i].request_id \in matched
                                         /\ RecordClass(recs[i]) = c}
            good(P(_)) == Cardinality({i \in mine : P(recs[i])})
        IN [count |-> Cardinality(mine),
            realGood |-> good(LAMBDA r : CalibrateRealGood(r, chunks, targets[c])),
            simGood |-> good(LAMBDA r : CalibrateSimGood(sims[r.request_id], targets[c]))]]

\* ComputeThroughputComparison: both makespans start at the earliest send; the
\* simulated one ends when the last request would have ended at its client.
\* <<>> when there is nothing to compare.
ComputeThroughputComparison(recs, sims, matched, cfg) ==
    LET usable(r) == /\ r.request_id \in matched /\ r.status = Ok
                     /\ r.send_time_us >= 0 /\ r.last_chunk_time_us > r.send_time_us
        kept == SelectSeq(recs, usable)
        sr(i) == sims[kept[i].request_id]
        start == Least({kept[i].send_time_us : i \in DOMAIN kept})
        realEnd == Greatest({kept[i].last_chunk_time_us : i \in DOMAIN kept})
        simEnd == Greatest({kept[i].send_time_us + sr(i).e2e + NetworkE2E(sr(i), cfg) : i \in DOMAIN kept})
        out == [real |-> Total([i \in DOMAIN kept |-> kept[i].output_tokens]),
                sim |-> Total([i \in DOMAIN kept |-> sr(i).out])]
    IN IF kept = <<>> THEN <<>>
       ELSE IF realEnd <= start \/ simEnd <= start \/ out.real = 0 THEN <<>>
       ELSE <<[matched |-> Len(kept), realTime |-> realEnd - start,
               simTime |-> simEnd - start, tokens |-> out]>>
=============================================================================
