------------------------------ MODULE Generator ------------------------------
(***************************************************************************)
(* Eager workload generation (sim/workload/generator.go): what             *)
(* GenerateRequests and GenerateWorkload compute from a list of clients,   *)
(* the draws of their random generators and the request cap.  The lazy     *)
(* source of Stream.tla has to emit the same list one request at a time.   *)
(*                                                                         *)
(* A client is a record                                                    *)
(*   kind   "shot" (independent requests), "single" (one reasoning         *)
(*          session), "multi" (a session per arrival) or "conc" (a fixed   *)
(*          number of concurrent users);                                   *)
(*   closed "yes", "no" or "unset" (ClosedLoop, a *bool);                  *)
(*   win    its lifecycle windows [s, e, tr] (<<>>: no lifecycle), tr the  *)
(*          window's trace rate or NoRate;                                 *)
(*   frac, rounds, think, users  the numbers of the same names.            *)
(* A client's draws are [iat, gap]: successive inter-arrival times, and    *)
(* the output length of each session (Bad: token generation fails there).  *)
(* A request is [at, client, sess, round]; sess = 0 outside a session.     *)
(***************************************************************************)
EXTENDS Integers, Sequences, FiniteSets, SequencesExt

CONSTANTS Horizon,      \* microseconds of workload, GenerateRequests' horizon
          NoRate,       \* window.TraceRate == nil
          Bad           \* a draw at which GenerateReasoningRequests fails

ASSUME HorizonAssumption == Horizon \in Nat
ASSUME MarkersAssumption == NoRate \notin Nat /\ Bad \notin Nat

Max0(n) == IF n < 0 THEN 0 ELSE n

(* The mix that Validate refuses: the follow-up budget of concurrency users
   does not account for the follow-ups of closed-loop sessions. *)
IsMultiTurn(cl) == cl.kind \in {"single", "multi"}

Validate(cs) ==
    ~ /\ \E c \in DOMAIN cs : cs[c].kind = "conc"
      /\ \E c \in DOMAIN cs : IsMultiTurn(cs[c])

isClosedLoop(cl) == IF cl.closed = "unset" THEN IsMultiTurn(cl) ELSE cl.closed = "yes"

hasPerWindowParameters(cs) ==
    \E c \in DOMAIN cs : \E w \in DOMAIN cs[c].win : cs[c].win[w].tr # NoRate

isInActiveWindow(t, cl) ==
    cl.win # <<>> => \E w \in DOMAIN cl.win : cl.win[w].s <= t /\ t < cl.win[w].e
(* currentTime >= lastWindowEndUs *)
PastLastWindow(t, cl) == \A w \in DOMAIN cl.win : cl.win[w].e <= t

(* SampleIAT: zero when a custom sampler has nothing left. *)
SampleIAT(d, i) == IF i <= Len(d.iat) THEN d.iat[i] ELSE 0
SampleGap(d, k) == d.gap[((k - 1) % Len(d.gap)) + 1]

Shot(c, t) == [at |-> t, client |-> c, sess |-> 0, round |-> 0]
(* GenerateReasoningRequests: each round follows the previous one by the
   think time and the previous output's length. *)
Session(c, cl, k, start, gap) ==
    [r \in 1..cl.rounds |->
        [at |-> start + (r - 1) * (cl.think + gap), client |-> c, sess |-> k, round |-> r - 1]]

(* The rounds of a session that are before the horizon and in a window. *)
KeptRounds(rounds, cl) ==
    SelectSeq(rounds, LAMBDA r : r.at < Horizon /\ isInActiveWindow(r.at, cl))

perClientCap(max) == 2 * max
Capped(max, n) == max > 0 /\ n >= perClientCap(max)

-----------------------------------------------------------------------------
(* One client's requests, in the order in which GenerateRequests appends
   them.  G[i] is the loop's state after i draws. *)
Generated(c, cl, d, max) ==
    LET Start == [t |-> 0, n |-> 0, k |-> 0, reqs |-> <<>>, stop |-> FALSE, bad |-> FALSE]
        Draw(g, i) ==
            LET iat == SampleIAT(d, i)
                t == g.t + iat
                k == g.k + 1
                gap == SampleGap(d, k)
            IN  IF Capped(max, g.n) \/ iat = 0 \/ t >= Horizon \/ (~isInActiveWindow(t, cl) /\ PastLastWindow(t, cl))
                THEN [g EXCEPT !.stop = TRUE]
                ELSE IF ~isInActiveWindow(t, cl) THEN [g EXCEPT !.t = t]
                ELSE IF gap = Bad THEN [g EXCEPT !.stop = TRUE, !.bad = TRUE]
                ELSE LET rounds == IF cl.kind = "multi" THEN Session(c, cl, k, t, gap) ELSE <<Shot(c, t)>>
                     IN  [g EXCEPT !.t = t, !.k = k, !.n = @ + Len(rounds),
                                   !.reqs = @ \o KeptRounds(rounds, cl)]
        G[i \in 0..Len(d.iat) + 1] ==
            IF i = 0 THEN Start ELSE IF G[i - 1].stop THEN G[i - 1] ELSE Draw(G[i - 1], i)
    IN  G[Len(d.iat) + 1]

(* Single-session clients start once, one draw after their first window opens. *)
SessionStart(cl, d) == SampleIAT(d, 1) + IF cl.win = <<>> THEN 0 ELSE cl.win[1].s
SessionStarts(cl, d) ==
    /\ SampleIAT(d, 1) # 0
    /\ SessionStart(cl, d) < Horizon
    /\ isInActiveWindow(SessionStart(cl, d), cl)

GeneratedSingle(c, cl, d) ==
    IF ~SessionStarts(cl, d) THEN [reqs |-> <<>>, bad |-> FALSE]
    ELSE IF SampleGap(d, 1) = Bad THEN [reqs |-> <<>>, bad |-> TRUE]
    ELSE [reqs |-> KeptRounds(Session(c, cl, 1, SessionStart(cl, d), SampleGap(d, 1)), cl), bad |-> FALSE]

-----------------------------------------------------------------------------
(* Time-varying workloads: every window has its own rate. *)
windowRate(cl, w) == IF cl.win[w].tr = NoRate THEN cl.frac ELSE cl.win[w].tr

SumSeq(s) == FoldSeq(LAMBDA x, y : x + y, 0, s)

(* The rate fractions that share a window, each other client counted once:
   by its first overlapping window, or always when it has no lifecycle. *)
Overlaps(a, b) == a.s < b.e /\ b.s < a.e
RateIn(cl, w) ==
    IF cl.win = <<>> THEN cl.frac
    ELSE LET hits == {v \in DOMAIN cl.win : Overlaps(cl.win[v], w)}
         IN  IF hits = {} THEN 0 ELSE windowRate(cl, CHOOSE v \in hits : \A u \in hits : v <= u)
totalTraceRate(cs, w) == SumSeq([c \in DOMAIN cs |-> RateIn(cs[c], w)])

Ceil(a, b) == (a + b - 1) \div b
(* computeProportionalRate and math.Ceil(rate * duration). *)
numRequests(cs, cl, w, aggregate) ==
    LET dur == w.e - w.s
        rate == IF w.tr = NoRate THEN cl.frac ELSE w.tr
        total == totalTraceRate(cs, w)
    IN  IF aggregate = 0 /\ w.tr # NoRate THEN rate * dur
        ELSE IF total = 0 THEN 0 ELSE Ceil(aggregate * rate * dur, total)

(* The last gap takes what rounding left over, so the gaps fill the window. *)
rescaleIATsToMatchDuration(iats, dur) ==
    LET sum == SumSeq(iats)
        scaled == [i \in DOMAIN iats |-> (iats[i] * dur) \div sum]
    IN  IF sum = 0 THEN iats
        ELSE [scaled EXCEPT ![Len(iats)] = @ + dur - SumSeq(scaled)]

(* generateRequestsForWindow: numRequests + 1 gaps scaled to the window; a
   start at or past the window's end ends the loop, a round past it is cut.
   p and k are the draws and the sessions the client used before. *)
DrawCyclic(d, i) == d.iat[((i - 1) % Len(d.iat)) + 1]
WindowStarts(w, iats) == [i \in DOMAIN iats |-> w.s + SumSeq(SubSeq(iats, 1, i))]
RequestsAt(c, cl, d, w, p, k, starts) ==
    LET tried == 1..(IF cl.kind = "single" THEN 1 ELSE Len(starts) - 1)
        m == Cardinality({i \in tried : \A j \in 1..i : starts[j] < w.e})
        rounds(i) == IF IsMultiTurn(cl)
                     THEN SelectSeq(Session(c, cl, k + i, starts[i], SampleGap(d, k + i)), LAMBDA r : r.at < w.e)
                     ELSE <<Shot(c, starts[i])>>
    IN  IF IsMultiTurn(cl) /\ \E i \in 1..m : SampleGap(d, k + i) = Bad
        THEN [reqs |-> <<>>, p |-> p, k |-> k, bad |-> TRUE]
        ELSE [reqs |-> FlattenSeq([i \in 1..m |-> rounds(i)]), p |-> p + Len(starts), k |-> k + m, bad |-> FALSE]
WindowBatch(cs, aggregate, c, d, w, p, k) ==
    LET n == numRequests(cs, cs[c], w, aggregate)
        iats == rescaleIATsToMatchDuration([i \in 1..n + 1 |-> DrawCyclic(d, p + i)], w.e - w.s)
    IN  IF n = 0 THEN [reqs |-> <<>>, p |-> p, k |-> k, bad |-> FALSE]
        ELSE RequestsAt(c, cs[c], d, w, p, k, WindowStarts(w, iats))

ClipWindow(w) == IF w.e > Horizon THEN [w EXCEPT !.e = Horizon] ELSE w

(* All windows of one client in spec order; a window past the horizon is
   skipped, one that crosses it is cut. *)
GeneratedWindows(cs, aggregate, c, d) ==
    LET win == cs[c].win
        G[i \in 0..Len(win)] ==
            IF i = 0 THEN [reqs |-> <<>>, p |-> 0, k |-> 0, bad |-> FALSE]
            ELSE IF G[i - 1].bad \/ win[i].s >= Horizon THEN G[i - 1]
            ELSE LET b == WindowBatch(cs, aggregate, c, d, ClipWindow(win[i]), G[i - 1].p, G[i - 1].k)
                 IN  [b EXCEPT !.reqs = G[i - 1].reqs \o @]
    IN  G[Len(win)]

-----------------------------------------------------------------------------
(* sort.SliceStable by ArrivalTime. *)
StableSort(reqs) ==
    LET before(i, j) == reqs[i].at < reqs[j].at \/ (reqs[i].at = reqs[j].at /\ i < j)
        rank(i) == 1 + Cardinality({j \in DOMAIN reqs : before(j, i)})
    IN  [p \in DOMAIN reqs |-> reqs[CHOOSE i \in DOMAIN reqs : rank(i) = p]]

Truncate(reqs, max) == IF max > 0 /\ Len(reqs) > max THEN SubSeq(reqs, 1, max) ELSE reqs

GeneratedBy(cs, aggregate, c, d, max) ==
    IF cs[c].kind = "conc" \/ Horizon = 0 THEN [reqs |-> <<>>, bad |-> FALSE]
    ELSE IF hasPerWindowParameters(cs) THEN GeneratedWindows(cs, aggregate, c, d)
    ELSE IF cs[c].kind = "single" THEN GeneratedSingle(c, cs[c], d)
    ELSE Generated(c, cs[c], d, max)

MergedByArrival(all, max) ==
    [bad |-> \E c \in DOMAIN all : all[c].bad,
     reqs |-> Truncate(StableSort(FlattenSeq([c \in DOMAIN all |-> all[c].reqs])), max)]
GenerateRequests(cs, aggregate, ds, max) ==
    MergedByArrival([c \in DOMAIN cs |-> GeneratedBy(cs, aggregate, c, ds[c], max)], max)

(* generateConcurrencySeedsAndBlueprints: one seed per user, staggered over
   the think time, until the cap is reached. *)
Seeds(cs, max, alreadyKept) ==
    LET seed(c, u) == [at |-> IF cs[c].users > 1 THEN (u * cs[c].think) \div cs[c].users ELSE 0,
                       client |-> c, sess |-> u + 1, round |-> 0]
        ofClient(c) == IF cs[c].kind = "conc" THEN [u \in 1..cs[c].users |-> seed(c, u - 1)] ELSE <<>>
        all == FlattenSeq([c \in DOMAIN cs |-> ofClient(c)])
        room == Max0(max - alreadyKept)
    IN  IF max > 0 /\ Len(all) > room THEN SubSeq(all, 1, room) ELSE all

totalUsers(cs) == SumSeq([c \in DOMAIN cs |-> IF cs[c].kind = "conc" THEN cs[c].users ELSE 0])
(* -1: no budget. *)
concurrencyFollowUpBudget(cs, max, total) ==
    IF max > 0 /\ totalUsers(cs) > 0 THEN Max0(max - total) ELSE -1

(* The sessions of closed-loop clients whose round 0 survived the cap; only
   their round 0 is in the list, the other rounds come from the session
   manager as the previous ones complete. *)
ClosedSessions(cs, reqs) ==
    {<<reqs[i].client, reqs[i].sess>> : i \in
        {j \in DOMAIN reqs : /\ reqs[j].sess # 0 /\ reqs[j].round = 0
                             /\ isClosedLoop(cs[reqs[j].client]) /\ IsMultiTurn(cs[reqs[j].client])}}

SessionsOf(reqs) == {<<reqs[i].client, reqs[i].sess>> : i \in DOMAIN reqs}

WithSessions(cs, max, g, closed) ==
    LET kept == SelectSeq(g.reqs, LAMBDA r : <<r.client, r.sess>> \in closed => r.round = 0)
        seeds == Seeds(cs, max, Len(kept))
    IN  [bad |-> g.bad, requests |-> StableSort(kept \o seeds), sessions |-> closed \cup SessionsOf(seeds),
         budget |-> concurrencyFollowUpBudget(cs, max, Len(kept) + Len(seeds))]
(* closed sessions, then concurrency seeds, are added to the generated list *)
WithClosed(cs, max, g) == WithSessions(cs, max, g, ClosedSessions(cs, g.reqs))
GenerateWorkload(cs, aggregate, ds, max) == WithClosed(cs, max, GenerateRequests(cs, aggregate, ds, max))
==============================================================================
