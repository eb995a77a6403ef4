------------------------------- MODULE Stream -------------------------------
(***************************************************************************)
(* The lazy request source (sim/workload/stream.go): a k-way merge over    *)
(* per-client producers that hold only what they must.  A first pass over  *)
(* clones of the producers (enumerateSurvivingSessionsPerClient) counts    *)
(* what the cap keeps and which sessions survive it, then the producers    *)
(* are built again and Next pulls requests one at a time.                  *)
(*                                                                         *)
(* One call of produceNext is a loop; Produce is one iteration of it.      *)
(* Everything between two calls of Next is sequential code.                *)
(***************************************************************************)
EXTENDS Generator

CONSTANT NoReq          \* no request held

VARIABLES work,         \* [cs, agg, ds, max]: the spec, its draws, the cap
          eager,        \* GenerateWorkload(work): what the eager generator returns
          pass,         \* "dry" (cloned producers) or "run"
          st,           \* per client: clientStreamState
          heap,         \* heapByArrival: entries [at, client, seq, req]
          prime,        \* the next client to prime
          cur,          \* the client whose produceNext is running, 0 if none
          held,         \* the request Next popped and has not handed out yet
          popped,       \* pops of this pass
          kept,         \* keptOpen: the pops of the dry pass
          sessions,     \* blueprints: the sessions the session manager will know
          budget,       \* the follow-up budget returned with the source
          seeded,       \* concurrency seeds are in the heap
          out,          \* the requests Next returned
          ended         \* Next returned false
streamVars == <<work, eager, pass, st, heap, prime, cur, held, popped, kept, sessions, budget, seeded, out, ended>>

N == Len(work.cs)
client(c) == work.cs[c]
isTimeVarying == hasPerWindowParameters(work.cs)
closedState(c) == isClosedLoop(client(c)) /\ (isTimeVarying \/ IsMultiTurn(client(c)))

(* buildClientStreamState *)
FreshState == [pos |-> 0, t |-> 0, k |-> 0, n |-> 0, live |-> {}, pend |-> <<>>, wi |-> 1,
               building |-> FALSE, done |-> FALSE, exhausted |-> FALSE, err |-> FALSE, seq |-> 0]

Again(s) == [s |-> s, req |-> NoReq]
Emit(s, r) == [s |-> [s EXCEPT !.seq = @ + 1], req |-> r]
Exhaust(s) == [s |-> [s EXCEPT !.exhausted = TRUE], req |-> NoReq]
(* mutant: the client stops and says nothing *)
stopSilently(s) == [s |-> [s EXCEPT !.exhausted = TRUE], req |-> NoReq]

recordError(s) == [s |-> [s EXCEPT !.exhausted = TRUE, !.err = TRUE], req |-> NoReq]

(* A live session or window batch is [idx, rest]: its unread requests. *)
HeadBefore(a, b) == a.rest[1].at < b.rest[1].at \/ (a.rest[1].at = b.rest[1].at /\ a.idx < b.idx)
Top(live) == CHOOSE a \in live : \A b \in live \ {a} : HeadBefore(a, b)
Advance(live, a) ==
    (live \ {a}) \cup IF Len(a.rest) = 1 THEN {} ELSE {[a EXCEPT !.rest = Tail(@)]}

-----------------------------------------------------------------------------
produceNextSingleShot(c, cl, d, s) ==
    LET iat == SampleIAT(d, s.pos + 1)
        s1 == [s EXCEPT !.pos = @ + 1, !.t = @ + iat]
    IN  IF \/ iat = 0 \/ s1.t >= Horizon
           \/ ~isInActiveWindow(s1.t, cl) /\ PastLastWindow(s1.t, cl)
        THEN Exhaust(s1)
        ELSE IF ~isInActiveWindow(s1.t, cl) THEN Again(s1)
        ELSE IF SampleGap(d, s.k + 1) = Bad THEN recordError(s1)
        ELSE Emit([s1 EXCEPT !.k = @ + 1], Shot(c, s1.t))

produceNextSingleSession(c, cl, d, s) ==
    IF s.pend # <<>>
    THEN LET r == Head(s.pend)
             s1 == [s EXCEPT !.pend = Tail(@)]
         IN  IF r.at >= Horizon THEN Again([s EXCEPT !.pend = <<>>])
             ELSE IF isInActiveWindow(r.at, cl) THEN Emit(s1, r) ELSE Again(s1)
    ELSE IF s.done \/ ~SessionStarts(cl, d) THEN Exhaust([s EXCEPT !.done = TRUE])
    ELSE IF SampleGap(d, 1) = Bad THEN recordError([s EXCEPT !.done = TRUE])
    ELSE Again([s EXCEPT !.done = TRUE, !.pend = Session(c, cl, 1, SessionStart(cl, d), SampleGap(d, 1))])

(* mutant: the head is emitted whatever may still be built before it *)
canEmitAnyHead(s) == s.live # {}

(* A session that starts later cannot come before the head once the build
   clock has reached it. *)
canEmitSession(s) == s.live # {} /\ (s.done \/ Top(s.live).rest[1].at <= s.t)

buildNextSession(c, cl, d, s) ==
    LET iat == SampleIAT(d, s.pos + 1)
        s1 == [s EXCEPT !.pos = @ + 1, !.t = @ + iat]
        rounds == Session(c, cl, s.k + 1, s1.t, SampleGap(d, s.k + 1))
    IN  IF s.t >= Horizon \/ Capped(work.max, s.n) \/ iat = 0 THEN Again([s EXCEPT !.done = TRUE])
        ELSE IF \/ s1.t >= Horizon
                \/ ~isInActiveWindow(s1.t, cl) /\ PastLastWindow(s1.t, cl)
        THEN Again([s1 EXCEPT !.done = TRUE])
        ELSE IF ~isInActiveWindow(s1.t, cl) THEN Again(s1)
        ELSE IF SampleGap(d, s.k + 1) = Bad THEN recordError(s1)
        ELSE Again([s1 EXCEPT !.k = @ + 1, !.n = @ + Len(rounds),
                              !.live = @ \cup {[idx |-> s.k + 1, rest |-> rounds]}])

produceNextMultiSession(c, cl, d, s) ==
    IF canEmitSession(s)
    THEN LET a == Top(s.live)
             s1 == [s EXCEPT !.live = Advance(@, a)]
         IN  IF a.rest[1].at >= Horizon THEN Again([s EXCEPT !.live = @ \ {a}])
             ELSE IF isInActiveWindow(a.rest[1].at, cl) THEN Emit(s1, a.rest[1]) ELSE Again(s1)
    ELSE IF s.done THEN Exhaust(s) ELSE buildNextSession(c, cl, d, s)

(* computeSuffixMinStart: no window still to build starts before this. *)
suffixMinStart(cl, wi, t) == \A w \in wi..Len(cl.win) : t <= cl.win[w].s
canEmitWindow(cl, s) ==
    s.live # {} /\ ~s.building /\ (s.done \/ suffixMinStart(cl, s.wi, Top(s.live).rest[1].at))

AddWindow(s, b) ==
    IF b.bad THEN recordError(s)
    ELSE IF b.reqs = <<>> THEN Again([s EXCEPT !.pos = b.p, !.k = b.k])
    ELSE Again([s EXCEPT !.pos = b.p, !.k = b.k, !.building = FALSE,
                         !.live = @ \cup {[idx |-> s.wi - 1, rest |-> StableSort(b.reqs)]}])
buildNextTimeVaryingWindow(c, cl, d, s) ==
    LET w == cl.win[s.wi]
        s1 == [s EXCEPT !.wi = @ + 1, !.building = TRUE]
    IN  IF s.wi > Len(cl.win) THEN Again([s EXCEPT !.done = TRUE, !.building = FALSE])
        ELSE IF w.s >= Horizon THEN Again(s1)
        ELSE AddWindow(s1, WindowBatch(work.cs, work.agg, c, d, ClipWindow(w), s.pos, s.k))

produceNextTimeVarying(c, cl, d, s) ==
    IF canEmitWindow(cl, s)
    THEN Emit([s EXCEPT !.live = Advance(@, Top(s.live))], Top(s.live).rest[1])
    ELSE IF s.done THEN Exhaust(s) ELSE buildNextTimeVaryingWindow(c, cl, d, s)

produceNext(c) ==
    LET cl == client(c)
        d == work.ds[c]
        s == st[c]
    IN  IF isTimeVarying THEN produceNextTimeVarying(c, cl, d, s)
        ELSE IF cl.kind = "single" THEN produceNextSingleSession(c, cl, d, s)
        ELSE IF cl.kind = "multi" THEN produceNextMultiSession(c, cl, d, s)
        ELSE produceNextSingleShot(c, cl, d, s)

-----------------------------------------------------------------------------
Entry(c, s, r) == [at |-> r.at, client |-> c, seq |-> s.seq, req |-> r]
EntryBefore(a, b) ==
    \/ a.at < b.at
    \/ a.at = b.at /\ a.client < b.client
    \/ a.at = b.at /\ a.client = b.client /\ a.seq < b.seq
HeapTop == CHOOSE a \in heap : \A b \in heap \ {a} : EntryBefore(a, b)
CapReached == work.max > 0 /\ popped >= work.max

SourceIdle == cur = 0 /\ held = NoReq
Primed == SourceIdle /\ prime > N

(* The producers are primed in client order; concurrency clients and, for a
   time-varying workload, clients without windows have no producer. *)
HasProducer(c) == client(c).kind # "conc" /\ Horizon > 0 /\ (isTimeVarying => client(c).win # <<>>)
Prime ==
    /\ SourceIdle /\ prime <= N
    /\ prime' = prime + 1
    /\ cur' = IF HasProducer(prime) THEN prime ELSE 0
    /\ UNCHANGED <<work, eager, pass, st, heap, held, popped, kept, sessions, budget, seeded, out, ended>>

(* One iteration of produceNext; an emitted request goes into the heap. *)
Produce ==
    /\ cur # 0
    /\ \E p \in {produceNext(cur)} :
           /\ st' = [st EXCEPT ![cur] = p.s]
           /\ heap' = heap \cup IF p.req = NoReq THEN {} ELSE {Entry(cur, p.s, p.req)}
           /\ cur' = IF p.req # NoReq \/ p.s.exhausted THEN 0 ELSE cur
    /\ UNCHANGED <<work, eager, pass, prime, held, popped, kept, sessions, budget, seeded, out, ended>>

(* The heap's top is taken off and its producer asked for the next one
   before the popped request is looked at. *)
Pop ==
    /\ Primed /\ (pass = "run" => seeded) /\ ~ended
    /\ ~CapReached /\ heap # {}
    /\ held' = HeapTop.req
    /\ heap' = heap \ {HeapTop}
    /\ cur' = IF HeapTop.client <= N THEN HeapTop.client ELSE 0
    /\ popped' = popped + 1
    /\ UNCHANGED <<work, eager, pass, st, prime, kept, sessions, budget, seeded, out, ended>>

(* The dry pass only notes the sessions whose round 0 the cap keeps. *)
Survives(r) == r.sess # 0 /\ r.round = 0 /\ closedState(r.client) /\ IsMultiTurn(client(r.client))
Enumerate ==
    /\ pass = "dry" /\ cur = 0 /\ held # NoReq
    /\ sessions' = sessions \cup IF Survives(held) THEN {<<held.client, held.sess>>} ELSE {}
    /\ held' = NoReq
    /\ UNCHANGED <<work, eager, pass, st, heap, prime, cur, popped, kept, budget, seeded, out, ended>>

EndEnumerate ==
    /\ pass = "dry" /\ Primed /\ (CapReached \/ heap = {})
    /\ pass' = "run" /\ kept' = popped /\ popped' = 0
    /\ st' = [c \in DOMAIN st |-> FreshState] /\ heap' = {} /\ prime' = 1
    /\ UNCHANGED <<work, eager, cur, held, sessions, budget, seeded, out, ended>>

(* appendConcurrencySeedsToHeap: seeds sort after every client at a tie. *)
AddSeeds ==
    /\ pass = "run" /\ Primed /\ ~seeded
    /\ LET seeds == Seeds(work.cs, work.max, kept)
       IN  /\ heap' = heap \cup {[at |-> seeds[g].at, client |-> N + 1, seq |-> g, req |-> seeds[g]] : g \in DOMAIN seeds}
           /\ sessions' = sessions \cup SessionsOf(seeds)
           /\ budget' = concurrencyFollowUpBudget(work.cs, work.max, kept + Len(seeds))
    /\ seeded' = TRUE
    /\ UNCHANGED <<work, eager, pass, st, prime, cur, held, popped, kept, out, ended>>

(* The rounds after the first of a closed-loop client are dropped here. *)
Suppressed(r) == closedState(r.client) /\ r.round # 0
Yield ==
    /\ pass = "run" /\ cur = 0 /\ held # NoReq /\ ~Suppressed(held)
    /\ out' = Append(out, held) /\ held' = NoReq
    /\ UNCHANGED <<work, eager, pass, st, heap, prime, cur, popped, kept, sessions, budget, seeded, ended>>
Suppress ==
    /\ pass = "run" /\ cur = 0 /\ held # NoReq /\ Suppressed(held)
    /\ held' = NoReq
    /\ UNCHANGED <<work, eager, pass, st, heap, prime, cur, popped, kept, sessions, budget, seeded, out, ended>>

SourceEnds ==
    /\ pass = "run" /\ Primed /\ seeded /\ ~ended
    /\ CapReached \/ heap = {}
    /\ ended' = TRUE
    /\ UNCHANGED <<work, eager, pass, st, heap, prime, cur, held, popped, kept, sessions, budget, seeded, out>>

Err == \E c \in DOMAIN st : st[c].err

StreamInit(w) ==
    /\ work = w /\ eager = GenerateWorkload(w.cs, w.agg, w.ds, w.max)
    /\ pass = "dry" /\ st = [c \in DOMAIN w.cs |-> FreshState]
    /\ heap = {} /\ prime = 1 /\ cur = 0 /\ held = NoReq /\ popped = 0
    /\ kept = 0 /\ sessions = {} /\ budget = -1 /\ seeded = FALSE /\ out = <<>> /\ ended = FALSE
=============================================================================
