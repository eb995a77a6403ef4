------------------------------ MODULE Workload ------------------------------
(***************************************************************************)
(* The workload side of a run: either a lazy source generated from a spec  *)
(* (blis run) with the session manager behind it, or a recorded corpus     *)
(* replayed closed-loop (blis replay), alone or through a session pool.    *)
(* The simulator is the environment: it pulls the source, and each request *)
(* it accepted ends at a later tick, complete, cut short by a length cap,  *)
(* timed out or dropped; a request it refuses just disappears.             *)
(***************************************************************************)
EXTENDS Stream, Sessions

CONSTANTS Workloads,    \* the specs, draws and caps a run may have
          Corpora,      \* recorded corpora: [ids, rounds, prefix, acc]
          Pools,        \* [concurrent, total] of a pooled replay
          ServiceTimes, \* ticks between injection and completion
          MaxFaults     \* bound on requests cut short, timed out, dropped or refused

VARIABLE faults         \* how many of those happened so far

ASSUME ServiceAssumption == ServiceTimes \subseteq Nat \ {0}

workloadVars == <<streamVars, sessVars, faults>>

Quiescent == Primed /\ pass = "run" /\ seeded

(* The blueprint of a generated session: constant samplers. *)
GeneratedBlueprint(cl) ==
    [rounds |-> cl.rounds, unlimited |-> cl.kind = "conc", acc |-> cl.acc, prefix |-> cl.prefix, clone |-> FALSE,
     recorded |-> <<>>, ins |-> <<1>>, outs |-> <<1>>, think |-> <<cl.think>>, resets |-> <<>>]
GeneratedRequest(r, cl) ==
    [sid |-> <<r.client, r.sess>>, round |-> 0, at |-> r.at, out |-> 1,
     in |-> Prefix(GeneratedBlueprint(cl)) \o Tokens(<<"in", <<r.client, r.sess>>, 0>>, 1)]

-----------------------------------------------------------------------------
NoSessions ==
    /\ bp = <<>> /\ mgr = <<>> /\ short = <<>> /\ ran = <<>> /\ inflight = {} /\ followUps = 0 /\ cap = -1
    /\ queued = <<>> /\ nextQueued = 1 /\ pooled = 0 /\ lost = {} /\ faults = 0

InitGenerated == \E w \in Workloads : Validate(w.cs) /\ StreamInit(w) /\ NoSessions

NoWork == [cs |-> <<>>, agg |-> 0, ds |-> <<>>, max |-> 0]
Recorded(corpus, id) == EncodeSessionToTraceRecords(corpus.rounds[Origin(id)])

(* closed-loop replay of a corpus: all of it at once, or through a pool *)
InitReplay ==
    \E corpus \in Corpora : \E pool \in Pools \cup {[concurrent |-> 0, total |-> Len(corpus.ids)]} :
        LET ids == PoolIds(corpus.ids, pool.total)
            recs(id) == Recorded(corpus, id)
            base(id) == Blueprint(recs(id), corpus.rounds[Origin(id)], corpus.prefix, corpus.acc)
            isClone(id) == id[2] # 0
            zero(id) == RoundZero(Origin(id), recs(id)[1], base(id))
            r0 == [i \in DOMAIN ids |-> IF isClone(ids[i]) THEN CloneRoundZero(zero(ids[i]), ids[i]) ELSE zero(ids[i])]
            first == IF pool.concurrent = 0 THEN Len(ids) ELSE pool.concurrent
        IN  /\ pool.concurrent <= pool.total
            /\ StreamInit(NoWork)
            /\ bp = [id \in {ids[i] : i \in DOMAIN ids} |-> IF isClone(id) THEN cloneBlueprintForDup(base(id)) ELSE base(id)]
            /\ mgr = [id \in DOMAIN bp |-> NewSession] /\ short = [id \in DOMAIN bp |-> 0]
            /\ ran = [id \in DOMAIN bp |-> [rounds |-> <<>>, thinks |-> <<>>]]
            /\ inflight = {r0[i] : i \in 1..first} /\ nextQueued = first + 1
            /\ queued = r0 /\ pooled = pool.concurrent
            /\ followUps = 0 /\ cap = -1 /\ lost = {} /\ faults = 0

WorkloadInit == InitGenerated \/ InitReplay

Internal == (Prime \/ Produce \/ Pop \/ Enumerate \/ EndEnumerate \/ Suppress \/ SourceEnds) /\ UNCHANGED <<sessVars, faults>>

(* The source is assembled, then NewSessionManager takes its blueprints. *)
Assemble ==
    /\ AddSeeds
    /\ IF sessions' = {} THEN UNCHANGED <<bp, mgr, short, cap>>
       ELSE /\ bp' = [sid \in sessions' |-> GeneratedBlueprint(client(sid[1]))]
            /\ mgr' = [sid \in sessions' |-> NewSession] /\ short' = [sid \in sessions' |-> 0]
            /\ cap' = budget'
    /\ UNCHANGED <<inflight, followUps, queued, nextQueued, pooled, lost, ran, faults>>

Inject ==
    /\ Yield
    /\ inflight' = inflight \cup IF <<held.client, held.sess>> \in DOMAIN bp THEN {GeneratedRequest(held, client(held.client))} ELSE {}
    /\ UNCHANGED <<bp, mgr, followUps, cap, queued, nextQueued, pooled, lost, short, ran, faults>>

Complete ==
    /\ Quiescent
    /\ \E req \in inflight, dt \in ServiceTimes : OnComplete(req, "done", req.at + dt, req.out)
    /\ UNCHANGED <<streamVars, faults>>

Fault == Quiescent /\ faults < MaxFaults /\ faults' = faults + 1 /\ UNCHANGED streamVars
(* generation stopped at MaxModelLen *)
CutShort == Fault /\ \E req \in inflight, dt \in ServiceTimes : req.out > 0 /\ OnComplete(req, "done", req.at + dt, req.out - 1)
RoundTimedOut == Fault /\ \E req \in inflight, dt \in ServiceTimes : OnComplete(req, "timed_out", req.at + dt, 0)
(* DroppedUnservable leaves the state Queued *)
Dropped == Fault /\ \E req \in inflight : OnComplete(req, "queued", req.at, 0)
Refuse == Fault /\ \E req \in inflight : RoundRefused(req)

WorkloadNext == Internal \/ Assemble \/ Inject \/ Complete \/ CutShort \/ RoundTimedOut \/ Dropped \/ Refuse
(* The simulator's loop runs as long as there is an event to process. *)
Over == ended /\ inflight = {}
WorkloadFairness == []<>Over \/ []<><<TRUE>>_workloadVars

-----------------------------------------------------------------------------
SessionStates == Terminal \cup {"active"}

(* Shape of the state; a budget is never negative except for "no budget". *)
WorkloadTypeOK ==
    /\ pass \in {"dry", "run"} /\ cur \in 0..N /\ prime \in 1..N + 1
    /\ popped \in Nat /\ kept \in Nat /\ followUps \in Nat
    /\ budget >= -1 /\ cap >= -1
    /\ DOMAIN mgr = DOMAIN bp /\ DOMAIN short = DOMAIN bp /\ lost \subseteq DOMAIN bp
    /\ \A sid \in DOMAIN mgr : mgr[sid].state \in SessionStates /\ short[sid] \in Nat
    /\ \A r \in inflight : r.sid \in DOMAIN bp /\ (r.round > 0 => r.at <= RunHorizon)

(* stream.go's promise: the lazy source hands out exactly the requests the
   eager generator would return, in the same order, and then ends. *)
Em == INSTANCE Emission WITH plan <- eager, emitted <- out, finished <- ended, candidates <- {held} \ {NoReq}
LazyIsEager == Em!Spec

(* The dry pass predicts the run: blueprints and follow-up budget are those
   of the eager generator (assembleLazySourceFromPreps, GenerateWorkload). *)
AssemblyMatches == seeded /\ ~eager.bad => sessions = eager.sessions /\ budget = eager.budget

(* A generation error is never invented, and a source that ends early
   because of one says so in Err; only the cap may hide it. *)
ErrorSurfaces ==
    /\ Err => eager.bad
    /\ ended /\ eager.bad /\ ~Err => CapReached

(* num_requests bounds what a concurrency workload injects, seeds, open-loop
   requests and follow-ups together (concurrencyFollowUpBudget). *)
NumRequestsBound == cap >= 0 => Len(out) + followUps <= work.max

SessionStarted(sid) ==
    IF pooled > 0 THEN \E i \in 1..nextQueued - 1 : queued[i].sid = sid
    ELSE \/ queued # <<>>
         \/ \E i \in DOMAIN out : <<out[i].client, out[i].sess>> = sid

(* A session has its current round in flight, and nothing else, from its
   start until it ends or its request is refused (SessionManager). *)
OneRoundAtATime ==
    \A sid \in DOMAIN bp :
        LET mine == {r \in inflight : r.sid = sid}
        IN  /\ \A r \in mine : r.round = mgr[sid].round /\ mgr[sid].state = "active"
            /\ Cardinality(mine) = IF SessionStarted(sid) /\ mgr[sid].state = "active" /\ sid \notin lost THEN 1 ELSE 0

WasReset(b, round) == \E i \in 1..round : b.resets # <<>> /\ b.resets[i] # NoReset
(* Closed-loop replay rebuilds the recorded inputs: round for round as long
   as what the fixed-accumulate loader bakes from the trace, and as the
   absolute input the encoder saw, up to the output that length caps kept
   back and the clone's extra token. *)
InputsAsRecorded ==
    \A r \in inflight :
        LET b == bp[r.sid]
            fixed == FixedAccumulateLengths(EncodeSessionToTraceRecords(b.recorded), b.prefix)
            extra == IF b.clone /\ ~WasReset(b, r.round) THEN 1 ELSE 0
        IN  b.acc /\ b.recorded # <<>> =>
                /\ Len(r.in) + short[r.sid] = fixed[r.round + 1] + extra
                /\ b.prefix = 0 => fixed[r.round + 1] = b.recorded[r.round + 1].abs

(* The context of an accumulating session only grows: a follow-up's input
   starts with the whole input of the round before it, so the KV cache can
   reuse it.  Compaction rounds and clones with a shared prefix are apart. *)
ContextExtends ==
    [][\A r \in inflight : \A f \in inflight' :
          LET b == bp[r.sid]
              resets == b.resets # <<>> /\ Sample(b.resets, f.round) # NoReset
          IN  f.sid = r.sid /\ f.round = r.round + 1 /\ b.acc /\ ~resets /\ ~(b.clone /\ b.prefix > 0)
                => IsPrefix(r.in, f.in)]_workloadVars

(* What --trace-output has to write for a session: the rounds that ran and
   the one in flight. *)
Captured(sid) ==
    ran[sid].rounds
      \o LET now == {r \in inflight : r.sid = sid}
         IN  IF now = {} THEN <<>>
             ELSE LET r == CHOOSE x \in now : TRUE IN <<[abs |-> Len(r.in), out |-> r.out, actual |-> 0]>>

(* The corpus that a closed-loop replay writes is faithful: loaded again and
   run with the same outputs, every session has the rounds, input lengths,
   output budgets and think times of the run that wrote it, whatever length
   caps, compactions, prefixes and clones did to them. *)
ReExportFaithful ==
    \A sid \in {id \in DOMAIN ran : Captured(id) # <<>>} :
        LET rounds == Captured(sid)
            recs == ReExportClosedLoopRecords(bp[sid], rounds, ran[sid].thinks)
            b == Blueprint(recs, rounds, IF bp[sid].acc THEN 0 ELSE bp[sid].prefix, bp[sid].acc)
            again[i \in DOMAIN rounds] ==
                IF i = 1 THEN RoundZero(sid, recs[1], b)
                ELSE FollowUp(sid, b, [round |-> i - 2, seeded |-> i > 2, buf |-> again[i - 1].in],
                              again[i - 1], Sample(b.think, i - 1), rounds[i - 1].actual)
        IN  \A i \in DOMAIN rounds :
                /\ Len(again[i].in) = rounds[i].abs
                /\ again[i].out = rounds[i].out
                /\ i > 1 => again[i].at = ran[sid].thinks[i - 1]

(* The pool runs exactly --concurrent-sessions sessions as long as there is
   one left to start. *)
PoolSteady ==
    pooled > 0 =>
        LET running == {sid \in DOMAIN mgr : SessionStarted(sid) /\ mgr[sid].state = "active"}
        IN  /\ Cardinality(running) <= pooled
            /\ nextQueued <= Len(queued) => Cardinality(running) = pooled

(* Every session that starts reaches a terminal state, unless the request
   it was waiting for was refused (INV-11 as far as the code keeps it). *)
SessionsEnd ==
    <>(Over /\ \A sid \in DOMAIN mgr : SessionStarted(sid) /\ sid \notin lost => mgr[sid].state \in Terminal)

-----------------------------------------------------------------------------
(* What the runs check. *)

(* What the lazy source is assembled with is what the eager generator      *)
(* computes; it reports its errors and keeps to num_requests.              *)
GenerationSound ==
  /\ WorkloadTypeOK
  /\ AssemblyMatches
  /\ ErrorSurfaces
  /\ NumRequestsBound

(* Sessions run round by round with the inputs of the recording, in a pool *)
(* that stays full, and are exported as they ran.                          *)
SessionsSound ==
  /\ OneRoundAtATime
  /\ InputsAsRecorded
  /\ ReExportFaithful
  /\ PoolSteady

(* A session's context grows from round to round until the session ends.   *)
SessionsGoOn ==
  /\ ContextExtends
  /\ SessionsEnd
=============================================================================
