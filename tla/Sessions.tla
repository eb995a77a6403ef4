------------------------------ MODULE Sessions ------------------------------
(***************************************************************************)
(* Closed-loop sessions (sim/workload/session.go), the pool that keeps a   *)
(* fixed number of them running (session_pool.go), and the trace corpus    *)
(* both are replayed from (trace_encode.go, replay.go, fixed_accumulate.go)*)
(*                                                                         *)
(* A blueprint holds the samplers of a session as sequences that wrap      *)
(* around (SequenceSampler; a constant is a sequence of one).  Tokens are  *)
(* labels, so that an input says where each of its tokens came from.       *)
(***************************************************************************)
EXTENDS Integers, Sequences, FiniteSets, SequencesExt

CONSTANTS NoReset,      \* input_tokens_reset absent
          RunHorizon    \* the horizon of the replay

VARIABLES bp,           \* session id |-> blueprint
          mgr,          \* session id |-> activeSession
          inflight,     \* requests injected and not finished: [sid, round, at, in, out]
          followUps,    \* followUpCount
          cap,          \* followUpBudget, -1: SetFollowUpBudget never called
          queued,       \* pool: round-0 requests in admission order
          nextQueued,   \* pool: index of the next one to admit
          pooled,       \* pool: --concurrent-sessions, 0 without a pool
          lost,         \* sessions whose request ended without OnComplete
          short,        \* session |-> tokens that length caps kept from its context
          ran           \* replayed session |-> its captured rounds and think times
sessVars == <<bp, mgr, inflight, followUps, cap, queued, nextQueued, pooled, lost, short, ran>>

Terminal == {"completed", "cancelled", "horizon_interrupted", "budget_exhausted"}
Tokens(label, n) == [i \in 1..n |-> label]
Prefix(b) == Tokens(<<"prefix">>, b.prefix)
Sample(values, i) == IF values = <<>> THEN 1 ELSE values[((i - 1) % Len(values)) + 1]

-----------------------------------------------------------------------------
(* mutant: the previous output is not taken off the growth *)
EncodeInputsOnly(rounds) ==
    LET delta(i) == rounds[i].abs - rounds[i - 1].abs
    IN  [i \in DOMAIN rounds |->
            [in |-> IF i = 1 THEN rounds[i].abs ELSE IF delta(i) < 0 THEN 0 ELSE delta(i),
             reset |-> IF i > 1 /\ delta(i) < 0 THEN rounds[i].abs ELSE NoReset,
             out |-> rounds[i].out, think |-> rounds[i].think]]

(* The corpus.  EncodeSessionToTraceRecords writes each round as the growth
   over the previous input and output, or as a reset when it shrank. *)
EncodeSessionToTraceRecords(rounds) ==
    LET delta(i) == rounds[i].abs - rounds[i - 1].abs - rounds[i - 1].out
    IN  [i \in DOMAIN rounds |->
            [in |-> IF i = 1 THEN rounds[i].abs ELSE IF delta(i) < 0 THEN 0 ELSE delta(i),
             reset |-> IF i > 1 /\ delta(i) < 0 THEN rounds[i].abs ELSE NoReset,
             out |-> rounds[i].out, think |-> rounds[i].think]]

(* LoadTraceV2SessionBlueprints: samplers of rounds 1.. in lockstep. *)
Blueprint(recs, rounds, prefix, acc) ==
    LET rest == Tail(recs)
        column(f) == [i \in DOMAIN rest |-> rest[i][f]]
    IN  [rounds |-> Len(recs), unlimited |-> FALSE, acc |-> acc, prefix |-> prefix, clone |-> FALSE,
         recorded |-> rounds, ins |-> column("in"), outs |-> column("out"), think |-> column("think"),
         resets |-> IF acc /\ \E i \in DOMAIN rest : rest[i].reset # NoReset THEN column("reset") ELSE <<>>]
RoundZero(sid, rec, b) ==
    [sid |-> sid, round |-> 0, at |-> 0, out |-> rec.out,
     in |-> Prefix(b) \o Tokens(<<"in", sid, 0>>, rec.in)]

(* LoadTraceV2FixedAccumulateRequests: the lengths of all inputs of a
   session from the trace alone, without a simulation in the loop. *)
FixedAccumulateLengths(recs, prefix) ==
    LET L[i \in DOMAIN recs] ==
            IF i = 1 THEN prefix + recs[1].in
            ELSE IF recs[i].reset # NoReset THEN recs[i].reset
            ELSE L[i - 1] + recs[i - 1].out + recs[i].in
    IN  L

(* ReExportClosedLoopRecords on the captured rounds of one session.  When
   the context accumulates the growth is measured against what was really
   generated, and the column then carries the budget; the prefix is part of
   round 0.  Otherwise every round is its input without the prefix. *)
ReExportClosedLoopRecords(b, rounds, thinks) ==
    LET think(i) == IF i = 1 THEN 0 ELSE thinks[i - 1]
        grown == EncodeSessionToTraceRecords([i \in DOMAIN rounds |->
                     [abs |-> rounds[i].abs, out |-> rounds[i].actual, think |-> think(i)]])
    IN  IF b.acc THEN [i \in DOMAIN rounds |-> [grown[i] EXCEPT !.out = rounds[i].out]]
        ELSE [i \in DOMAIN rounds |->
                 [in |-> rounds[i].abs - b.prefix, reset |-> NoReset, out |-> rounds[i].out, think |-> think(i)]]

(* cloneBlueprintForDup: samplers of its own and a cache-busting token in
   front of round 0. *)
CloneId(sid, n) == <<sid[1], n>>
cloneBlueprintForDup(b) == [b EXCEPT !.clone = TRUE]
CloneRoundZero(r, id) == [r EXCEPT !.sid = id, !.in = <<<<"buster", id, 0>>>> \o @]

(* BuildSessionPool: the corpus in order, then clones of it, up to total. *)
PoolIds(ids, total) ==
    [i \in 1..total |-> IF i <= Len(ids) THEN ids[i] ELSE CloneId(ids[((i - 1) % Len(ids)) + 1], i - Len(ids))]
Origin(id) == <<id[1], 0>>

-----------------------------------------------------------------------------
NewSession == [round |-> 0, state |-> "active", buf |-> <<>>, seeded |-> FALSE]

(* The buffer before round r + 1: seeded with the prefix and what follows
   it in round 0's input, then only appended to. *)
Seeded(b, s, req) ==
    IF s.seeded THEN s.buf
    ELSE Prefix(b) \o SubSeq(req.in, b.prefix + 1, Len(req.in))

FollowUp(sid, b, s, req, at, actual) ==
    LET i == s.round + 1
        reset == IF b.acc /\ b.resets # <<>> THEN Sample(b.resets, i) ELSE NoReset
        fresh == Tokens(<<"in", sid, i>>, Sample(b.ins, i))
        buf == IF reset # NoReset THEN Tokens(<<"reset", sid, i>>, reset)
               ELSE Seeded(b, s, req) \o Tokens(<<"out", sid, s.round>>, actual) \o fresh
    IN  [sid |-> sid, round |-> i, at |-> at, out |-> Sample(b.outs, i),
         in |-> IF b.acc THEN buf ELSE Prefix(b) \o fresh]

(* mutant: a cancelled session keeps its state *)
CloseCompleted(sid, state) == mgr' = IF state = "cancelled" THEN mgr ELSE [mgr EXCEPT ![sid].state = state]

Close(sid, state) == mgr' = [mgr EXCEPT ![sid].state = state]

(* Why OnComplete ends the session, in the order in which it looks. *)
EndsBecause(sid, status, tick) ==
    LET b == bp[sid]
        s == mgr[sid]
    IN  CASE status \in {"timed_out", "queued"} -> "cancelled"
          [] ~b.unlimited /\ s.round >= b.rounds - 1 -> "completed"
          [] cap >= 0 /\ followUps >= cap -> "budget_exhausted"
          [] tick + Sample(b.think, s.round + 1) > RunHorizon -> "horizon_interrupted"
          [] OTHER -> "active"

(* SessionPoolDriver.OnComplete: a session that produced no follow-up frees
   its slot for the next one in the queue. *)
Admit(req, tick) ==
    IF pooled > 0 /\ nextQueued <= Len(queued)
    THEN /\ inflight' = (inflight \ {req}) \cup {[queued[nextQueued] EXCEPT !.at = tick]}
         /\ nextQueued' = nextQueued + 1
    ELSE inflight' = inflight \ {req} /\ UNCHANGED nextQueued

(* captureFollowUps, around the callback of a replay: every round that ran,
   and the think time in front of each follow-up. *)
Capture(sid, round, thinks) ==
    ran' = IF bp[sid].recorded = <<>> THEN ran
           ELSE [ran EXCEPT ![sid] = [rounds |-> Append(@.rounds, round), thinks |-> @.thinks \o thinks]]

OnComplete(req, status, tick, actual) ==
    LET sid == req.sid
        b == bp[sid]
        s == mgr[sid]
        why == EndsBecause(sid, status, tick)
        f == FollowUp(sid, b, s, req, tick + Sample(b.think, s.round + 1), actual)
        resets == b.resets # <<>> /\ Sample(b.resets, s.round + 1) # NoReset
    IN  /\ s.state = "active"
        /\ Capture(sid, [abs |-> Len(req.in), out |-> req.out, actual |-> actual],
                   IF why # "active" THEN <<>> ELSE <<f.at - tick>>)
        /\ IF why # "active"
           THEN Close(sid, why) /\ Admit(req, tick) /\ UNCHANGED <<followUps, short>>
           ELSE /\ mgr' = [mgr EXCEPT ![sid] = [@ EXCEPT !.round = @ + 1, !.seeded = b.acc,
                                                         !.buf = IF b.acc THEN f.in ELSE @]]
                /\ inflight' = (inflight \ {req}) \cup {f}
                /\ followUps' = IF cap >= 0 THEN followUps + 1 ELSE followUps
                /\ short' = [short EXCEPT ![sid] = IF resets THEN 0 ELSE @ + req.out - actual]
                /\ UNCHANGED nextQueued
        /\ UNCHANGED <<bp, cap, queued, pooled, lost>>

(* A request that admission or the gateway refuses ends outside any
   instance: nobody calls OnComplete, and its session stays active. *)
RoundRefused(req) ==
    /\ inflight' = inflight \ {req}
    /\ lost' = lost \cup {req.sid}
    /\ UNCHANGED <<bp, mgr, followUps, cap, queued, nextQueued, pooled, short, ran>>
=============================================================================
