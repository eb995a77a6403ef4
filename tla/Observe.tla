------------------------------ MODULE Observe -------------------------------
(***************************************************************************)
(* The dispatch loop of `blis observe` (cmd/observe_cmd.go,                *)
(* runObserveOrchestrator): requests of a workload and the follow-ups of   *)
(* their sessions are sent to a real server, at most MaxConcurrency at a   *)
(* time.  Real goroutines run here: the main loop, one per request in      *)
(* flight, and a serializer that alone calls the completion handler; they  *)
(* share a semaphore, a wait group, the atomic activeSessionCount and two  *)
(* channels of capacity MaxConcurrency.                                    *)
(*                                                                         *)
(* One step is one operation on what is shared.  Times are left out: the   *)
(* pacing sleep ends at any time, and the comparison of arrival times,     *)
(* which depend on the wall clock, goes either way.                        *)
(***************************************************************************)
EXTENDS Integers, Sequences, FiniteSets, Functions

CONSTANTS
  Sessions,         \* session IDs
  ObservedWorkloads,   \* what may be observed: a source, a pool, the managed sessions
  MaxRounds,        \* SessionBlueprint.MaxRounds
  MaxConcurrency,   \* --max-concurrency
  WarmupCount,      \* --warmup: requests that are not recorded
  Interruptible,    \* whether SIGINT may come
  NoSession, NoRequest

(* A request is a round of a session; among those of none, the place in    *)
(* the source tells them apart.                                            *)
Request(s, k) == [session |-> s, round |-> k]
AllRequests == [session : Sessions \cup {NoSession}, round : Nat]

(* What the orchestrator is given.  A managed session has a blueprint and  *)
(* sends its first round, from the source or, in corpus mode, as the pool  *)
(* driver admits it.  The rounds of an open-loop session, which is not     *)
(* managed, are all in the source, under the session's ID, and a workload  *)
(* may mix both kinds.  Without a blueprint there is no handler and no     *)
(* session ID is looked at: those requests count as being of no session.   *)
WellFormed(w) ==
  /\ w.source \in Seq(AllRequests) /\ IsInjective(w.source)
  /\ w.pool \in Seq(Sessions) /\ IsInjective(w.pool)
  /\ w.managed \subseteq Sessions /\ Range(w.pool) \subseteq w.managed
  /\ \A r \in Range(w.source) :
       /\ r.session \in w.managed => r.round = 0
       /\ r.session \notin Range(w.pool)
       /\ w.managed = {} => r.session = NoSession
  /\ \A s \in w.managed :
       s \in Range(w.pool) \/ \E r \in Range(w.source) : r.session = s
  /\ w.pool # <<>> =>
       w.source # <<>> /\ \A r \in Range(w.source) : r.session \in w.managed

ASSUME ObserveAssumption ==
  /\ MaxRounds \in Nat \ {0} /\ MaxConcurrency \in Nat \ {0} /\ WarmupCount \in Nat
  /\ Interruptible \in BOOLEAN
  /\ NoSession \notin Sessions /\ NoRequest \notin AllRequests
  /\ \A w \in ObservedWorkloads : WellFormed(w)

VARIABLES
  pc,              \* where the main loop is
  cancelled,       \* ctx is done
  source,          \* the workload's requests; never changes
  preGen,          \* nextPreGen and what the source still has
  seen,            \* seenSessions
  pending,         \* pendingFollowUps
  next,            \* nextReq
  index,           \* dispatchIndex
  active,          \* activeSessionCount
  workers,         \* the dispatch goroutines: each holds a slot of the semaphore
  records,         \* the recorder's records
  completionCh, closed, followUpCh,
  serializer,      \* where the serializer is, and what it is about to push
  round,           \* SessionManager: the current round of each session
  alive,            \* SessionManager: the sessions that are sessionActive
  pool             \* the sessions the pool driver has yet to admit

mainVars == <<pc, source, preGen, seen, pending, next, index>>
sessionVars == <<round, alive, pool>>
observeVars == <<mainVars, cancelled, active, workers, records, completionCh, closed,
          followUpCh, serializer, sessionVars>>

Wakeup == NoRequest                  \* the nil the serializer sends

ObserveWorkload(w) ==
  /\ source = w.source /\ preGen = w.source
  /\ pool = w.pool /\ alive = w.managed
  /\ cancelled = FALSE
  /\ seen = {}
  /\ pending = <<>>
  /\ next = NoRequest
  /\ index = 0
  /\ active = 0
  /\ workers = {}
  /\ records = {}
  /\ completionCh = <<>> /\ closed = FALSE
  /\ followUpCh = <<>>
  /\ serializer = [at |-> "receive", item |-> Wakeup]
  /\ round = [s \in Sessions |-> 0]

ObserveInit == pc = "loop" /\ \E w \in ObservedWorkloads : ObserveWorkload(w)

(* No orchestrator runs. *)
NotObserving ==
  pc = "done" /\ ObserveWorkload([source |-> <<>>, pool |-> <<>>, managed |-> {}])

-----------------------------------------------------------------------------
(* The main loop                                                           *)

(* drainFollowUps: until the select takes its default.                     *)
DrainFollowUp ==
  /\ pc = "loop" /\ followUpCh # <<>>
  /\ pending' = IF Head(followUpCh) = Wakeup THEN pending
                ELSE Append(pending, Head(followUpCh))
  /\ followUpCh' = Tail(followUpCh)
  /\ UNCHANGED <<pc, source, preGen, seen, next, index, cancelled, active, workers, records,
                 completionCh, closed, serializer, sessionVars>>

DrainedAll ==
  /\ pc = "loop" /\ followUpCh = <<>>
  /\ pc' = "choose"
  /\ UNCHANGED <<source, preGen, seen, pending, next, index, cancelled, active, workers, records,
                 completionCh, closed, followUpCh, serializer, sessionVars>>

(* takePreGen: a session is counted the first time it is seen.             *)
CountSession(s) ==
  IF s = NoSession \/ s \in seen
  THEN UNCHANGED <<seen, active>>
  ELSE seen' = seen \cup {s} /\ active' = active + 1

TakePreGen ==
  /\ pc = "choose" /\ preGen # <<>>
  /\ next' = Head(preGen)
  /\ preGen' = Tail(preGen)
  /\ CountSession(Head(preGen).session)
  /\ pc' = "pace"
  /\ UNCHANGED <<source, pending, index, cancelled, workers, records,
                 completionCh, closed, followUpCh, serializer, sessionVars>>

TakeFollowUp ==
  /\ pc = "choose" /\ pending # <<>>
  /\ next' = Head(pending)
  /\ pending' = Tail(pending)
  /\ pc' = "pace"
  /\ UNCHANGED <<source, preGen, seen, index, cancelled, active, workers, records,
                 completionCh, closed, followUpCh, serializer, sessionVars>>

(* Nothing to send: wait for a follow-up while sessions are active.        *)
DecideIdleBySource ==           \* mutant: the loop ends with the source
  /\ pc = "choose" /\ preGen = <<>> /\ pending = <<>>
  /\ pc' = "waitGroup"
  /\ UNCHANGED <<source, preGen, seen, pending, next, index, cancelled, active, workers, records,
                 completionCh, closed, followUpCh, serializer, sessionVars>>
DecideIdle ==
  /\ pc = "choose" /\ preGen = <<>> /\ pending = <<>>
  /\ pc' = IF active > 0 THEN "wait" ELSE "waitGroup"
  /\ UNCHANGED <<source, preGen, seen, pending, next, index, cancelled, active, workers, records,
                 completionCh, closed, followUpCh, serializer, sessionVars>>

ReceiveFollowUp ==
  /\ pc = "wait" /\ followUpCh # <<>>
  /\ next' = Head(followUpCh)
  /\ followUpCh' = Tail(followUpCh)
  /\ pc' = IF next' = Wakeup THEN "loop" ELSE "pace"
  /\ UNCHANGED <<source, preGen, seen, pending, index, cancelled, active, workers, records,
                 completionCh, closed, serializer, sessionVars>>

Pace ==
  /\ pc = "pace"
  /\ pc' = "acquire"
  /\ UNCHANGED <<source, preGen, seen, pending, next, index, cancelled, active, workers, records,
                 completionCh, closed, followUpCh, serializer, sessionVars>>

(* A slot is free: a goroutine takes the request.                          *)
Dispatch ==
  /\ pc = "acquire" /\ Cardinality(workers) < MaxConcurrency
  /\ workers' = workers \cup {[req |-> next, index |-> index, at |-> "send"]}
  /\ index' = index + 1
  /\ next' = NoRequest
  /\ pc' = "loop"
  /\ UNCHANGED <<source, preGen, seen, pending, cancelled, active, records, completionCh,
                 closed, followUpCh, serializer, sessionVars>>

(* ctx.Done() in the three selects; the request in hand is given up.       *)
StopOnCancel ==
  /\ pc \in {"wait", "pace", "acquire"} /\ cancelled
  /\ pc' = "waitGroup"
  /\ UNCHANGED <<source, preGen, seen, pending, next, index, cancelled, active, workers, records,
                 completionCh, closed, followUpCh, serializer, sessionVars>>

(* drain: wg.Wait, close(completionCh), <-serializerDone.                  *)
CloseAtOnce ==                  \* mutant: the wait group is not waited for
  /\ pc = "waitGroup"
  /\ closed' = TRUE
  /\ pc' = "join"
  /\ UNCHANGED <<source, preGen, seen, pending, next, index, cancelled, active, workers, records,
                 completionCh, followUpCh, serializer, sessionVars>>
CloseChannel ==
  /\ pc = "waitGroup" /\ workers = {}
  /\ closed' = TRUE
  /\ pc' = "join"
  /\ UNCHANGED <<source, preGen, seen, pending, next, index, cancelled, active, workers, records,
                 completionCh, followUpCh, serializer, sessionVars>>

Return ==
  /\ pc = "join" /\ serializer.at = "ended"
  /\ pc' = "done"
  /\ UNCHANGED <<source, preGen, seen, pending, next, index, cancelled, active, workers, records,
                 completionCh, closed, followUpCh, serializer, sessionVars>>

-----------------------------------------------------------------------------
(* A dispatch goroutine: send and record, report a session's completion,   *)
(* release the slot and leave the wait group (the two deferred calls, one  *)
(* after the other).                                                       *)

(* Recorder.RecordRequest: of the entry, what tells requests apart.        *)
RecordOf(w) == [req |-> w.req, index |-> w.index]

Send(w) ==
  /\ w.at = "send"
  /\ records' = IF w.index >= WarmupCount THEN records \cup {RecordOf(w)} ELSE records
  /\ \E status \in {"ok", "error"} :
       workers' = (workers \ {w}) \cup
            {[req |-> w.req, index |-> w.index,
              at |-> IF w.req.session = NoSession THEN "release" ELSE status]}
  /\ UNCHANGED <<mainVars, cancelled, active, completionCh, closed, followUpCh,
                 serializer, sessionVars>>

ReportCompletion(w) ==
  /\ w.at \in {"ok", "error"} /\ Len(completionCh) < MaxConcurrency
  /\ completionCh' = Append(completionCh, [req |-> w.req, status |-> w.at])
  /\ workers' = (workers \ {w}) \cup
       {[req |-> w.req, index |-> w.index, at |-> "release"]}
  /\ UNCHANGED <<mainVars, cancelled, active, records, closed, followUpCh,
                 serializer, sessionVars>>

Release(w) ==
  /\ w.at = "release"
  /\ workers' = workers \ {w}
  /\ UNCHANGED <<mainVars, cancelled, active, records, completionCh, closed,
                 followUpCh, serializer, sessionVars>>

-----------------------------------------------------------------------------
(* The serializer, with SessionManager.OnComplete and the pool driver's    *)
(* around it.  A session goes on for another round, or ends: by an error,  *)
(* by its last round, by the follow-up budget or by the horizon.           *)

GoesOn(ce) ==
  /\ ce.req.session \in alive /\ ce.status = "ok"
  /\ round[ce.req.session] < MaxRounds - 1
  /\ round' = [round EXCEPT ![ce.req.session] = @ + 1]
  /\ serializer' = [at |-> "push",
                    item |-> Request(ce.req.session, round[ce.req.session] + 1)]
  /\ UNCHANGED <<alive, pool>>

Ends(ce) ==
  /\ alive' = alive \ {ce.req.session}
  /\ IF pool = <<>>
     THEN /\ serializer' = [at |-> "decrement", item |-> Wakeup]
          /\ UNCHANGED pool
     ELSE /\ serializer' = [at |-> "push", item |-> Request(Head(pool), 0)]
          /\ pool' = Tail(pool)
  /\ UNCHANGED round

SerializerReceives ==
  /\ serializer.at = "receive" /\ completionCh # <<>>
  /\ completionCh' = Tail(completionCh)
  /\ GoesOn(Head(completionCh)) \/ Ends(Head(completionCh))
  /\ UNCHANGED <<mainVars, cancelled, active, workers, records, closed, followUpCh>>

(* The count goes down first, then main is woken up.                       *)
SerializerForgetsWakeup ==       \* mutant: nobody is woken up
  /\ serializer.at = "decrement"
  /\ active' = active - 1
  /\ serializer' = [at |-> "receive", item |-> Wakeup]
  /\ UNCHANGED <<mainVars, cancelled, workers, records, completionCh, closed,
                 followUpCh, sessionVars>>
SerializerDecrements ==
  /\ serializer.at = "decrement"
  /\ active' = active - 1
  /\ serializer' = [serializer EXCEPT !.at = "push"]
  /\ UNCHANGED <<mainVars, cancelled, workers, records, completionCh, closed,
                 followUpCh, sessionVars>>

SerializerPushes ==
  /\ serializer.at = "push" /\ Len(followUpCh) < MaxConcurrency
  /\ followUpCh' = Append(followUpCh, serializer.item)
  /\ serializer' = [at |-> "receive", item |-> Wakeup]
  /\ UNCHANGED <<mainVars, cancelled, active, workers, records, completionCh,
                 closed, sessionVars>>

SerializerEnds ==
  /\ serializer.at = "receive" /\ closed /\ completionCh = <<>>
  /\ serializer' = [serializer EXCEPT !.at = "ended"]
  /\ UNCHANGED <<mainVars, cancelled, active, workers, records, completionCh,
                 closed, followUpCh, sessionVars>>

-----------------------------------------------------------------------------
(* SIGINT or SIGTERM: the signal goroutine cancels the context.            *)
Interrupt ==
  /\ Interruptible /\ ~cancelled /\ pc # "done"
  /\ cancelled' = TRUE
  /\ UNCHANGED <<mainVars, active, workers, records, completionCh, closed,
                 followUpCh, serializer, sessionVars>>

Main ==
  \/ DrainFollowUp \/ DrainedAll
  \/ TakePreGen \/ TakeFollowUp \/ DecideIdle
  \/ ReceiveFollowUp \/ Pace \/ Dispatch \/ StopOnCancel
  \/ CloseChannel \/ Return
Serializer ==
  SerializerReceives \/ SerializerDecrements \/ SerializerPushes \/ SerializerEnds
Worker(w) == Send(w) \/ ReportCompletion(w) \/ Release(w)

ObserveNext ==
  \/ Main
  \/ Serializer
  \/ \E w \in workers : Worker(w)
  \/ Interrupt

ObserveSpec == ObserveInit /\ [][ObserveNext]_observeVars

(* The Go scheduler runs every goroutine that can run, and a request's     *)
(* HTTP exchange ends, by its answer, an error or the client's timeout;    *)
(* nothing forces the user to interrupt.                                   *)
SomeWorker == \E w \in workers : Worker(w)
ObserveFairness ==
  WF_observeVars(Main) /\ WF_observeVars(Serializer) /\ WF_observeVars(SomeWorker)
FairSpec == ObserveSpec /\ ObserveFairness

-----------------------------------------------------------------------------
(* Properties                                                              *)

Completions == [req : AllRequests, status : {"ok", "error"}]

(* Every variable has its type, and no channel exceeds its capacity. *)
ObserveTypeOK ==
  /\ pc \in {"loop", "choose", "wait", "pace", "acquire", "waitGroup", "join", "done"}
  /\ cancelled \in BOOLEAN /\ closed \in BOOLEAN
  /\ source \in Seq(AllRequests) /\ preGen \in Seq(AllRequests)
  /\ pending \in Seq(AllRequests) /\ seen \subseteq Sessions
  /\ next \in AllRequests \cup {NoRequest}
  /\ index \in Nat /\ active \in Int
  /\ workers \subseteq [req : AllRequests, index : Nat,
                        at : {"send", "ok", "error", "release"}]
  /\ records \subseteq [req : AllRequests, index : Nat]
  /\ completionCh \in Seq(Completions) /\ Len(completionCh) <= MaxConcurrency
  /\ followUpCh \in Seq(AllRequests \cup {Wakeup}) /\ Len(followUpCh) <= MaxConcurrency
  /\ serializer \in [at : {"receive", "decrement", "push", "ended"},
                     item : AllRequests \cup {Wakeup}]
  /\ round \in [Sessions -> 0 .. MaxRounds - 1]
  /\ alive \subseteq Sessions
  /\ pool \in Seq(Sessions)

OfSession(q) == Cardinality({i \in DOMAIN q : q[i] # Wakeup /\ q[i].session # NoSession})

(* The session requests on their way somewhere, counted by place.          *)
Outstanding ==
  (IF next # NoRequest /\ next.session # NoSession THEN 1 ELSE 0)
  + OfSession(pending)
  + Cardinality({w \in workers : w.req.session # NoSession /\ w.at # "release"})
  + Len(completionCh)
  + (IF serializer.at = "decrement" \/ serializer.item # Wakeup THEN 1 ELSE 0)
  + OfSession(followUpCh)

(* The source's requests taken so far that name a session seen before.     *)
LaterRounds ==
  {i \in 1 .. Len(source) - Len(preGen) :
     /\ source[i].session # NoSession
     /\ \E j \in 1 .. i - 1 : source[j].session = source[i].session}

(* activeSessionCount, on which the loop decides to end, never exceeds the *)
(* session requests that are somewhere between the main loop, the          *)
(* goroutines, the two channels and the serializer, so that the loop never *)
(* waits for what will not come; it is their number as long as each        *)
(* session sent one request of the source, which is all that closed-loop   *)
(* clients and pools do.                                                   *)
ActiveIsOutstanding ==
  /\ active <= Outstanding
  /\ LaterRounds = {} => active = Outstanding

(* The loop ends without an interrupt only when the source, the pool and   *)
(* the follow-ups at hand have been dispatched and, unless an open-loop    *)
(* session's later round was taken, no session owes a follow-up; once it   *)
(* returns each request dispatched past the warm-up has been recorded      *)
(* exactly once.                                                           *)
NothingLeftBehind ==
  /\ pc \in {"waitGroup", "join", "done"} /\ ~cancelled =>
       /\ preGen = <<>> /\ pending = <<>> /\ pool = <<>> /\ next = NoRequest
       /\ LaterRounds = {} => alive = {} /\ OfSession(followUpCh) = 0
  /\ pc = "done" =>
       /\ Cardinality(records) = IF index > WarmupCount THEN index - WarmupCount ELSE 0
       /\ Cardinality({x.req : x \in records}) = Cardinality(records)

(* Nobody sends on completionCh once it is closed, which would panic.      *)
NoSendOnClosed ==
  closed => \A w \in workers : w.at = "release"

(* The completions that the serializer has yet to answer, each by one push *)
(* to followUpCh.                                                          *)
Unanswered ==
  Cardinality({w \in workers : w.req.session # NoSession /\ w.at # "release"})
  + Len(completionCh)
  + (IF serializer.at \in {"decrement", "push"} THEN 1 ELSE 0)

(* The loop has ended, nobody reads followUpCh any more, and it has less   *)
(* room than there are answers to come.                                    *)
Overfull ==
  pc \in {"waitGroup", "join"} /\ Len(followUpCh) + Unanswered > MaxConcurrency

(* The orchestrator returns and the trace can be written, unless the loop  *)
(* ended over an overfull channel: no wake-up is missed, and nothing else  *)
(* blocks a goroutine for good.                                            *)
Returns == <>(pc = "done" \/ Overfull)

(* followUpCh is "buffered to avoid blocking serializer"                   *)
(* (cmd/observe_cmd.go:1050): the serializer ends and the run returns.     *)
SerializerNotBlocked == <>(pc = "done")

-----------------------------------------------------------------------------
(* What the runs check. *)

(* The counter the loop ends on never exceeds what is outstanding in       *)
(* goroutines and channels, and is that number while no open-loop session  *)
(* has sent a second round; nobody sends on the closed channel.            *)
ChannelsSound ==
  /\ ObserveTypeOK
  /\ ActiveIsOutstanding
  /\ NoSendOnClosed
=============================================================================
