------------------------------- MODULE Engine -------------------------------
(***************************************************************************)
(* One serving instance: the event loop of sim/simulator.go, its event     *)
(* handlers (sim/event.go), batch formation (sim/batch_formation.go), the  *)
(* wait queue and its schedulers, and the LoRA cold-load gate with its     *)
(* resident set (sim/lora/resident_set.go).                                *)
(*                                                                         *)
(* Time is relative: an event carries the delay that separates it from     *)
(* now, so a run that goes on forever still has finitely many states.      *)
(* Clock is needed only to compare deadlines and stops counting at Late,   *)
(* after every deadline.  A handler that loops (FormBatch,                 *)
(* processCompletions) takes one step per iteration; pc says where it is   *)
(* and no other event is handled meanwhile.                                *)
(*                                                                         *)
(* Prefix caching is off, so the KV cache reduces to the number of tokens  *)
(* stored for each request; module KVCache has the cache itself.           *)
(***************************************************************************)
EXTENDS Integers, Sequences, FiniteSets, FiniteSetsExt

CONSTANTS
  Requests,            \* request IDs, numbers: their order is the order of IDs
  InputLen,            \* InputLen[r], prompt tokens
  OutputLen,           \* OutputLen[r], tokens the request will generate
  MaxOutputLen,        \* MaxOutputLen[r], the client's budget, 0 if unset
  Timeout,             \* Timeout[r], deadline after the arrival, 0 if none
  Priority,            \* Priority[r], lower is more urgent
  ArrivalTimes,        \* the possible arrival times
  Adapter,             \* Adapter[r], the LoRA adapter, NoAdapter for the base model
  Adapters, NoAdapter,
  AdapterCapacity,     \* slots of the resident set
  Scheduler,           \* "fcfs", "priority-fcfs", "sjf" or "reverse-priority"
  PreemptionPolicy,    \* "fcfs" or "priority"
  TotalBlocks, BlockSize,
  MaxNumSeqs, MaxNumBatchedTokens,
  PrefillTokenThreshold,    \* LongPrefillTokenThreshold, 0 if off
  MaxModelLen,              \* 0 if unlimited
  SpecRate, SpecScale,      \* 1 + alpha * K = SpecRate / SpecScale
  QueueingTimes, StepTimes, LoadTimes,   \* what the latency model may answer
  Late                      \* a time no deadline lies beyond

Policies == {"fcfs", "priority-fcfs", "sjf", "reverse-priority"}
SpecEnabled == SpecRate > SpecScale

ASSUME EngineAssumption ==
  /\ Requests \subseteq Nat /\ IsFiniteSet(Requests)
  /\ InputLen \in [Requests -> Nat \ {0}]
  /\ OutputLen \in [Requests -> Nat]
  /\ MaxOutputLen \in [Requests -> Int]
  /\ Timeout \in [Requests -> Nat]
  /\ Priority \in [Requests -> Nat]
  /\ ArrivalTimes \subseteq Nat
  /\ NoAdapter \notin Adapters
  /\ Adapter \in [Requests -> Adapters \cup {NoAdapter}]
  /\ AdapterCapacity \in Nat
  /\ (\E r \in Requests : Adapter[r] # NoAdapter) => AdapterCapacity > 0
  /\ Scheduler \in Policies
  /\ PreemptionPolicy \in {"fcfs", "priority"}
  /\ TotalBlocks \in Nat \ {0} /\ BlockSize \in Nat \ {0}
  /\ MaxNumSeqs \in Nat \ {0} /\ MaxNumBatchedTokens \in Nat \ {0}
  /\ PrefillTokenThreshold \in Nat
  /\ MaxModelLen \in Nat
  /\ MaxModelLen <= TotalBlocks * BlockSize
  /\ SpecScale \in Nat \ {0} /\ SpecRate \in Nat /\ SpecRate >= SpecScale
  /\ QueueingTimes \subseteq Nat
  /\ StepTimes \subseteq Nat \ {0}
  /\ LoadTimes \subseteq Nat \ {0}
  /\ Late \in Nat
  /\ \A t \in ArrivalTimes, r \in Requests : t + Timeout[r] <= Late

VARIABLES
  clock,           \* Clock, up to Late
  eventQ,          \* the event heap, in the order it is popped
  stepEvent,       \* stepEvent # nil
  arrivalTime,     \* Request.ArrivalTime
  state,           \* Request.State
  progress,        \* Request.ProgressIndex
  numNew,          \* Request.NumNewTokens
  computed,        \* reqNumComputedTokens, 0 without an entry
  carry,           \* Request.specDecodeCarry, in units of 1 / SpecScale
  waitQ,           \* WaitQ
  running,         \* RunningBatch.Requests, <<>> if RunningBatch is nil
  kvTokens,        \* tokens in the request's blocks
  freeBlocks,      \* the cache's FreeBlockCnt
  resident,        \* residentAdapters from LRU to MRU
  pinCount,        \* residentEntry.pinCount
  adapterPinned,   \* Request.adapterPinned
  loading,         \* loadingAdapter
  metrics,         \* the counters of Metrics that INV-1 and KV accounting use
  pc,              \* idle, phase1, preempt, phase2 or complete
  cursor,          \* reqIndex of phase 1, the position in processCompletions
  want,            \* numNewTokens while preemptForTokens is evicting
  budget,          \* tokenBudget
  preempted,       \* BatchResult.PreemptionHappened
  advance          \* currStepAdvance

eventVars == <<clock, eventQ, stepEvent, arrivalTime>>
reqVars   == <<state, progress, numNew, computed, carry>>
kvVars    == <<kvTokens, freeBlocks>>
loraVars  == <<resident, pinCount, adapterPinned, loading>>
stepVars  == <<pc, cursor, want, budget, preempted, advance>>
vars == <<eventVars, reqVars, waitQ, running, kvVars, loraVars, metrics, stepVars>>

-----------------------------------------------------------------------------
Least(a, b) == IF a <= b THEN a ELSE b
RangeOf(s) == {s[i] : i \in 1 .. Len(s)}
RemoveIndex(s, k) ==
  [i \in 1 .. Len(s) - 1 |-> IF i < k THEN s[i] ELSE s[i + 1]]
Without(s, x) ==
  IF x \in RangeOf(s) THEN RemoveIndex(s, CHOOSE k \in 1 .. Len(s) : s[k] = x) ELSE s

(* The members of S in the order Before: one sequence, as Before is a      *)
(* strict total order on S.                                                *)
Sortings(S, Before(_, _)) ==
  {q \in [1 .. Cardinality(S) -> S] :
     \A i, j \in 1 .. Cardinality(S) : i < j => Before(q[i], q[j])}

(* One unit for each of the f[r] that r has: their number is the sum of f. *)
Units(f) == UNION {{r} \X (1 .. f[r]) : r \in DOMAIN f}

-----------------------------------------------------------------------------
(* Event queue: by time, then by kind, then in the order of scheduling.    *)
KindPriority ==
  [arrival |-> 0, queued |-> 1, load |-> 2, step |-> 3, timeout |-> 6]
Kinds == DOMAIN KindPriority

Events == [in : Nat, kind : Kinds, arg : Requests \cup Adapters \cup {0}]

Schedule(q, delay, kind, arg) ==
  LET e == [in |-> delay, kind |-> kind, arg |-> arg]
      k == Cardinality({i \in 1 .. Len(q) :
             \/ q[i].in < delay
             \/ q[i].in = delay /\ KindPriority[q[i].kind] <= KindPriority[kind]})
  IN  SubSeq(q, 1, k) \o <<e>> \o SubSeq(q, k + 1, Len(q))

(* The queue once the clock has advanced to its first event.               *)
Rest == [i \in 1 .. Len(eventQ) - 1 |->
           [eventQ[i + 1] EXCEPT !.in = @ - Head(eventQ).in]]

Dispatch(kind) ==
  /\ pc = "idle"
  /\ eventQ # <<>>
  /\ Head(eventQ).kind = kind

Tick == clock' = Least(clock + Head(eventQ).in, Late)
Now == Least(clock + Head(eventQ).in, Late)

Deadline(r) == arrivalTime[r] + Timeout[r]

Older(r, q) == \/ arrivalTime[r] < arrivalTime[q]
               \/ arrivalTime[r] = arrivalTime[q] /\ r < q

-----------------------------------------------------------------------------
(* KV cache: a request with n stored tokens has Blocks(n) blocks.          *)
Blocks(n) == (n + BlockSize - 1) \div BlockSize

(* Tokens AllocateKVBlocks stores when asked for n: a decode call stores   *)
(* one output token whatever its range is.                                 *)
Stored(r, n) == IF progress[r] < InputLen[r] THEN n ELSE Least(n, 1)

NewBlocks(r, n) == Blocks(kvTokens[r] + Stored(r, n)) - Blocks(kvTokens[r])

CanAllocate(r, n) == NewBlocks(r, n) <= freeBlocks

Allocate(r, n) ==
  /\ kvTokens' = [kvTokens EXCEPT ![r] = @ + Stored(r, n)]
  /\ freeBlocks' = freeBlocks - NewBlocks(r, n)

ReleaseKVBlocks(r) ==
  /\ kvTokens' = [kvTokens EXCEPT ![r] = 0]
  /\ freeBlocks' = freeBlocks + Blocks(kvTokens[r])

-----------------------------------------------------------------------------
(* Resident adapters.                                                      *)
IsResident(a) == a \in RangeOf(resident)

Unpinned == {i \in 1 .. Len(resident) : pinCount[resident[i]] = 0}

(* EvictLRU: the least recently used adapter that is not pinned goes.      *)
EvictLRU == IF Unpinned = {} THEN resident
            ELSE RemoveIndex(resident, Min(Unpinned))

ReleaseAdapterPin(r) ==
  IF adapterPinned[r]
  THEN /\ pinCount' = [pinCount EXCEPT ![Adapter[r]] = @ - 1]
       /\ adapterPinned' = [adapterPinned EXCEPT ![r] = FALSE]
  ELSE UNCHANGED <<pinCount, adapterPinned>>

(* Mutant of RecordAdapterResidency: every admission pins again.           *)
PinEveryAdmission(r) ==
  IF Adapter[r] = NoAdapter
  THEN UNCHANGED loraVars
  ELSE /\ resident' = Append(Without(resident, Adapter[r]), Adapter[r])
       /\ pinCount' = [pinCount EXCEPT ![Adapter[r]] = @ + 1]
       /\ adapterPinned' = [adapterPinned EXCEPT ![r] = TRUE]
       /\ UNCHANGED loading

(* recordAdapterResidency: touch, and pin once for the request's lifetime. *)
RecordAdapterResidency(r) ==
  IF Adapter[r] = NoAdapter
  THEN UNCHANGED loraVars
  ELSE /\ resident' = Append(Without(resident, Adapter[r]), Adapter[r])
       /\ IF adapterPinned[r]
          THEN UNCHANGED <<pinCount, adapterPinned>>
          ELSE /\ pinCount' = [pinCount EXCEPT ![Adapter[r]] = @ + 1]
               /\ adapterPinned' = [adapterPinned EXCEPT ![r] = TRUE]
       /\ UNCHANGED loading

-----------------------------------------------------------------------------
Init ==
  /\ clock = 0
  /\ arrivalTime \in [Requests -> ArrivalTimes]
  /\ \E order \in Sortings(Requests, Older) :
       eventQ = [i \in 1 .. Cardinality(Requests) |->
                   [in |-> arrivalTime[order[i]], kind |-> "arrival",
                    arg |-> order[i]]]
  /\ stepEvent = FALSE
  /\ state = [r \in Requests |-> "queued"]
  /\ progress = [r \in Requests |-> 0]
  /\ numNew = [r \in Requests |-> 0]
  /\ computed = [r \in Requests |-> 0]
  /\ carry = [r \in Requests |-> 0]
  /\ waitQ = <<>>
  /\ running = <<>>
  /\ kvTokens = [r \in Requests |-> 0]
  /\ freeBlocks = TotalBlocks
  /\ resident = <<>>
  /\ pinCount = [a \in Adapters |-> 0]
  /\ adapterPinned = [r \in Requests |-> FALSE]
  /\ loading = NoAdapter
  /\ metrics = [completed |-> 0, timedOut |-> 0, dropped |-> 0,
                kvAllocationFailures |-> 0]
  /\ pc = "idle" /\ cursor = 0 /\ want = 0 /\ budget = 0
  /\ preempted = FALSE /\ advance = 0

(* ArrivalEvent: the request is queued after the queueing delay.           *)
Arrive ==
  /\ Dispatch("arrival")
  /\ Tick
  /\ \E d \in QueueingTimes :
       eventQ' = Schedule(Rest, d, "queued", Head(eventQ).arg)
  /\ UNCHANGED <<stepEvent, arrivalTime, reqVars, waitQ, running, kvVars,
                 loraVars, metrics, stepVars>>

(* The client's budget after EnqueueRequest has filled in a missing one.   *)
OutputBudget(r) ==
  IF MaxOutputLen[r] = 0 /\ MaxModelLen > 0 /\ InputLen[r] < MaxModelLen
  THEN MaxModelLen - InputLen[r]
  ELSE MaxOutputLen[r]

(* EnqueueRequest's guards 0, 1 and 2.                                     *)
Servable(r) ==
  /\ OutputBudget(r) >= 0
  /\ MaxModelLen > 0 => /\ InputLen[r] < MaxModelLen
                        /\ InputLen[r] + OutputBudget(r) <= MaxModelLen
  /\ Blocks(InputLen[r]) <= TotalBlocks

PastDue(r) == Timeout[r] > 0 /\ Deadline(r) <= Now

(* A step is scheduled now unless one is pending or nothing waits.         *)
ScheduleStepIfIdle(q, waiting) ==
  IF ~stepEvent /\ waiting # <<>>
  THEN eventQ' = Schedule(q, 0, "step", 0) /\ stepEvent' = TRUE
  ELSE eventQ' = q /\ stepEvent' = stepEvent

ArmTimeout(q, r) ==
  IF Timeout[r] = 0 THEN q ELSE Schedule(q, Deadline(r) - Now, "timeout", r)

(* QueuedEvent: EnqueueRequest drops, times out or enqueues the request,   *)
(* then a step is triggered.                                               *)
Enqueue ==
  /\ Dispatch("queued")
  /\ Tick
  /\ LET r == Head(eventQ).arg
     IN  \/ /\ ~Servable(r)
            /\ metrics' = [metrics EXCEPT !.dropped = @ + 1]
            /\ ScheduleStepIfIdle(Rest, waitQ)
            /\ UNCHANGED <<state, waitQ>>
         \/ /\ Servable(r) /\ PastDue(r)
            /\ metrics' = [metrics EXCEPT !.timedOut = @ + 1]
            /\ state' = [state EXCEPT ![r] = "timed_out"]
            /\ ScheduleStepIfIdle(Rest, waitQ)
            /\ UNCHANGED waitQ
         \/ /\ Servable(r) /\ ~PastDue(r)
            /\ waitQ' = Append(waitQ, r)
            /\ ScheduleStepIfIdle(ArmTimeout(Rest, r), waitQ')
            /\ UNCHANGED <<state, metrics>>
  /\ UNCHANGED <<arrivalTime, progress, numNew, computed, carry, running,
                 kvVars, loraVars, stepVars>>

-----------------------------------------------------------------------------
(* Less functions of the schedulers.                                       *)
Precedes(r, q) ==
  LET key(x) == CASE Scheduler = "priority-fcfs"    -> Priority[x]
                  [] Scheduler = "sjf"              -> InputLen[x]
                  [] Scheduler = "reverse-priority" -> -Priority[x]
                  [] OTHER                          -> 0
  IN  key(r) < key(q) \/ (key(r) = key(q) /\ Older(r, q))

OrderQueue(q) ==
  IF Scheduler = "fcfs" THEN {q} ELSE Sortings(RangeOf(q), Precedes)

(* maybeStartAdapterLoad: a cold adapter at the head of the queue starts   *)
(* to load if no load is in flight and a slot is free or can be freed; the *)
(* slot is freed now, the adapter becomes resident when the load is done.  *)
MaybeStartAdapterLoad(q, queue) ==
  LET a == IF queue = <<>> THEN NoAdapter ELSE Adapter[Head(queue)]
  IN  IF /\ loading = NoAdapter
         /\ a # NoAdapter
         /\ ~IsResident(a)
         /\ Len(resident) >= AdapterCapacity => Unpinned # {}
      THEN /\ loading' = a
           /\ resident' = IF Len(resident) >= AdapterCapacity THEN EvictLRU
                          ELSE resident
           /\ \E d \in LoadTimes : eventQ' = Schedule(q, d, "load", a)
      ELSE UNCHANGED <<loading, resident>> /\ eventQ' = q

(* StepEvent, first half: the queue is ordered, a load may start, and      *)
(* FormBatch begins.  A step that finds nothing to do clears stepEvent.    *)
StartStep ==
  /\ Dispatch("step")
  /\ Tick
  /\ IF running = <<>> /\ waitQ = <<>>
     THEN /\ stepEvent' = FALSE
          /\ eventQ' = Rest
          /\ UNCHANGED <<waitQ, numNew, loading, resident, stepVars>>
     ELSE /\ waitQ' \in OrderQueue(waitQ)
          /\ MaybeStartAdapterLoad(Rest, waitQ')
          /\ numNew' = [r \in Requests |->
                          IF r \in RangeOf(running) THEN 0 ELSE numNew[r]]
          /\ pc' = "phase1" /\ cursor' = 1
          /\ budget' = MaxNumBatchedTokens
          /\ preempted' = FALSE
          /\ UNCHANGED <<stepEvent, want, advance>>
  /\ UNCHANGED <<arrivalTime, state, progress, computed, carry, running,
                 kvVars, pinCount, adapterPinned, metrics>>

-----------------------------------------------------------------------------
CompletionProgress(r) ==
  InputLen[r] + (IF OutputLen[r] = 0 THEN 1 ELSE OutputLen[r]) - 1

(* peekDecodeTokens: the whole tokens the accumulated rate pays for.       *)
DecodeTokensPerStep(r) ==
  LET proposed == (carry[r] + SpecRate) \div SpecScale
  IN  IF proposed < 1 THEN 1 ELSE proposed

(* The MaxModelLen cap on a request that has computed n tokens.            *)
LengthRoom(n) ==
  IF MaxModelLen = 0 THEN {} ELSE {IF MaxModelLen - 1 < n THEN 0 ELSE MaxModelLen - 1 - n}

PrefillChunk(r, from) ==
  Min({InputLen[r] - from, budget} \cup LengthRoom(from)
        \cup (IF PrefillTokenThreshold = 0 THEN {} ELSE {PrefillTokenThreshold}))

TokensToCompletion(r) == Max({CompletionProgress(r) - progress[r], 0})

(* numNewTokens of a running request.                                      *)
NewTokens(r) ==
  IF progress[r] < InputLen[r] THEN PrefillChunk(r, progress[r])
  ELSE IF OutputLen[r] = 0 THEN 0
  ELSE Min(LengthRoom(progress[r])
             \cup (IF SpecEnabled
                   THEN {DecodeTokensPerStep(r), budget, TokensToCompletion(r)}
                   ELSE {1}))

InPhase1Loop ==
  \/ pc = "preempt"
  \/ pc = "phase1" /\ cursor <= Len(running) /\ budget > 0

Current == running[cursor]
Wanted == IF pc = "preempt" THEN want ELSE NewTokens(Current)

(* Phase 1: the request at the cursor gets its tokens.                     *)
ScheduleRunning ==
  /\ InPhase1Loop
  /\ CanAllocate(Current, Wanted)
  /\ Allocate(Current, Wanted)
  /\ numNew' = [numNew EXCEPT ![Current] = Wanted]
  /\ computed' = [computed EXCEPT ![Current] = @ + Wanted]
  /\ budget' = budget - Wanted
  /\ cursor' = cursor + 1
  /\ pc' = "phase1" /\ want' = 0
  /\ UNCHANGED <<eventVars, state, progress, carry, waitQ, running, loraVars,
                 metrics, preempted, advance>>

(* selectPriorityVictim: the largest (Priority, ArrivalTime), the last of  *)
(* equals; under fcfs the tail of the batch.                               *)
VictimIndex ==
  IF PreemptionPolicy = "fcfs" THEN Len(running)
  ELSE CHOOSE i \in 1 .. Len(running) :
         \A j \in 1 .. Len(running) :
           LET v == running[i]
               q == running[j]
           IN  \/ Priority[q] < Priority[v]
               \/ /\ Priority[q] = Priority[v]
                  /\ \/ arrivalTime[q] < arrivalTime[v]
                     \/ arrivalTime[q] = arrivalTime[v] /\ j <= i

(* reqIndex once the request at k is gone, and the budget once the victim  *)
(* has returned its share; the mutant forgets to adjust the cursor.        *)
CursorUnadjusted(k) == cursor
CursorAfter(k) == IF k < cursor THEN cursor - 1 ELSE cursor
BudgetAfter(v) == budget + numNew[v]

(* A victim starts over; the mutant keeps its ComputedTokens entry.        *)
StartOverComputed(v) ==
  /\ state' = [state EXCEPT ![v] = "queued"]
  /\ progress' = [progress EXCEPT ![v] = 0]
  /\ numNew' = [numNew EXCEPT ![v] = 0]
  /\ carry' = [carry EXCEPT ![v] = 0]
  /\ UNCHANGED computed
StartOver(v) ==
  /\ state' = [state EXCEPT ![v] = "queued"]
  /\ progress' = [progress EXCEPT ![v] = 0]
  /\ numNew' = [numNew EXCEPT ![v] = 0]
  /\ carry' = [carry EXCEPT ![v] = 0]
  /\ computed' = [computed EXCEPT ![v] = 0]

(* preemptForTokens, allocation failed: a victim goes back to the head of  *)
(* the wait queue with its progress reset.  The request at the cursor      *)
(* tries again unless it is the victim, which ends phase 1.                *)
PreemptVictim ==
  /\ InPhase1Loop
  /\ ~CanAllocate(Current, Wanted)
  /\ LET k == VictimIndex
         v == running[k]
     IN  /\ running' = RemoveIndex(running, k)
         /\ cursor' = CursorAfter(k)
         /\ budget' = BudgetAfter(v)
         /\ StartOver(v)
         /\ ReleaseKVBlocks(v)
         /\ waitQ' = <<v>> \o waitQ
         /\ IF v = Current THEN pc' = "phase2" /\ want' = 0
            ELSE pc' = "preempt" /\ want' = Wanted
  /\ preempted' = TRUE
  /\ UNCHANGED <<eventVars, loraVars, metrics, advance>>

EndPhase1 ==
  /\ pc = "phase1"
  /\ ~InPhase1Loop
  /\ pc' = "phase2"
  /\ UNCHANGED <<eventVars, reqVars, waitQ, running, kvVars, loraVars, metrics,
                 cursor, want, budget, preempted, advance>>

-----------------------------------------------------------------------------
(* Phase 2 goes on while the head of the queue can be admitted.  A cold    *)
(* adapter at the head holds everybody behind it (head-of-line).           *)
CanAdmit ==
  /\ Len(running) < MaxNumSeqs
  /\ waitQ # <<>>
  /\ budget > 0
  /\ ~preempted
  /\ LET r == Head(waitQ)
     IN  /\ Adapter[r] = NoAdapter \/ IsResident(Adapter[r])
         /\ CanAllocate(r, PrefillChunk(r, 0))

Admit ==
  /\ pc = "phase2"
  /\ CanAdmit
  /\ LET r == Head(waitQ)
         n == PrefillChunk(r, 0)
     IN  /\ Allocate(r, n)
         /\ running' = Append(running, r)
         /\ state' = [state EXCEPT ![r] = "running"]
         /\ numNew' = [numNew EXCEPT ![r] = n]
         /\ computed' = [computed EXCEPT ![r] = n]
         /\ budget' = budget - n
         /\ RecordAdapterResidency(r)
  /\ waitQ' = Tail(waitQ)
  /\ UNCHANGED <<eventVars, progress, carry, metrics, pc, cursor, want,
                 preempted, advance>>

(* executeBatchStep: every request of the batch advances by the tokens it  *)
(* was granted; a decoding one commits its speculative carry.              *)
Execute ==
  /\ pc = "phase2"
  /\ ~CanAdmit
  /\ \E t \in StepTimes : advance' = t
  /\ LET decoding == {r \in RangeOf(running) :
                        progress[r] >= InputLen[r] /\ numNew[r] > 0}
     IN  /\ progress' = [r \in Requests |->
              IF r \in decoding THEN progress[r] + numNew[r]
              ELSE IF r \in RangeOf(running) /\ progress[r] < InputLen[r]
              THEN computed[r] ELSE progress[r]]
         /\ carry' = [r \in Requests |->
              IF SpecEnabled /\ r \in decoding
              THEN Max({0, carry[r] + SpecRate - SpecScale * numNew[r]})
              ELSE carry[r]]
  /\ pc' = "complete" /\ cursor' = 1
  /\ UNCHANGED <<eventVars, state, numNew, computed, waitQ, running, kvVars,
                 loraVars, metrics, want, budget, preempted>>

-----------------------------------------------------------------------------
Finished(r) == progress[r] >= CompletionProgress(r)
LengthCapped(r) == MaxModelLen > 0 /\ progress[r] >= MaxModelLen - 1

(* processCompletions, a request that is finished or at the model length:  *)
(* it leaves the batch, its blocks and its adapter pin are released.  A    *)
(* finished one first asks for room for its last token; when there is none *)
(* only a counter notices.                                                 *)
CompleteRequest ==
  /\ pc = "complete"
  /\ cursor <= Len(running)
  /\ Finished(Current) \/ LengthCapped(Current)
  /\ LET r == Current
         refused == /\ Finished(r)
                    /\ progress[r] < InputLen[r] + OutputLen[r]
                    /\ ~CanAllocate(r, 1)
     IN  /\ state' = [state EXCEPT ![r] = "completed"]
         /\ ReleaseKVBlocks(r)
         /\ ReleaseAdapterPin(r)
         /\ carry' = [carry EXCEPT ![r] = 0]
         /\ metrics' = [metrics EXCEPT !.completed = @ + 1,
                          !.kvAllocationFailures = @ + IF refused THEN 1 ELSE 0]
  /\ running' = RemoveIndex(running, cursor)
  /\ UNCHANGED <<eventVars, progress, numNew, computed, waitQ, resident,
                 loading, stepVars>>

KeepRequest ==
  /\ pc = "complete"
  /\ cursor <= Len(running)
  /\ ~(Finished(Current) \/ LengthCapped(Current))
  /\ cursor' = cursor + 1
  /\ UNCHANGED <<eventVars, reqVars, waitQ, running, kvVars, loraVars, metrics,
                 pc, want, budget, preempted, advance>>

(* Mutant of NextStepNeeded: the wait queue is left to the next arrival.   *)
NextStepForBatch == running # <<>>
NextStepNeeded == running # <<>> \/ (waitQ # <<>> /\ loading = NoAdapter)

(* scheduleNextStep: the next step follows if requests remain, or if some  *)
(* wait and no adapter load will wake the instance.                        *)
ScheduleNextStep ==
  /\ pc = "complete"
  /\ cursor > Len(running)
  /\ IF NextStepNeeded
     THEN /\ eventQ' = Schedule(eventQ, advance, "step", 0)
          /\ stepEvent' = TRUE
     ELSE /\ stepEvent' = FALSE
          /\ UNCHANGED eventQ
  /\ pc' = "idle" /\ cursor' = 0 /\ budget' = 0 /\ advance' = 0
  /\ preempted' = FALSE
  /\ UNCHANGED <<clock, arrivalTime, reqVars, waitQ, running, kvVars, loraVars,
                 metrics, want>>

-----------------------------------------------------------------------------
(* Mutant of WakeAfterLoad: the load completes and no step is formed.      *)
SleepAfterLoad == eventQ' = Rest /\ UNCHANGED stepEvent
WakeAfterLoad == ScheduleStepIfIdle(Rest, waitQ)

(* AdapterLoadCompletionEvent: Store, clear the marker, wake the instance. *)
CompleteAdapterLoad ==
  /\ Dispatch("load")
  /\ Tick
  /\ LET a == Head(eventQ).arg
         room == IF Len(resident) >= AdapterCapacity THEN EvictLRU ELSE resident
     IN  IF IsResident(a)
         THEN /\ resident' = Append(Without(resident, a), a)
              /\ UNCHANGED pinCount
         ELSE IF Len(room) < AdapterCapacity
         THEN /\ resident' = Append(room, a)
              /\ pinCount' = [pinCount EXCEPT ![a] = 0]
         ELSE UNCHANGED <<resident, pinCount>>
  /\ loading' = NoAdapter
  /\ WakeAfterLoad
  /\ UNCHANGED <<arrivalTime, reqVars, waitQ, running, kvVars, adapterPinned,
                 metrics, stepVars>>

(* TimeoutEvent of a request that has completed: dropped without advancing *)
(* the clock.                                                              *)
SkipTimeout ==
  /\ Dispatch("timeout")
  /\ state[Head(eventQ).arg] = "completed"
  /\ eventQ' = Tail(eventQ)
  /\ UNCHANGED <<clock, stepEvent, arrivalTime, reqVars, waitQ, running, kvVars,
                 loraVars, metrics, stepVars>>

(* TimeoutEvent of a queued or running request.  A pending step stays      *)
(* scheduled even if the batch is empty now.                               *)
TimeOut ==
  /\ Dispatch("timeout")
  /\ state[Head(eventQ).arg] \in {"queued", "running"}
  /\ Tick
  /\ LET r == Head(eventQ).arg
     IN  /\ state' = [state EXCEPT ![r] = "timed_out"]
         /\ metrics' = [metrics EXCEPT !.timedOut = @ + 1]
         /\ ReleaseAdapterPin(r)
         /\ ReleaseKVBlocks(r)
         /\ computed' = [computed EXCEPT ![r] = 0]
         /\ running' = IF state[r] = "running" THEN Without(running, r) ELSE running
         /\ waitQ' = IF state[r] = "running" THEN waitQ ELSE Without(waitQ, r)
         /\ ScheduleStepIfIdle(Rest, IF running' = <<>> THEN waitQ' ELSE <<>>)
  /\ UNCHANGED <<arrivalTime, progress, numNew, carry, resident, loading,
                 stepVars>>

Next ==
  \/ Arrive
  \/ Enqueue
  \/ StartStep
  \/ ScheduleRunning
  \/ PreemptVictim
  \/ EndPhase1
  \/ Admit
  \/ Execute
  \/ CompleteRequest
  \/ KeepRequest
  \/ ScheduleNextStep
  \/ CompleteAdapterLoad
  \/ SkipTimeout
  \/ TimeOut

Spec == Init /\ [][Next]_vars

(* Run loops as long as events are pending: the loop never pauses.         *)
FairSpec == Spec /\ WF_vars(Next)
-----------------------------------------------------------------------------

(* Every variable of the instance holds a value of its Go type.            *)
TypeOK ==
  /\ clock \in 0 .. Late
  /\ eventQ \in Seq(Events)
  /\ stepEvent \in BOOLEAN
  /\ arrivalTime \in [Requests -> ArrivalTimes]
  /\ state \in [Requests -> {"queued", "running", "completed", "timed_out"}]
  /\ progress \in [Requests -> Nat]
  /\ numNew \in [Requests -> Nat]
  /\ computed \in [Requests -> Nat]
  /\ carry \in [Requests -> Nat]
  /\ waitQ \in Seq(Requests)
  /\ running \in Seq(Requests)
  /\ kvTokens \in [Requests -> Nat]
  /\ freeBlocks \in Nat
  /\ resident \in Seq(Adapters)
  /\ pinCount \in [Adapters -> Nat]
  /\ adapterPinned \in [Requests -> BOOLEAN]
  /\ loading \in Adapters \cup {NoAdapter}
  /\ metrics \in [completed : Nat, timedOut : Nat, dropped : Nat,
                  kvAllocationFailures : Nat]
  /\ pc \in {"idle", "phase1", "preempt", "phase2", "complete"}
  /\ cursor \in Nat /\ want \in Nat /\ budget \in Nat
  /\ preempted \in BOOLEAN /\ advance \in Nat

Pending(kind) == {i \in 1 .. Len(eventQ) : eventQ[i].kind = kind}
Alive == RangeOf(waitQ) \cup RangeOf(running)

(* INV-1 (five-term form, plus the requests still on their way in) and     *)
(* INV-2: through preemptions, timeouts and completions every request is   *)
(* in exactly one place, its State says which, and the counters of Metrics *)
(* count each terminal request once.                                       *)
RequestConservation ==
  /\ Cardinality(Alive) = Len(waitQ) + Len(running)
  /\ \A r \in Requests : r \in RangeOf(running) <=> state[r] = "running"
  /\ \A r \in RangeOf(waitQ) : state[r] = "queued"
  /\ metrics.completed = Cardinality({r \in Requests : state[r] = "completed"})
  /\ metrics.timedOut = Cardinality({r \in Requests : state[r] = "timed_out"})
  /\ Cardinality(Requests) =
       metrics.completed + metrics.timedOut + metrics.dropped
         + Len(waitQ) + Len(running)
         + Cardinality(Pending("arrival") \cup Pending("queued"))

(* INV-4 at the instance: blocks free and blocks held add up, and only the *)
(* running batch holds any; a preempted, timed out or completed request    *)
(* has given all of its blocks back.                                       *)
BlocksConserved ==
  /\ freeBlocks + Cardinality(Units([r \in Requests |-> Blocks(kvTokens[r])])) = TotalBlocks
  /\ \A r \in Requests : kvTokens[r] > 0 => r \in RangeOf(running)

(* INV-8: the instance never idles on work.  While requests run or wait a  *)
(* StepEvent is pending; the one exception is an adapter load in flight,   *)
(* whose completion is pending instead and starts the step.                *)
WorkConserving ==
  pc = "idle" =>
    /\ running # <<>> => Pending("step") # {}
    /\ waitQ # <<>> => \/ Pending("step") # {}
                       \/ loading # NoAdapter /\ Pending("load") # {}

(* The stepEvent pointer tells the truth: at most one StepEvent is         *)
(* scheduled, and one is exactly if stepEvent is not nil, also after a     *)
(* timeout has emptied the batch under a scheduled step.                   *)
OneStepPending ==
  pc = "idle" =>
    /\ Cardinality(Pending("step")) <= 1
    /\ stepEvent <=> Pending("step") # {}

(* INV-12, its index clause: evicting a request that is not the tail of    *)
(* the batch makes the phase 1 loop skip nobody.  Every decoding request   *)
(* the cursor has passed has tokens, unless MaxModelLen caps it.           *)
NobodySkipped ==
  pc \in {"phase1", "preempt"} =>
    \A i \in 1 .. Least(cursor - 1, Len(running)) :
      LET r == running[i]
      IN  progress[r] >= InputLen[r] =>
            numNew[r] > 0 \/ (MaxModelLen > 0 /\ progress[r] >= MaxModelLen - 1)

(* INV-12 as docs/contributing/standards/invariants.md states it: after    *)
(* phase 1 every non-preempted running request in decode has NumNewTokens  *)
(* > 0, provided the token budget was not exhausted and MaxModelLen did    *)
(* not cap it.                                                             *)
Phase1Complete ==
  pc = "phase2" /\ budget > 0 =>
    \A r \in RangeOf(running) :
      progress[r] >= InputLen[r] =>
        numNew[r] > 0 \/ (MaxModelLen > 0 /\ progress[r] >= MaxModelLen - 1)

(* Tokens granted and tokens left make up MaxNumBatchedTokens all through  *)
(* FormBatch, also when a request that already had its share is evicted:   *)
(* a step never computes more tokens than the batch limit.                 *)
BudgetBalanced ==
  pc \in {"phase1", "preempt", "phase2"} =>
    budget + Cardinality(Units([r \in RangeOf(running) |-> numNew[r]]))
      = MaxNumBatchedTokens

(* Between steps reqNumComputedTokens, which batch formation maintains,    *)
(* and ProgressIndex, which execution maintains, agree for every request   *)
(* that runs or waits; a preempted request starts again from nothing.      *)
ComputedIsProgress ==
  pc = "idle" => \A r \in Alive : computed[r] = progress[r]

(* preemptForTokens "tries to allocate numNewTokens of KV blocks for req": *)
(* every token a running request has computed is stored in its blocks.     *)
KVBacksProgress ==
  pc = "idle" => \A r \in RangeOf(running) : kvTokens[r] >= progress[r]

(* Speculative decoding never runs past the end (#1657): whatever the      *)
(* carry proposes, a request stops exactly at its completion boundary, and *)
(* never computes past the model length.                                   *)
LandsOnBoundary ==
  \A r \in Requests :
    /\ progress[r] <= CompletionProgress(r)
    /\ MaxModelLen > 0 => progress[r] <= MaxModelLen - 1

(* A request that waits or runs with a deadline has its TimeoutEvent       *)
(* pending, at exactly that deadline, through preemption and re-admission. *)
DeadlineArmed ==
  pc = "idle" =>
    \A r \in Alive :
      Timeout[r] > 0 =>
        \E i \in Pending("timeout") :
          eventQ[i].arg = r /\ clock + eventQ[i].in = Deadline(r)

(* INV-L5 and the pin accounting behind it: an adapter's pin count is the  *)
(* number of requests holding a pin on it, a pinned adapter stays          *)
(* resident, a running request holds its pin, a terminal one does not.     *)
PinsExact ==
  /\ \A a \in Adapters :
       /\ pinCount[a] = Cardinality({r \in Requests : adapterPinned[r] /\ Adapter[r] = a})
       /\ pinCount[a] > 0 => IsResident(a)
  /\ \A r \in Requests :
       /\ r \in RangeOf(running) /\ Adapter[r] # NoAdapter => adapterPinned[r]
       /\ state[r] \in {"completed", "timed_out"} => ~adapterPinned[r]

(* INV-L2: the slot reserved when a load starts counts, so the resident    *)
(* set and the load in flight never exceed the capacity, and the Store at  *)
(* the end of the load cannot fail.                                        *)
SlotReserved ==
  /\ Cardinality(RangeOf(resident)) = Len(resident)
  /\ Len(resident) + (IF loading = NoAdapter THEN 0 ELSE 1) <= AdapterCapacity
  /\ loading # NoAdapter => ~IsResident(loading)

(* Every request is eventually served, timed out or dropped and the event  *)
(* queue runs dry: no livelock of preemptions, no request stranded behind  *)
(* an adapter load.                                                        *)
RunEnds == <>(pc = "idle" /\ eventQ = <<>> /\ waitQ = <<>> /\ running = <<>>)

-----------------------------------------------------------------------------
(* What the runs check. *)

(* However requests, timeouts, preemptions and loads interleave, every     *)
(* request is in one place and what it takes (blocks, adapter pins, adapter*)
(* slots) is given back exactly once.                                      *)
NothingLeaks ==
  /\ TypeOK
  /\ RequestConservation
  /\ BlocksConserved
  /\ PinsExact
  /\ SlotReserved

(* The heap holds the events the instance depends on: one step while there *)
(* is work and never two, and the timeout of every request with a deadline.*)
EventsArmed ==
  /\ OneStepPending
  /\ WorkConserving
  /\ DeadlineArmed

(* Batch formation, execution and the cache agree on how far each request  *)
(* is, and phase 1 serves everyone it can.                                 *)
BatchSound ==
  /\ ComputedIsProgress
  /\ KVBacksProgress
  /\ Phase1Complete

(* Evictions in the middle of the scan neither skip a request nor lose or  *)
(* repeat tokens of the budget, and no grant passes the end of a request.  *)
ScanSound ==
  /\ NobodySkipped
  /\ BudgetBalanced
  /\ LandsOnBoundary
=============================================================================
