------------------------------- MODULE Disagg -------------------------------
(***************************************************************************)
(* Prefill/decode disaggregation: the cluster event loop with pool roles   *)
(* (sim/cluster/cluster.go, pool.go), the PD events (pd_events.go), the    *)
(* parent request, the detectors that run after every instance event, and  *)
(* the end-of-run correction and projection of the metrics.                *)
(*                                                                         *)
(* Time is relative, as in module Engine: an event carries the delay that  *)
(* separates it from now.  A delay may be negative, for the code can arm a *)
(* timeout in the past.  The instances are those of module Engine with a   *)
(* block size of one token, no prefix caching and ample batch limits: a    *)
(* sub-request's progress is then the number of blocks it holds, and a     *)
(* whole step is one action.                                               *)
(***************************************************************************)
EXTENDS Integers, Sequences, FiniteSets, SequencesExt, FiniteSetsExt

CONSTANTS
  NumInstances,
  NumPrefill, NumDecode, NumShared, NumEncode,   \* how many serve which pools
  Capacity,           \* Capacity[i], KV blocks of the instance
  Requests,           \* numbers, in the order of their IDs
  InputLen, OutputLen,
  Deadline,           \* Deadline[r], 0 if none
  EncodeDecider,      \* "none", "never", "always" or "multimodal"
  Multimodal,         \* requests that carry more than text
  Decider, Threshold, \* "never", "always" or "prefix-threshold"
  RouteTimes,         \* when a routing event may be due
  QueueingTimes, StepTimes, TransferTimes,
  MaxDrains,          \* bound: instances the autoscaler takes away
  Late                \* a time no deadline and no route time lies beyond

Instances == 1 .. NumInstances
Stages == {"prefill", "decode", "local"}
Subs == Requests \X Stages
NoSub == <<0, "none">>
Pools == {"prefill", "decode", "encode"}

(* BuildPoolMembershipFromIndices: prefill pods first, then decode, shared *)
(* and encode pods; what is left serves no pool.                           *)
Role ==
  [i \in Instances |->
     IF i <= NumPrefill THEN {"prefill"}
     ELSE IF i <= NumPrefill + NumDecode THEN {"decode"}
     ELSE IF i <= NumPrefill + NumDecode + NumShared THEN {"prefill", "decode"}
     ELSE IF i <= NumPrefill + NumDecode + NumShared + NumEncode THEN {"encode"}
     ELSE {}]

(* ValidatePoolTopology, pools being in use.                               *)
ValidTopology ==
  /\ NumPrefill + NumDecode + NumShared > 0
  /\ NumShared = 0 => NumPrefill > 0 /\ NumDecode > 0
  /\ NumPrefill + NumDecode + NumShared + NumEncode <= NumInstances

ASSUME DisaggAssumption ==
  /\ {NumInstances, NumPrefill, NumDecode, NumShared, NumEncode} \subseteq Nat
  /\ ValidTopology
  /\ Capacity \in [Instances -> Nat \ {0}]
  /\ Requests \subseteq Nat \ {0} /\ IsFiniteSet(Requests)
  /\ InputLen \in [Requests -> Nat \ {0}]
  /\ OutputLen \in [Requests -> Nat \ {0}]
  /\ Deadline \in [Requests -> 0 .. Late]
  /\ EncodeDecider \in {"none", "never", "always", "multimodal"}
  /\ Multimodal \subseteq Requests
  /\ Decider \in {"never", "always", "prefix-threshold"}
  /\ Threshold \in Nat /\ MaxDrains \in Nat
  /\ RouteTimes \subseteq 0 .. Late
  /\ QueueingTimes \subseteq Nat
  /\ StepTimes \subseteq Nat \ {0} /\ TransferTimes \subseteq Nat

VARIABLES
  clock,          \* ClusterSimulator.clock, up to Late
  clusterQ,       \* clusterEvents, in the order they are popped
  instQ,          \* the event heap of every instance
  stepEvent,      \* stepEvent # nil
  waitQ, running, \* WaitQ and RunningBatch of every instance
  held,           \* blocks a sub-request holds
  sub,            \* what has become of a sub-request
  itl,            \* the sub-request's ITL is not empty
  lifecycle,      \* InstanceSimulator.State
  parents,        \* keys of parentRequests
  prefillAt, decodeAt,   \* PrefillInstanceID, DecodeInstanceID, 0 if unset
  attached,       \* requests whose DecodeSubReq is not nil
  stamp,          \* the times of the ParentRequest, -1 if unset
  pendingPrefill, pendingDecode,
  inFlight,       \* inFlightRequests
  tenant,         \* the tenant's count in the tenant tracker
  told,           \* calls of the session callback for the request
  n               \* the counters

eventVars == <<clock, clusterQ, instQ, stepEvent>>
engineVars == <<waitQ, running, held, sub, itl>>
parentVars == <<parents, prefillAt, decodeAt, attached, stamp>>
bookVars == <<pendingPrefill, pendingDecode, inFlight, tenant, told, n>>
vars == <<eventVars, engineVars, lifecycle, parentVars, bookVars>>

-----------------------------------------------------------------------------
Without(s, x) == SelectSeq(s, LAMBDA y : y # x)
(* The sum of natural numbers f[x], counted unit by unit.                  *)
Total(f, S) == Cardinality(UNION {{x} \X (1 .. f[x]) : x \in S})

(* Both heaps pop by time, then by priority, then in the order of pushing. *)
EventPriority ==
  [route |-> 2, prefill |-> 4, start |-> 5, done |-> 6,
   arrival |-> 0, queued |-> 1, step |-> 3, timeout |-> 6]

Push(q, delay, kind, arg) ==
  LET before == {k \in 1 .. Len(q) :
                   \/ q[k].in < delay
                   \/ /\ q[k].in = delay
                      /\ EventPriority[q[k].kind] <= EventPriority[kind]}
      c == Cardinality(before)
  IN  SubSeq(q, 1, c) \o <<[in |-> delay, kind |-> kind, arg |-> arg]>>
        \o SubSeq(q, c + 1, Len(q))

PushAll(q, kind, delay, args) ==
  FoldLeft(LAMBDA acc, x : Push(acc, delay, kind, x), q, args)

Sooner(q, d) == [k \in 1 .. Len(q) |-> [q[k] EXCEPT !.in = @ - d]]

(* Run: cluster events at a time come before instance events at that time. *)
ClusterFirst(d) == \A i \in Instances : instQ[i] # <<>> => d <= instQ[i][1].in

NextIsCluster(kind) ==
  /\ clusterQ # <<>>
  /\ clusterQ[1].kind = kind
  /\ ClusterFirst(clusterQ[1].in)

NextIsInstance(i, kind) ==
  /\ instQ[i] # <<>>
  /\ instQ[i][1].kind = kind
  /\ clusterQ # <<>> => ~ClusterFirst(clusterQ[1].in)
  /\ \A j \in Instances \ {i} : instQ[j] # <<>> =>
       IF j < i THEN instQ[i][1].in < instQ[j][1].in
                ELSE instQ[i][1].in <= instQ[j][1].in

Advance(d) == Min({clock + d, Late})

-----------------------------------------------------------------------------
IsRoutable(i) == lifecycle[i] = "active"
Has(i, pool) == pool \in Role[i]
(* buildPoolFilteredSnapshots: routable instances whose role has the pool. *)
Pool(pool) == {i \in Instances : IsRoutable(i) /\ Has(i, pool)}

Used(i, h) ==
  Total(h, {s \in Subs : \/ s[2] = "prefill" /\ prefillAt[s[1]] = i
                         \/ s[2] # "prefill" /\ decodeAt[s[1]] = i})
Free(i) == Capacity[i] - Used(i, held)

(* The deciders.  How many of the prompt's blocks the selected pod's cache *)
(* view reports is left open: the view may be stale.                       *)
Decide(r) ==
  CASE Decider = "never" -> {FALSE}
    [] Decider = "always" -> {TRUE}
    [] Decider = "prefix-threshold" ->
         {InputLen[r] - cached > Threshold : cached \in 0 .. InputLen[r]}

ShouldEncode(r) ==
  \/ EncodeDecider = "always"
  \/ EncodeDecider = "multimodal" /\ r \in Multimodal

NoStamps == [prefillEnqueue |-> -1, prefillComplete |-> -1, transferStart |-> -1,
             transferComplete |-> -1, decodeEnqueue |-> -1, completion |-> -1]

Init ==
  /\ clock = 0
  /\ \E due \in [Requests -> RouteTimes] :
       clusterQ = FoldLeft(LAMBDA q, r : Push(q, due[r], "route", r), <<>>,
                           SetToSortSeq(Requests, <))
  /\ instQ = [i \in Instances |-> <<>>]
  /\ stepEvent = [i \in Instances |-> FALSE]
  /\ waitQ = [i \in Instances |-> <<>>]
  /\ running = [i \in Instances |-> <<>>]
  /\ held = [s \in Subs |-> 0]
  /\ sub = [s \in Subs |-> "none"]
  /\ itl = [s \in Subs |-> FALSE]
  /\ lifecycle = [i \in Instances |-> "active"]
  /\ parents = {}
  /\ prefillAt = [r \in Requests |-> 0]
  /\ decodeAt = [r \in Requests |-> 0]
  /\ attached = {}
  /\ stamp = [r \in Requests |-> NoStamps]
  /\ pendingPrefill = {} /\ pendingDecode = {}
  /\ inFlight = [i \in Instances |-> 0]
  /\ tenant = 0
  /\ told = [r \in Requests |-> 0]
  /\ n = [completed |-> 0, timedOut |-> 0, dropped |-> 0,
          initiated |-> 0, transferred |-> 0, droppedAtDecodeKV |-> 0,
          prefillDone |-> 0, decodeDone |-> 0, decodeTimedOut |-> 0,
          routingRejections |-> 0, encodeRejections |-> 0]

-----------------------------------------------------------------------------
(* The event at the head is popped and time moves to it; what is pushed    *)
(* meanwhile is a delay from then on.                                      *)
Elapsed(d) ==
  /\ clock' = Advance(d)
  /\ UNCHANGED lifecycle

RestCluster == Sooner(Tail(clusterQ), clusterQ[1].in)
OthersSooner(d) == [i \in Instances |-> Sooner(instQ[i], d)]

(* InjectRequestOnline of a sub-request that was routed to i.              *)
Inject(i, s, q) ==
  /\ instQ' = [q EXCEPT ![i] = Push(@, 0, "arrival", s)]
  /\ sub' = [sub EXCEPT ![s] = "inbound"]
  /\ inFlight' = [inFlight EXCEPT ![i] = @ + 1]
  /\ tenant' = tenant + 1

(* executeDisaggregatedRouting: the decode pod first, then the decision,   *)
(* then the encode pool; a request that stays local goes straight to the   *)
(* decode pod, another one gets a parent and a prefill routing event.      *)
RejectRoute ==
  /\ NextIsCluster("route")
  /\ Elapsed(clusterQ[1].in)
  /\ clusterQ' = RestCluster
  /\ instQ' = OthersSooner(clusterQ[1].in)
  /\ \/ /\ Pool("decode") = {}
        /\ n' = [n EXCEPT !.routingRejections = @ + 1]
     \/ /\ Pool("decode") # {}
        /\ ShouldEncode(clusterQ[1].arg)
        /\ Pool("encode") = {}
        /\ n' = [n EXCEPT !.encodeRejections = @ + 1]
  /\ UNCHANGED <<stepEvent, engineVars, parentVars, pendingPrefill,
                 pendingDecode, inFlight, tenant, told>>

Route(i, disaggregate) ==
  /\ NextIsCluster("route")
  /\ i \in Pool("decode")
  /\ disaggregate \in Decide(clusterQ[1].arg)
  /\ ShouldEncode(clusterQ[1].arg) => Pool("encode") # {}
  /\ Elapsed(clusterQ[1].in)
  /\ LET r == clusterQ[1].arg
     IN  /\ decodeAt' = [decodeAt EXCEPT ![r] = i]
         /\ IF disaggregate
            THEN /\ parents' = parents \cup {r}
                 /\ clusterQ' = Push(RestCluster, 0, "prefill", r)
                 /\ instQ' = OthersSooner(clusterQ[1].in)
                 /\ UNCHANGED <<sub, inFlight, tenant>>
            ELSE /\ Inject(i, <<r, "local">>, OthersSooner(clusterQ[1].in))
                 /\ clusterQ' = RestCluster
                 /\ UNCHANGED parents
  /\ UNCHANGED <<stepEvent, waitQ, running, held, itl, prefillAt, attached,
                 stamp, pendingPrefill, pendingDecode, told, n>>

(* PrefillRoutingEvent: with no routable prefill instance the request is   *)
(* lost; the parent stays in the map and nobody is told.                   *)
RoutePrefill ==
  /\ NextIsCluster("prefill")
  /\ Elapsed(clusterQ[1].in)
  /\ clusterQ' = RestCluster
  /\ LET r == clusterQ[1].arg
         q == OthersSooner(clusterQ[1].in)
     IN  \/ /\ Pool("prefill") = {}
            /\ n' = [n EXCEPT !.routingRejections = @ + 1]
            /\ instQ' = q
            /\ UNCHANGED <<sub, prefillAt, stamp, pendingPrefill, inFlight, tenant>>
         \/ \E i \in Pool("prefill") :
              /\ prefillAt' = [prefillAt EXCEPT ![r] = i]
              /\ stamp' = [stamp EXCEPT ![r].prefillEnqueue = clock']
              /\ pendingPrefill' = pendingPrefill \cup {r}
              /\ Inject(i, <<r, "prefill">>, q)
              /\ UNCHANGED n
  /\ UNCHANGED <<stepEvent, waitQ, running, held, itl, parents, decodeAt,
                 attached, pendingDecode, told>>

(* KVTransferStartedEvent: reserve the prompt's blocks on the decode pod   *)
(* for the time of the transfer, or drop the request and schedule the      *)
(* completion that keeps the transfer counters in step.                    *)
CanReserve(r) ==
  /\ IsRoutable(decodeAt[r])
  /\ InputLen[r] <= Free(decodeAt[r])

DropAtStart(r) ==
  /\ n' = [n EXCEPT !.droppedAtDecodeKV = @ + 1, !.initiated = @ + 1]
  /\ stamp' = [stamp EXCEPT ![r].transferStart = clock', ![r].completion = clock']
  /\ clusterQ' = Push(RestCluster, 0, "done", r)

(* Mutant of ScheduleCompletion: the completion is never scheduled.        *)
ForgetCompletion(r) == clusterQ' = RestCluster
ScheduleCompletion(r) ==
  \E t \in TransferTimes : clusterQ' = Push(RestCluster, Max({1, t}), "done", r)

StartTransfer ==
  /\ NextIsCluster("start")
  /\ Elapsed(clusterQ[1].in)
  /\ instQ' = OthersSooner(clusterQ[1].in)
  /\ LET r == clusterQ[1].arg
     IN  \/ /\ CanReserve(r)
            /\ held' = [held EXCEPT ![<<r, "decode">>] = InputLen[r]]
            /\ sub' = [sub EXCEPT ![<<r, "decode">>] = "waitingKVs"]
            /\ attached' = attached \cup {r}
            /\ n' = [n EXCEPT !.initiated = @ + 1]
            /\ stamp' = [stamp EXCEPT ![r].transferStart = clock']
            /\ ScheduleCompletion(r)
         \/ /\ ~CanReserve(r)
            /\ DropAtStart(r)
            /\ UNCHANGED <<held, sub, attached>>
  /\ UNCHANGED <<stepEvent, waitQ, running, itl, parents, prefillAt, decodeAt,
                 pendingPrefill, pendingDecode, inFlight, tenant, told>>

(* Mutant of ReleaseReserved: the late drop forgets the blocks.            *)
KeepReserved(r) == UNCHANGED held
ReleaseReserved(r) == held' = [held EXCEPT ![<<r, "decode">>] = 0]

(* EnqueueDecodeSubRequest at the time of the transfer's end: the deadline *)
(* is armed wherever it lies, and an idle instance gets a step.            *)
Armed(q, r, s) ==
  IF Deadline[r] = 0 THEN q ELSE Push(q, Deadline[r] - clock', "timeout", s)

EnqueueDecode(i, r) ==
  LET q == Armed(Sooner(instQ[i], clusterQ[1].in), r, <<r, "decode">>)
      idle == running[i] = <<>> /\ ~stepEvent[i]
  IN  /\ waitQ' = [waitQ EXCEPT ![i] = Append(@, <<r, "decode">>)]
      /\ stepEvent' = [stepEvent EXCEPT ![i] = @ \/ idle]
      /\ instQ' = [OthersSooner(clusterQ[1].in) EXCEPT ![i] =
                     IF idle THEN Push(q, 0, "step", NoSub) ELSE q]

(* KVTransferCompletedEvent: the degenerate completion of a drop, the      *)
(* promotion of the sub-request, or a late drop because the pod has gone.  *)
CompleteTransfer ==
  /\ NextIsCluster("done")
  /\ Elapsed(clusterQ[1].in)
  /\ clusterQ' = RestCluster
  /\ LET r == clusterQ[1].arg
         i == decodeAt[r]
     IN  \/ /\ r \notin attached
            /\ n' = [n EXCEPT !.transferred = @ + 1]
            /\ instQ' = OthersSooner(clusterQ[1].in)
            /\ UNCHANGED <<stepEvent, waitQ, held, sub, attached, stamp,
                           pendingDecode, inFlight, tenant>>
         \/ /\ r \in attached
            /\ IsRoutable(i)
            /\ n' = [n EXCEPT !.transferred = @ + 1]
            /\ sub' = [sub EXCEPT ![<<r, "decode">>] = "queued"]
            /\ stamp' = [stamp EXCEPT ![r].transferComplete = clock',
                                      ![r].decodeEnqueue = clock']
            /\ inFlight' = [inFlight EXCEPT ![i] = @ + 1]
            /\ tenant' = tenant + 1
            /\ pendingDecode' = pendingDecode \cup {r}
            /\ EnqueueDecode(i, r)
            /\ UNCHANGED <<held, attached>>
         \/ /\ r \in attached
            /\ ~IsRoutable(i)
            /\ ReleaseReserved(r)
            /\ n' = [n EXCEPT !.transferred = @ + 1, !.droppedAtDecodeKV = @ + 1]
            /\ stamp' = [stamp EXCEPT ![r].transferComplete = clock',
                                      ![r].completion = clock']
            /\ attached' = attached \ {r}
            /\ sub' = [sub EXCEPT ![<<r, "decode">>] = "dropped"]
            /\ instQ' = OthersSooner(clusterQ[1].in)
            /\ UNCHANGED <<stepEvent, waitQ, pendingDecode, inFlight, tenant>>
  /\ UNCHANGED <<running, itl, parents, prefillAt, decodeAt, pendingPrefill, told>>

-----------------------------------------------------------------------------
(* Instance events.  After each one Run settles the in-flight count by the *)
(* number of sub-requests that ended, and terminates a draining instance   *)
(* whose queue and batch are empty.                                        *)
Settle(i, ended) ==
  /\ inFlight' = [inFlight EXCEPT ![i] = Max({@ - ended, 0})]
  /\ tenant' = tenant - ended

FinishDrain(i) ==
  lifecycle' = IF /\ lifecycle[i] = "draining"
                  /\ waitQ'[i] = <<>> /\ running'[i] = <<>>
               THEN [lifecycle EXCEPT ![i] = "terminated"]
               ELSE lifecycle

RestInst(i) ==
  [OthersSooner(instQ[i][1].in) EXCEPT ![i] = Tail(@)]
ClusterSooner(i) == Sooner(clusterQ, instQ[i][1].in)

Arrive(i) ==
  /\ NextIsInstance(i, "arrival")
  /\ clock' = Advance(instQ[i][1].in)
  /\ clusterQ' = ClusterSooner(i)
  /\ \E delay \in QueueingTimes :
       instQ' = [RestInst(i) EXCEPT ![i] = Push(@, delay, "queued", instQ[i][1].arg)]
  /\ UNCHANGED <<stepEvent, engineVars, parentVars, bookVars>>
  /\ FinishDrain(i)

(* The per-instance callback knows sessions only by the original request.  *)
TellLocal(s) ==
  IF s[2] = "local" THEN [told EXCEPT ![s[1]] = @ + 1] ELSE told

(* QueuedEvent and EnqueueRequest: drop what can never fit, time out what  *)
(* is past due, else queue it, arm its deadline and wake the instance.     *)
Enqueue(i) ==
  /\ NextIsInstance(i, "queued")
  /\ clock' = Advance(instQ[i][1].in)
  /\ clusterQ' = ClusterSooner(i)
  /\ LET s == instQ[i][1].arg
         r == s[1]
         unservable == InputLen[r] > Capacity[i]
         late == Deadline[r] > 0 /\ Deadline[r] <= clock'
     IN  IF unservable \/ late
         THEN /\ sub' = [sub EXCEPT ![s] = IF unservable THEN "dropped" ELSE "timedOut"]
              /\ n' = IF unservable THEN [n EXCEPT !.dropped = @ + 1]
                                    ELSE [n EXCEPT !.timedOut = @ + 1]
              /\ told' = TellLocal(s)
              /\ Settle(i, 1)
              /\ instQ' = RestInst(i)
              /\ UNCHANGED <<waitQ, stepEvent>>
         ELSE /\ sub' = [sub EXCEPT ![s] = "queued"]
              /\ waitQ' = [waitQ EXCEPT ![i] = Append(@, s)]
              /\ stepEvent' = [stepEvent EXCEPT ![i] = TRUE]
              /\ LET q == Armed(RestInst(i)[i], r, s)
                 IN  instQ' = [RestInst(i) EXCEPT ![i] =
                                 IF stepEvent[i] THEN q ELSE Push(q, 0, "step", NoSub)]
              /\ UNCHANGED <<n, told, inFlight, tenant>>
  /\ UNCHANGED <<running, held, itl, parentVars, pendingPrefill, pendingDecode>>
  /\ FinishDrain(i)

(* FormBatch.  Phase 1 gives every running request its next tokens and     *)
(* evicts from the tail of the batch what stands in the way; the survivors *)
(* are the longest prefix whose needs the free blocks and the evicted ones *)
(* cover.  Phase 2 takes the longest affordable prefix of the queue, and   *)
(* nothing after a preemption.  A decode sub-request is admitted with one  *)
(* token, whatever it has computed.                                        *)
NextTokens(s) ==
  IF held[s] < InputLen[s[1]] THEN InputLen[s[1]] - held[s] ELSE 1
FirstTokens(s) == IF s[2] = "decode" THEN 1 ELSE InputLen[s[1]]

SumOver(f(_), seq) == Total([s \in Range(seq) |-> f(s)], Range(seq))
Blocks(s) == held[s]

Survivors(i) ==
  LET batch == running[i]
      free == Free(i)
      fits(m) == SumOver(NextTokens, SubSeq(batch, 1, m))
                   <= free + SumOver(Blocks, SubSeq(batch, m + 1, Len(batch)))
  IN  Max({0} \cup {m \in 1 .. Len(batch) : fits(m)})

Admissible(i, kept, preempted) ==
  LET room == Free(i) - SumOver(NextTokens, kept)
      fits(k) == SumOver(FirstTokens, SubSeq(waitQ[i], 1, k)) <= room
  IN  IF preempted THEN 0
      ELSE Max({0} \cup {k \in 1 .. Len(waitQ[i]) : fits(k)})

(* completionProgressIndex                                                 *)
Boundary(s) ==
  InputLen[s[1]] + (IF s[2] = "prefill" THEN 1 ELSE OutputLen[s[1]]) - 1

(* The step of a batch whose first requests were kept, and which evicts    *)
(* and admits the others: blocks and tokens afterwards.                    *)
Allocated(kept, evicted, admitted) ==
  [s \in Subs |->
     IF s \in kept THEN held[s] + NextTokens(s)
     ELSE IF s \in admitted THEN held[s] + FirstTokens(s)
     ELSE IF s \in evicted THEN 0
     ELSE held[s]]

Emitting(kept, admitted) ==
  {s \in kept \cup {x \in admitted : x[2] = "decode"} : held[s] >= InputLen[s[1]]}

PrefillEnd(d) == d
Stamped(t) == Min({clock' + t, Late})

(* detectPrefillCompletions, detectDecodeCompletions: what the step that   *)
(* lasts d has finished.                                                   *)
DetectCompletions(i, finished, d) ==
  LET prefills == {s[1] : s \in {x \in finished : x[2] = "prefill"}} \cap pendingPrefill
      decodes == {s[1] : s \in {x \in finished : x[2] = "decode"}} \cap pendingDecode
      locals == {s[1] : s \in {x \in finished : x[2] = "local"}}
  IN  /\ clusterQ' = PushAll(ClusterSooner(i), "start", PrefillEnd(d),
                             SetToSortSeq(prefills, <))
      /\ pendingPrefill' = pendingPrefill \ prefills
      /\ pendingDecode' = pendingDecode \ decodes
      /\ stamp' = [r \in Requests |->
           IF r \in prefills THEN [stamp[r] EXCEPT !.prefillComplete = Stamped(d)]
           ELSE IF r \in decodes THEN [stamp[r] EXCEPT !.completion = Stamped(d)]
           ELSE stamp[r]]
      /\ told' = [r \in Requests |->
           told[r] + IF r \in decodes \cup locals THEN 1 ELSE 0]
      /\ n' = [n EXCEPT !.completed = @ + Cardinality(finished),
                        !.prefillDone = @ + Cardinality(prefills),
                        !.decodeDone = @ + Cardinality(decodes)]

(* StepEvent: schedule, execute, complete, schedule the next step.         *)
Step(i, d) ==
  /\ NextIsInstance(i, "step")
  /\ running[i] # <<>> \/ waitQ[i] # <<>>
  /\ clock' = Advance(instQ[i][1].in)
  /\ LET m == Survivors(i)
         kept == SubSeq(running[i], 1, m)
         evicted == SubSeq(running[i], m + 1, Len(running[i]))
         k == Admissible(i, kept, evicted # <<>>)
         admitted == SubSeq(waitQ[i], 1, k)
         after == Allocated(Range(kept), Range(evicted), Range(admitted))
         batch == kept \o admitted
         finished == {s \in Range(batch) : after[s] >= Boundary(s)}
         remaining == SelectSeq(batch, LAMBDA s : s \notin finished)
         waiting == evicted \o SubSeq(waitQ[i], k + 1, Len(waitQ[i]))
         again == remaining # <<>> \/ waiting # <<>>
     IN  /\ held' = [s \in Subs |-> IF s \in finished THEN 0 ELSE after[s]]
         /\ sub' = [s \in Subs |->
              IF s \in finished THEN "completed"
              ELSE IF s \in Range(remaining) THEN "running"
              ELSE IF s \in Range(evicted) THEN "queued"
              ELSE sub[s]]
         /\ itl' = [s \in Subs |-> \/ itl[s] /\ s \notin Range(evicted)
                                   \/ s \in Emitting(Range(kept), Range(admitted))]
         /\ running' = [running EXCEPT ![i] = remaining]
         /\ waitQ' = [waitQ EXCEPT ![i] = waiting]
         /\ stepEvent' = [stepEvent EXCEPT ![i] = again]
         /\ instQ' = [RestInst(i) EXCEPT ![i] =
                        IF again THEN Push(@, d, "step", NoSub) ELSE @]
         /\ DetectCompletions(i, finished, d)
         /\ Settle(i, Cardinality(finished))
  /\ UNCHANGED <<parents, prefillAt, decodeAt, attached>>
  /\ FinishDrain(i)

(* A StepEvent that finds nothing to do.                                   *)
OrphanStep(i) ==
  /\ NextIsInstance(i, "step")
  /\ running[i] = <<>> /\ waitQ[i] = <<>>
  /\ clock' = Advance(instQ[i][1].in)
  /\ clusterQ' = ClusterSooner(i)
  /\ instQ' = RestInst(i)
  /\ stepEvent' = [stepEvent EXCEPT ![i] = FALSE]
  /\ UNCHANGED <<engineVars, parentVars, bookVars>>
  /\ FinishDrain(i)

(* TimeoutEvent of a sub-request that completed: the clock does not move.  *)
SkipTimeout(i) ==
  /\ NextIsInstance(i, "timeout")
  /\ sub[instQ[i][1].arg] = "completed"
  /\ instQ' = [instQ EXCEPT ![i] = Tail(@)]
  /\ UNCHANGED <<clock, clusterQ, stepEvent, engineVars, parentVars, bookVars>>
  /\ FinishDrain(i)

TellTimeout(s) ==
  IF s[2] \in {"local", "decode"} THEN [told EXCEPT ![s[1]] = @ + 1] ELSE told

(* TimeoutEvent.Execute, and detectDecodeCompletions after it.             *)
TimeOut(i) ==
  /\ NextIsInstance(i, "timeout")
  /\ sub[instQ[i][1].arg] \in {"queued", "running"}
  /\ clock' = Advance(instQ[i][1].in)
  /\ clusterQ' = ClusterSooner(i)
  /\ LET s == instQ[i][1].arg
         decode == s[2] = "decode" /\ s[1] \in pendingDecode
     IN  /\ sub' = [sub EXCEPT ![s] = "timedOut"]
         /\ held' = [held EXCEPT ![s] = 0]
         /\ running' = [running EXCEPT ![i] = Without(@, s)]
         /\ waitQ' = [waitQ EXCEPT ![i] = Without(@, s)]
         /\ LET idle == running'[i] = <<>> /\ ~stepEvent[i] /\ waitQ'[i] # <<>>
            IN  /\ stepEvent' = [stepEvent EXCEPT ![i] = @ \/ idle]
                /\ instQ' = [RestInst(i) EXCEPT ![i] =
                               IF idle THEN Push(@, 0, "step", NoSub) ELSE @]
         /\ n' = [n EXCEPT !.timedOut = @ + 1,
                           !.decodeTimedOut = @ + IF decode THEN 1 ELSE 0]
         /\ pendingDecode' = IF decode THEN pendingDecode \ {s[1]} ELSE pendingDecode
         /\ stamp' = IF decode THEN [stamp EXCEPT ![s[1]].completion = clock'] ELSE stamp
         /\ told' = TellTimeout(s)
  /\ Settle(i, 1)
  /\ UNCHANGED <<itl, parents, prefillAt, decodeAt, attached, pendingPrefill>>
  /\ FinishDrain(i)

(* A scale-down marks the instance; nothing else happens then.             *)
Drain(i) ==
  /\ lifecycle[i] = "active"
  /\ Cardinality({j \in Instances : lifecycle[j] # "active"}) < MaxDrains
  /\ lifecycle' = [lifecycle EXCEPT ![i] = "draining"]
  /\ UNCHANGED <<eventVars, engineVars, parentVars, bookVars>>

(* Both kinds of heap are empty: Run returns.                              *)
Over ==
  /\ clusterQ = <<>>
  /\ \A i \in Instances : instQ[i] = <<>>
  /\ UNCHANGED vars

ClusterEvent ==
  \/ RejectRoute
  \/ \E i \in Instances, disaggregate \in BOOLEAN : Route(i, disaggregate)
  \/ RoutePrefill
  \/ StartTransfer
  \/ CompleteTransfer

InstanceEvent ==
  \E i \in Instances :
    \/ Arrive(i)
    \/ Enqueue(i)
    \/ \E d \in StepTimes : Step(i, d)
    \/ OrphanStep(i)
    \/ SkipTimeout(i)
    \/ TimeOut(i)

Next == ClusterEvent \/ InstanceEvent \/ (\E i \in Instances : Drain(i)) \/ Over

Spec == Init /\ [][Next]_vars
(* Run loops while a heap holds an event.                                  *)
FairSpec == Spec /\ WF_vars(ClusterEvent \/ InstanceEvent)

(* What HandoffEnds needs of it: as long as a cluster event is pending,    *)
(* events are handled.                                                     *)
LoopSpec == Spec /\ ([]<>(clusterQ = <<>>) \/ []<><<TRUE>>_<<clusterQ, instQ>>)

-----------------------------------------------------------------------------
(* The end of Run: aggregateMetrics sums the instances; the PD correction  *)
(* takes the prefill completions out and counts what is between the two    *)
(* stages as running.  The run may be cut at any moment by the horizon.    *)
QueuedIn(q) == Total([i \in Instances |-> Len(q[i])], Instances)
CompletedRequests == n.completed - n.prefillDone
DroppedUnservable == n.dropped + n.droppedAtDecodeKV
PDInTransfer ==
  n.prefillDone - n.decodeDone - n.decodeTimedOut - n.droppedAtDecodeKV
    - Cardinality(pendingDecode)
StillRunning == QueuedIn(running) + Max({PDInTransfer, 0})
StillQueued == QueuedIn(waitQ)

(* projectPDMetrics: a parent is reported if it has ended and its decode   *)
(* sub-request's first token survives; its E2E needs the decode's own.     *)
Served(r) ==
  /\ r \in parents
  /\ stamp[r].completion > 0 /\ decodeAt[r] # 0
  /\ r \in attached /\ itl[<<r, "decode">>]

SubRequestE2Es == {s \in Subs : sub[s] = "completed"}
(* Mutant of ProjectedE2Es: the prefill's entry is not deleted.            *)
ProjectedBesidePrefill ==
  {s \in SubRequestE2Es : s[1] \notin parents \/ s[2] = "prefill"}
    \cup {<<r, "parent">> : r \in {p \in Requests : Served(p)
                                     /\ <<p, "decode">> \in SubRequestE2Es}}
ProjectedE2Es ==
  {s \in SubRequestE2Es : s[1] \notin parents}
    \cup {<<r, "parent">> : r \in {p \in Requests : Served(p)
                                     /\ <<p, "decode">> \in SubRequestE2Es}}

-----------------------------------------------------------------------------
EventsOf(kind) == {clusterQ[k].arg : k \in {j \in 1 .. Len(clusterQ) :
                                              clusterQ[j].kind = kind}}
SubStates == {"none", "inbound", "queued", "running", "waitingKVs",
              "completed", "timedOut", "dropped"}
On(i) == {s \in Subs : \/ s[2] = "prefill" /\ prefillAt[s[1]] = i
                       \/ s[2] # "prefill" /\ decodeAt[s[1]] = i}

(* Every variable has the type its Go counterpart has.                     *)
TypeOK ==
  /\ clock \in Int /\ clock <= Late
  /\ \A k \in 1 .. Len(clusterQ) : clusterQ[k].arg \in Requests
  /\ \A i \in Instances : \A k \in 1 .. Len(instQ[i]) :
       instQ[i][k].arg \in Subs \cup {NoSub}
  /\ stepEvent \in [Instances -> BOOLEAN]
  /\ \A i \in Instances : Range(waitQ[i]) \cup Range(running[i]) \subseteq Subs
  /\ held \in [Subs -> Nat]
  /\ sub \in [Subs -> SubStates]
  /\ itl \in [Subs -> BOOLEAN]
  /\ lifecycle \in [Instances -> {"active", "draining", "terminated"}]
  /\ prefillAt \in [Requests -> Instances \cup {0}]
  /\ decodeAt \in [Requests -> Instances \cup {0}]
  /\ parents \cup attached \cup pendingPrefill \cup pendingDecode \subseteq Requests
  /\ inFlight \in [Instances -> Nat] /\ tenant \in Int
  /\ told \in [Requests -> Nat]
  /\ \A k \in DOMAIN n : n[k] \in Nat

(* Blocks are held only by sub-requests that an instance works on or whose *)
(* transfer is under way, never beyond the instance's capacity: neither a  *)
(* drop, late or early, nor a timeout nor a preemption leaks a reservation *)
(* (ReserveTransferredKV, ReleaseReservedKV).                              *)
BlocksAccounted ==
  /\ \A s \in Subs : held[s] > 0 =>
       /\ sub[s] \in {"queued", "running", "waitingKVs"}
       /\ sub[s] = "waitingKVs" => s[1] \in EventsOf("done") \cap attached
  /\ \A i \in Instances : Used(i, held) <= Capacity[i]

(* INV-PD-3: every transfer counted as initiated is counted as completed   *)
(* once its completion event has run, drops at the start included.         *)
TransfersBalanced ==
  n.initiated - n.transferred = Cardinality(EventsOf("done"))

(* INV-1 with the PD correction, at whatever moment the horizon cuts the   *)
(* run: every request is in one bucket of the report or still on its way   *)
(* to an instance, and pdInTransfer counts the transfers.                  *)
PDConservation ==
  /\ PDInTransfer = Cardinality(EventsOf("start") \cup (EventsOf("done") \cap attached))
  /\ Cardinality(Requests)
       = CompletedRequests + n.timedOut + DroppedUnservable
           + n.routingRejections + n.encodeRejections + StillQueued + StillRunning
           + Cardinality(EventsOf("route") \cup EventsOf("prefill"))
           + Cardinality({s \in Subs : sub[s] = "inbound"})

(* The router's in-flight counts and the tenant's slots cover exactly the  *)
(* sub-requests dispatched and not ended: two slots for one request while  *)
(* it passes from prefill to decode are both given back.                   *)
SlotsExact ==
  /\ \A i \in Instances : inFlight[i] =
       Cardinality({s \in On(i) : sub[s] \in {"inbound", "queued", "running"}})
  /\ tenant = Total(inFlight, Instances)

(* INV-PD-1 and INV-PD-4: the stages a parent went through lie in order; a *)
(* decode that timed out is exempt, its deadline may have been in the past.*)
StagesInOrder ==
  \A r \in Requests :
    LET t == stamp[r]
        inOrder(a, b) == a # -1 /\ b # -1 => a <= b
    IN  /\ inOrder(t.prefillEnqueue, t.prefillComplete)
        /\ inOrder(t.prefillComplete, t.transferStart)
        /\ t.prefillComplete # -1 /\ t.transferStart = -1 => t.prefillComplete >= clock
        /\ inOrder(t.transferStart, t.transferComplete)
        /\ inOrder(t.transferComplete, t.decodeEnqueue)
        /\ sub[<<r, "decode">>] # "timedOut" => inOrder(t.decodeEnqueue, t.completion)

(* The session hears of a request at most once, not while an instance still *)
(* works on it, and of every end on the decode side or locally. Of the ends *)
(* before (rejected, timed out in prefill, dropped with its transfer), which *)
(* the code tells nobody against INV-11 (invariants.md:430), it says nothing. *)
SessionToldOnce ==
  \A r \in Requests :
    /\ told[r] <= 1
    /\ told[r] = 1 => \A g \in Stages :
         sub[<<r, g>>] \notin {"inbound", "queued", "running", "waitingKVs"}
    /\ \/ sub[<<r, "local">>] \in {"completed", "timedOut", "dropped"}
       \/ sub[<<r, "decode">>] \in {"completed", "timedOut"}
       => told[r] = 1

(* INV-PD-6: after the projection the E2E distribution has one entry for   *)
(* every request the corrected counter calls completed.                    *)
ReportMatchesCounter == Cardinality(ProjectedE2Es) = CompletedRequests

(* A finished prefill's handoff ends: its request reaches the decode queue *)
(* or is dropped, however busy or stuck the decode instance is.            *)
HandoffEnds ==
  \A r \in Requests :
    (n.prefillDone > 0 /\ r \in EventsOf("start"))
      ~> (stamp[r].decodeEnqueue # -1 \/ stamp[r].completion # -1)

(* A decode sub-request that waits is not stranded in the queue: it gets   *)
(* to run, or it times out.                                                *)
NeverStranded ==
  \A r \in Requests :
    sub[<<r, "decode">>] = "queued" ~> sub[<<r, "decode">>] # "queued"

-----------------------------------------------------------------------------
(* What the runs check. *)

(* Between prefill and decode nothing leaks: blocks, transfers, in-flight  *)
(* counts and tenant slots belong to sub-requests that are on their way or *)
(* being served.                                                           *)
HandoffExact ==
  /\ TypeOK
  /\ BlocksAccounted
  /\ TransfersBalanced
  /\ SlotsExact

(* At whatever moment the run is cut, each request is reported in one      *)
(* bucket, with its stages in order and one E2E entry, and its session is  *)
(* told of it once at most.                                                *)
ReportedOnce ==
  /\ PDConservation
  /\ StagesInOrder
  /\ SessionToldOnce
  /\ ReportMatchesCounter
=============================================================================
