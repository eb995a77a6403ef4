------------------------------ MODULE Gateway -------------------------------
(***************************************************************************)
(* The control plane of a cluster (sim/cluster/cluster.go and              *)
(* cluster_event.go): arrival, admission, the gateway queue of flow        *)
(* control with its dispatch tick, request TTL and in-flight eviction,     *)
(* routing, and the accounting the event loop does after every event of an *)
(* instance.                                                               *)
(*                                                                         *)
(* One cluster event is one step.  An instance is reduced to what the      *)
(* control plane sees of it: a request it was given is injected (still in  *)
(* the instance's event heap), waiting or running, until an event of the   *)
(* instance completes, drops or times it out; module Engine has the        *)
(* instance itself.  The shared clock handles every cluster event of a     *)
(* time before any instance event of that time, and nothing else is known  *)
(* of when instances act: an instance event is possible whenever the next  *)
(* cluster event is later than now.                                        *)
(***************************************************************************)
EXTENDS GatewayQueue

CONSTANTS
  Instances,         \* instance IDs
  NoInstance, NoRequest,
  Configs,           \* the configurations to consider, see ConfigType
  ArrivalTimes,      \* the possible arrival times
  LoadTimes,         \* the possible times an instance is loaded, 0: from the start
  Budget,            \* Budget[t], requests in flight a tenant may have
  MaxConcurrency,    \* of ConcurrencyDetector
  TickInterval,      \* FlowControlDispatchTickInterval
  Horizon

(* A configuration: the options a queue reads, and those of the cluster.   *)
ConfigType ==
  [order : {"fifo", "priority", "slo-deadline"},
   fairness : {"global-strict", "round-robin"},
   maxDepth : Nat, maxBandCapacity : Nat, shedding : BOOLEAN,
   threshold : 1 .. SatScale,
   flowControl : BOOLEAN,      \* FlowControlEnabled
   ttl : Nat,                  \* FlowControlRequestTTL, 0 if off
   eviction : BOOLEAN,         \* FlowControlInFlightEviction
   budgets : BOOLEAN,          \* TenantBudgets configured
   admissionLatency : Nat, routingLatency : Nat]

ASSUME GatewayAssumption ==
  /\ IsFiniteSet(Instances) /\ NoInstance \notin Instances
  /\ NoRequest \notin Requests
  /\ Configs \subseteq ConfigType
  /\ ArrivalTimes \subseteq Nat /\ LoadTimes \subseteq Nat
  /\ Budget \in [Tenants -> Nat]
  /\ MaxConcurrency \in Nat \ {0}
  /\ TickInterval \in Nat \ {0}
  /\ Horizon \in Nat

VARIABLES
  conf,            \* the configuration, fixed at the start
  clock,           \* the cluster's clock at its last event
  eventQ,          \* clusterEvents, in the order they are popped
  queue,           \* gatewayQueue
  seqCounter,      \* FlowControlAdmission.seqCounter
  tickPending,     \* dispatchTickPending
  dispatchTime,    \* Request.GatewayDispatchTime
  routable,        \* the instances that are loaded
  stage,           \* where a request is on its instance, "none" if it is on none
  on,              \* the instance it is on
  inFlight,        \* inFlightRequests
  tenantInFlight,  \* TenantTracker.inFlight
  tracker,         \* the heap of EvictionTracker
  count,           \* the counters of the buckets of INV-1
  shedByTier,      \* shedByTier, by priority
  ledger           \* the buckets each request has been counted in

loopVars == <<clock, eventQ>>
gwVars == <<queue, seqCounter, tickPending, dispatchTime>>
instVars == <<stage, on, inFlight, tenantInFlight, tracker>>
tallyVars == <<count, shedByTier, ledger>>
vars == <<conf, loopVars, gwVars, routable, instVars, tallyVars>>

-----------------------------------------------------------------------------
Buckets ==
  {"finished",       \* completed, timed out or dropped: the instance tells them apart
   "rejected", "routingRejected", "shed", "queueRejected", "evicted", "expired"}
OwnCounters == Buckets \ {"shed", "queueRejected"}    \* the queue counts those

EventPriority ==
  [loaded |-> -1, arrival |-> 0, admission |-> 1, routing |-> 2,
   eviction |-> 5, ttl |-> 6, tick |-> 7]

Events ==
  [at : Nat, kind : DOMAIN EventPriority,
   req : Requests \cup {NoRequest}, inst : Instances \cup {NoInstance}]

Event(at, kind, r, i) == [at |-> at, kind |-> kind, req |-> r, inst |-> i]

(* heap.Push: by time, then by kind, then in the order of the pushes.      *)
Before(e, f) ==
  \/ e.at < f.at
  \/ e.at = f.at /\ EventPriority[e.kind] <= EventPriority[f.kind]
Push(q, e) ==
  LET k == Cardinality({j \in DOMAIN q : Before(q[j], e)})
  IN SubSeq(q, 1, k) \o <<e>> \o SubSeq(q, k + 1, Len(q))

InFlightSum(S) == MapThenSumSet(LAMBDA i : inFlight[i], S)
AtLeastZero(n) == IF n < 0 THEN 0 ELSE n

-----------------------------------------------------------------------------
(* Saturation by ConcurrencyDetector, in units of 1 / SatScale, rounded    *)
(* down: exact where it is compared with 1.0, and exact everywhere if      *)
(* SatScale is a multiple of the number of slots.                          *)
Saturation ==
  IF routable = {} THEN SatScale
  ELSE (InFlightSum(routable) * SatScale)
         \div (Cardinality(routable) * MaxConcurrency)

(* EvictionTracker: lowest priority first, then the newest dispatch; the   *)
(* heap decides between equals.                                            *)
TrackedBefore(x, y) ==
  \/ Priority[x.req] < Priority[y.req]
  \/ Priority[x.req] = Priority[y.req] /\ x.at > y.at
MostEvictable(trk) ==
  {x \in trk : \A y \in trk : ~TrackedBefore(y, x)}

(* tryDispatchFromGatewayQueue, after the arguments' changes: the possible *)
(* results.  Eviction, when it is tried, takes the place of the dispatch.  *)
TryDispatch(q, events, trk, now) ==
  LET ticked == IF tickPending THEN events
                ELSE Push(events, Event(now + TickInterval, "tick", NoRequest, NoInstance))
      gated == DequeueGated(q, conf, Saturation)
      evict == /\ Saturation >= SatScale /\ conf.eviction /\ trk # {}
               /\ HasNonSheddableWaiting(q)
      Routed(r) == Event(now + conf.routingLatency, "routing", r, NoInstance)
  IN CASE q.totalLen = 0 ->
            {[queue |-> q, events |-> events, tracker |-> trk,
              tick |-> tickPending, sent |-> {}]}
       [] q.totalLen # 0 /\ evict ->
            {[queue |-> q, tracker |-> trk \ {x}, tick |-> TRUE, sent |-> {},
              events |-> Push(ticked, Event(now, "eviction", x.req, x.inst))] :
               x \in MostEvictable(trk)}
       [] OTHER ->
            {[queue |-> gated.queue, tracker |-> trk, tick |-> TRUE,
              sent |-> gated.got,
              events |-> IF gated.got = {} THEN ticked
                         ELSE Push(ticked, Routed(CHOOSE r \in gated.got : TRUE))]}

Apply(d, now) ==
  /\ queue' = d.queue
  /\ tracker' = d.tracker
  /\ dispatchTime' = [r \in Requests |-> IF r \in d.sent THEN now ELSE dispatchTime[r]]

(* A bucket counts the requests S.                                         *)
Tally(S, bucket) ==
  /\ ledger' = [r \in Requests |->
                  IF r \in S THEN ledger[r] \cup {bucket} ELSE ledger[r]]
  /\ count' = IF bucket \in OwnCounters
              THEN [count EXCEPT ![bucket] = @ + Cardinality(S)] ELSE count

(* shedByTier grows with every refusal but the queue's and the router's.   *)
TallyTier(S) ==
  shedByTier' = [p \in Priorities |->
                   shedByTier[p] + Cardinality({r \in S : Priority[r] = p})]

NoTally == UNCHANGED tallyVars

-----------------------------------------------------------------------------
(* The cluster's event loop, for an event of the given kind.               *)
Handle(kind) ==
  /\ ~queue.panic
  /\ eventQ # <<>>
  /\ Head(eventQ).kind = kind
  /\ Head(eventQ).at <= Horizon
  /\ clock' = Head(eventQ).at

(* InstanceLoadedEvent, without warm-up.                                   *)
InstanceLoaded ==
  /\ Handle("loaded")
  /\ routable' = routable \cup {Head(eventQ).inst}
  /\ eventQ' = Tail(eventQ)
  /\ UNCHANGED <<conf, gwVars, instVars>> /\ NoTally

(* ClusterArrivalEvent                                                     *)
ClusterArrival ==
  /\ Handle("arrival")
  /\ eventQ' = Push(Tail(eventQ),
                    Event(clock' + conf.admissionLatency, "admission",
                          Head(eventQ).req, NoInstance))
  /\ UNCHANGED <<conf, gwVars, routable, instVars>> /\ NoTally

(* TenantBudgetAdmission: a sheddable request of a tenant over its budget. *)
OverBudget(r) ==
  /\ conf.budgets
  /\ tenantInFlight[Tenant[r]] > Budget[Tenant[r]]
  /\ IsSheddable(r)

(* AdmissionDecisionEvent: its four outcomes.                              *)
AdmissionRejects ==
  LET r == Head(eventQ).req IN
  /\ Handle("admission")
  /\ OverBudget(r)
  /\ eventQ' = Tail(eventQ)
  /\ Tally({r}, "rejected") /\ TallyTier({r})
  /\ UNCHANGED <<conf, gwVars, routable, instVars>>

AdmissionPasses ==
  LET r == Head(eventQ).req IN
  /\ Handle("admission")
  /\ ~OverBudget(r) /\ ~conf.flowControl
  /\ eventQ' = Push(Tail(eventQ),
                    Event(clock' + conf.routingLatency, "routing", r, NoInstance))
  /\ UNCHANGED <<conf, gwVars, routable, instVars>> /\ NoTally

Enqueued(r) == Enqueue(queue, conf, r, seqCounter + 1, Head(eventQ).at)

QueueRejects ==
  LET r == Head(eventQ).req
      e == Enqueued(r) IN
  /\ Handle("admission")
  /\ ~OverBudget(r) /\ conf.flowControl /\ e.outcome = "Rejected"
  /\ eventQ' = Tail(eventQ)
  /\ queue' = e.queue
  /\ seqCounter' = seqCounter + 1
  /\ Tally({r}, "queueRejected") /\ UNCHANGED shedByTier
  /\ UNCHANGED <<conf, tickPending, dispatchTime, routable, instVars>>

WithTTL(q, r) ==
  IF conf.ttl = 0 THEN q
  ELSE Push(q, Event(Head(eventQ).at + conf.ttl, "ttl", r, NoInstance))

QueueAccepts ==
  LET r == Head(eventQ).req
      e == Enqueued(r) IN
  /\ Handle("admission")
  /\ ~OverBudget(r) /\ conf.flowControl /\ e.outcome # "Rejected"
  /\ seqCounter' = seqCounter + 1
  /\ \E d \in TryDispatch(e.queue, WithTTL(Tail(eventQ), r), tracker, clock') :
       /\ Apply(d, clock')
       /\ eventQ' = d.events
       /\ tickPending' = d.tick
  /\ Tally(e.victims, "shed") /\ TallyTier(e.victims)
  /\ UNCHANGED <<conf, routable, stage, on, inFlight, tenantInFlight>>

(* RoutingDecisionEvent by executeStandardRouting: the policy may choose   *)
(* any routable instance.                                                  *)
RoutingRejects ==
  /\ Handle("routing")
  /\ routable = {}
  /\ eventQ' = Tail(eventQ)
  /\ Tally({Head(eventQ).req}, "routingRejected") /\ UNCHANGED shedByTier
  /\ UNCHANGED <<conf, gwVars, routable, instVars>>

Track(r, i) ==
  IF conf.eviction /\ IsSheddable(r)
  THEN tracker \cup {[req |-> r, at |-> dispatchTime[r], inst |-> i]} ELSE tracker

Route(i) ==
  LET r == Head(eventQ).req IN
  /\ Handle("routing")
  /\ i \in routable
  /\ eventQ' = Tail(eventQ)
  /\ stage' = [stage EXCEPT ![r] = "injected"]
  /\ on' = [on EXCEPT ![r] = i]
  /\ inFlight' = [inFlight EXCEPT ![i] = @ + 1]
  /\ tenantInFlight' = IF conf.budgets
                       THEN [tenantInFlight EXCEPT ![Tenant[r]] = @ + 1]
                       ELSE tenantInFlight
  /\ tracker' = Track(r, i)
  /\ UNCHANGED <<conf, gwVars, routable>> /\ NoTally

(* TenantTracker.OnComplete for the requests S.                            *)
TenantsAfter(S) ==
  IF conf.budgets
  THEN [t \in Tenants |-> AtLeastZero(
          tenantInFlight[t] - Cardinality({r \in S : Tenant[r] = t}))]
  ELSE tenantInFlight

OffInstance(S) ==
  /\ stage' = [r \in Requests |-> IF r \in S THEN "none" ELSE stage[r]]
  /\ on' = [r \in Requests |-> IF r \in S THEN NoInstance ELSE on[r]]

(* GatewayEvictionEvent: EvictRequest finds the request in the wait queue  *)
(* or the running batch, not in the instance's event heap.                 *)
GatewayEvicts ==
  LET r == Head(eventQ).req
      i == Head(eventQ).inst IN
  /\ Handle("eviction")
  /\ on[r] = i /\ stage[r] \in {"waiting", "running"}
  /\ eventQ' = Tail(eventQ)
  /\ OffInstance({r})
  /\ inFlight' = [inFlight EXCEPT ![i] = AtLeastZero(@ - 1)]
  /\ tenantInFlight' = TenantsAfter({r})
  /\ Tally({r}, "evicted") /\ TallyTier({r})
  /\ UNCHANGED <<conf, gwVars, routable, tracker>>

EvictionMisses ==
  LET r == Head(eventQ).req
      i == Head(eventQ).inst IN
  /\ Handle("eviction")
  /\ ~(on[r] = i /\ stage[r] \in {"waiting", "running"})
  /\ eventQ' = Tail(eventQ)
  /\ UNCHANGED <<conf, gwVars, routable, instVars>> /\ NoTally

(* GatewayQueueTTLEvent                                                    *)
TTLExpiryUncounted ==            \* mutant: gatewayExpired is not incremented
  LET d == RemoveByRequestID(queue, Head(eventQ).req) IN
  /\ Handle("ttl")
  /\ eventQ' = Tail(eventQ)
  /\ queue' = d.queue
  /\ TallyTier(d.got)
  /\ UNCHANGED <<count, ledger>>
  /\ UNCHANGED <<conf, seqCounter, tickPending, dispatchTime, routable, instVars>>
TTLExpiry ==
  LET d == RemoveByRequestID(queue, Head(eventQ).req) IN
  /\ Handle("ttl")
  /\ eventQ' = Tail(eventQ)
  /\ queue' = d.queue
  /\ Tally(d.got, "expired") /\ TallyTier(d.got)
  /\ UNCHANGED <<conf, seqCounter, tickPending, dispatchTime, routable, instVars>>

(* GatewayDispatchTickEvent: one attempt, and another tick while requests  *)
(* wait.                                                                   *)
DispatchTick ==
  /\ Handle("tick")
  /\ \E d \in TryDispatch(queue, Tail(eventQ), tracker, clock') :
       /\ Apply(d, clock')
       /\ IF d.queue.totalLen > 0
          THEN /\ eventQ' = Push(d.events,
                                 Event(clock' + TickInterval, "tick", NoRequest, NoInstance))
               /\ UNCHANGED tickPending
          ELSE eventQ' = d.events /\ tickPending' = FALSE
  /\ UNCHANGED <<conf, seqCounter, routable, stage, on, inFlight, tenantInFlight>>
  /\ NoTally

-----------------------------------------------------------------------------
(* Instance events.  The loop compares the instance's counters before and  *)
(* after and takes the difference off inFlightRequests; OnRequestDone has  *)
(* meanwhile told the tenant tracker and the eviction tracker.             *)
InstanceTurn ==
  /\ ~queue.panic
  /\ clock <= Horizon
  /\ \A k \in DOMAIN eventQ : eventQ[k].at > clock

Leave(i, S) ==
  /\ OffInstance(S)
  /\ inFlight' = [inFlight EXCEPT ![i] = AtLeastZero(@ - Cardinality(S))]
  /\ tenantInFlight' = TenantsAfter(S)
  /\ tracker' = {x \in tracker : x.req \notin S}
  /\ Tally(S, "finished") /\ UNCHANGED shedByTier

(* ArrivalEvent and QueuedEvent: into the wait queue.                      *)
InstanceQueues(r) ==
  /\ InstanceTurn
  /\ stage[r] = "injected"
  /\ stage' = [stage EXCEPT ![r] = "waiting"]
  /\ UNCHANGED <<conf, loopVars, gwVars, routable>>
  /\ UNCHANGED <<on, inFlight, tenantInFlight, tracker>> /\ NoTally

(* StepEvent: requests start, are preempted or complete.                   *)
InstanceSteps(i) ==
  LET waiting == {r \in Requests : on[r] = i /\ stage[r] = "waiting"}
      running == {r \in Requests : on[r] = i /\ stage[r] = "running"} IN
  /\ InstanceTurn
  /\ \/ \E S \in (SUBSET running) \ {{}} : Leave(i, S)
     \/ \E r \in waiting \cup running :
          /\ stage' = [stage EXCEPT ![r] =
                         IF r \in waiting THEN "running" ELSE "waiting"]
          /\ UNCHANGED <<on, inFlight, tenantInFlight, tracker>> /\ NoTally
  /\ UNCHANGED <<conf, loopVars, gwVars, routable>>

(* EnqueueRequest drops the request as unservable, or its client gives up  *)
(* on it: TimeoutEvent finds it on its way in, waiting or running.         *)
InstanceDiscardsUnseen(r) ==     \* mutant: the difference leaves out timeouts
  /\ InstanceTurn
  /\ stage[r] # "none"
  /\ OffInstance({r})
  /\ tenantInFlight' = TenantsAfter({r})
  /\ tracker' = {x \in tracker : x.req # r}
  /\ Tally({r}, "finished")
  /\ UNCHANGED <<conf, loopVars, gwVars, routable, inFlight, shedByTier>>
InstanceDiscards(r) ==
  /\ InstanceTurn
  /\ stage[r] # "none"
  /\ Leave(on[r], {r})
  /\ UNCHANGED <<conf, loopVars, gwVars, routable>>

-----------------------------------------------------------------------------
(* Run drains the request source, which is in the order of arrival, into   *)
(* arrival events; an instance that is not loaded yet has its event in the *)
(* heap already.  Events at one time are in the order of the source, or of *)
(* the instances, which can be any.                                        *)
ArrivalEvents(times) == {Event(times[r], "arrival", r, NoInstance) : r \in Requests}
LoadEvents(loads) ==
  {Event(loads[i], "loaded", NoRequest, i) : i \in {j \in Instances : loads[j] > 0}}

Sorted(q) == \A k, m \in DOMAIN q : k < m => Before(q[k], q[m])

(* The heaps that hold the events E, in the order they are popped.         *)
Heaps(E) ==
  {q \in [1 .. Cardinality(E) -> E] :
     Sorted(q) /\ \A e \in E : \E k \in DOMAIN q : q[k] = e}

Init ==
  /\ conf \in Configs
  /\ clock = 0
  /\ \E times \in [Requests -> ArrivalTimes], loads \in [Instances -> LoadTimes] :
       /\ eventQ \in Heaps(ArrivalEvents(times) \cup LoadEvents(loads))
       /\ routable = {i \in Instances : loads[i] = 0}
  /\ queue = EmptyQueue
  /\ seqCounter = 0
  /\ tickPending = FALSE
  /\ dispatchTime = [r \in Requests |-> 0]
  /\ stage = [r \in Requests |-> "none"]
  /\ on = [r \in Requests |-> NoInstance]
  /\ inFlight = [i \in Instances |-> 0]
  /\ tenantInFlight = [t \in Tenants |-> 0]
  /\ tracker = {}
  /\ count = [b \in OwnCounters |-> 0]
  /\ shedByTier = [p \in Priorities |-> 0]
  /\ ledger = [r \in Requests |-> {}]

Admission == AdmissionRejects \/ AdmissionPasses \/ QueueRejects \/ QueueAccepts
Eviction == GatewayEvicts \/ EvictionMisses
Routing == RoutingRejects \/ \E i \in Instances : Route(i)
InstanceEvent ==
  \/ \E r \in Requests : InstanceQueues(r) \/ InstanceDiscards(r)
  \/ \E i \in Instances : InstanceSteps(i)

Next ==
  \/ InstanceLoaded
  \/ ClusterArrival
  \/ Admission
  \/ Routing
  \/ Eviction
  \/ TTLExpiry
  \/ DispatchTick
  \/ InstanceEvent

Spec == Init /\ [][Next]_vars

-----------------------------------------------------------------------------
(* Properties                                                              *)

Pending(kind) == {k \in DOMAIN eventQ : eventQ[k].kind = kind}

(* Every variable has its type. *)
TypeOK ==
  /\ conf \in Configs
  /\ clock \in Nat /\ seqCounter \in Nat
  /\ eventQ \in Seq(Events)
  /\ queue \in Queues
  /\ tickPending \in BOOLEAN
  /\ dispatchTime \in [Requests -> Nat]
  /\ routable \subseteq Instances
  /\ stage \in [Requests -> {"none", "injected", "waiting", "running"}]
  /\ on \in [Requests -> Instances \cup {NoInstance}]
  /\ inFlight \in [Instances -> Nat]
  /\ tenantInFlight \in [Tenants -> Nat]
  /\ tracker \subseteq [req : Requests, at : Nat, inst : Instances]
  /\ count \in [OwnCounters -> Nat]
  /\ shedByTier \in [Priorities -> Nat]
  /\ ledger \in [Requests -> SUBSET Buckets]

(* INV-16: whatever the sequence of enqueues, sheds, dispatches and TTL    *)
(* removals, the counters of the queue and of its bands and the request    *)
(* index agree with the flows.                                             *)
QueueCountersExact == QueueConsistent(queue)

(* INV-16 and INV-17: no panic of the queue is reachable: a positive       *)
(* counter always yields a request, the victim of shedding is the tail of  *)
(* its flow, and an indexed request is where the index says.               *)
QueueNeverPanics == ~queue.panic

(* INV-1 with the exclusivity clause no aggregate sum can check: every     *)
(* request is in exactly one place of the pipeline or in exactly one       *)
(* terminal bucket, and every counter is the size of its bucket.           *)
OneBucketEach ==
  LET InPipeline(r) ==
        Cardinality({k \in DOMAIN eventQ :
                       /\ eventQ[k].kind \in {"arrival", "admission", "routing"}
                       /\ eventQ[k].req = r})
        + (IF r \in Queued(queue) THEN 1 ELSE 0)
        + (IF stage[r] # "none" THEN 1 ELSE 0)
      Counted(b) == Cardinality({r \in Requests : b \in ledger[r]})
  IN /\ \A r \in Requests : InPipeline(r) + Cardinality(ledger[r]) = 1
     /\ \A b \in OwnCounters : count[b] = Counted(b)
     /\ queue.shedCount = Counted("shed")
     /\ queue.rejectedCount = Counted("queueRejected")

(* The tiers of shedByTier add up to the requests refused by admission,    *)
(* shed, evicted or expired, tier by tier: every path that turns a request *)
(* away counts it for its tier once, and the queue's own rejections never. *)
ShedAccounting ==
  \A p \in Priorities :
    shedByTier[p] =
      Cardinality({r \in Requests :
                     /\ Priority[r] = p
                     /\ ledger[r] \cap {"rejected", "shed", "evicted", "expired"} # {}})

(* inFlightRequests, which routing and saturation read, is exactly the     *)
(* number of requests an instance has, those still in its event heap       *)
(* included, so that the clamp at zero never hides a miscount.             *)
InFlightExact ==
  \A i \in Instances :
    inFlight[i] = Cardinality({r \in Requests : on[r] = i /\ stage[r] # "none"})

(* The tenant tracker's count survives every way a request can end.        *)
TenantCountExact ==
  conf.budgets =>
    \A t \in Tenants :
      tenantInFlight[t] =
        Cardinality({r \in Requests : Tenant[r] = t /\ stage[r] # "none"})

(* The eviction tracker holds only sheddable requests that are still on    *)
(* the instance it names: a request that ended is never evicted, and an    *)
(* eviction always has a live target.                                      *)
TrackerSound ==
  /\ \A x \in tracker :
       IsSheddable(x.req) /\ stage[x.req] # "none" /\ on[x.req] = x.inst
  /\ \A x, y \in tracker : x.req = y.req => x = y
  /\ \A k \in Pending("eviction") :
       /\ stage[eventQ[k].req] # "none" /\ IsSheddable(eventQ[k].req)
       /\ \A x \in tracker : x.req # eventQ[k].req

(* While requests wait in the gateway queue a dispatch tick is on its way, *)
(* and never two: no order of enqueues, expiries and dispatches strands    *)
(* them or multiplies the ticks.                                           *)
TickWhileWaiting ==
  /\ queue.totalLen > 0 => tickPending
  /\ Cardinality(Pending("tick")) = IF tickPending THEN 1 ELSE 0

(* No inversion: a request that leaves the queue to be routed leaves no    *)
(* more urgent one behind, unless the order is fifo, and none that came    *)
(* before it in its own flow, unless deadlines decide.                     *)
NoPriorityInversion ==
  [][\A r \in Queued(queue) :
       (\E k \in DOMAIN eventQ' : eventQ'[k].kind = "routing" /\ eventQ'[k].req = r) =>
         /\ conf.order # "fifo" => \A s \in Queued(queue)' : Priority[s] <= Priority[r]
         /\ conf.order # "slo-deadline" =>
              \A pos \in Positions(queue) :
                At(queue, pos).req = r => pos.i = 1]_vars

-----------------------------------------------------------------------------
(* What the runs check. *)

(* The gateway queue at any moment: counters and index equal its contents, *)
(* shedding cannot panic, and a tick is on its way while anyone waits.     *)
QueueSound ==
  /\ TypeOK
  /\ QueueCountersExact
  /\ QueueNeverPanics
  /\ TickWhileWaiting

(* INV-1 for the gateway: a request is in the pipeline or in exactly one   *)
(* terminal bucket, and the totals by tier say the same.                   *)
EndsCountedOnce ==
  /\ OneBucketEach
  /\ ShedAccounting

(* The three trackers that routing, admission and eviction read agree with *)
(* where the requests are, whichever way a request ended.                  *)
TrackersExact ==
  /\ InFlightExact
  /\ TenantCountExact
  /\ TrackerSound
=============================================================================
