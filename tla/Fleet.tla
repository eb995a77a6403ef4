------------------------------- MODULE Fleet -------------------------------
(***************************************************************************)
(* The fleet below the router: node pools and GPU placement, the life of   *)
(* nodes and instances, the drain policies, and the autoscaler that reads  *)
(* the fleet at every tick and changes it one scrape delay later.          *)
(*                                                                         *)
(* Requests are reduced to where they are: in the cluster's heap           *)
(* (`client`, `admitting`), in an instance's heap (`arriving`, `arrived`), *)
(* in its wait queue or its running batch.  Time is counted in autoscaler  *)
(* intervals; events whose delay is sampled (provisioning, loading, steps) *)
(* fall anywhere between two ticks.                                        *)
(***************************************************************************)
EXTENDS Integers, Sequences, FiniteSets

CONSTANTS
    Pools,           \* sequence of [gpn, cost, initial]: the node pools
    MaxNodes,        \* bound: nodes a pool may ever have
    TP,              \* tensor-parallel degree of every instance
    NumInstances,    \* instances asked for at start-up
    MaxAuto,         \* bound: instances the autoscaler may ever add
    WarmUp,          \* WarmUpRequestCount
    WarmStart,       \* WarmStartInitialInstances
    LoadDelays,      \* loading delays to choose from: 0 or 1 (> 0)
    Requests,
    Cap,             \* effective KV capacity of a replica, in requests
    UpPct, DownPct,  \* ScaleUpThreshold, ScaleDownBoundary, in percent
    UpWindow, DownWindow,   \* stabilization windows, in intervals
    ScrapeDelays,    \* HPA scrape delays to choose from, in intervals
    Greedy,          \* TRUE: GreedyEngine, FALSE: UnlimitedEngine
    MaxTicks,        \* bound: autoscaler ticks
    MaxOps,          \* bound: operator calls (provision, drain)
    Policies         \* drain policies an operator may apply

ASSUME FleetAssumption ==
    /\ MaxNodes \in Nat /\ MaxAuto \in Nat /\ MaxTicks \in Nat /\ MaxOps \in Nat
    /\ Pools \in Seq([gpn : Nat \ {0}, cost : Nat, initial : 0..MaxNodes])
    /\ TP \in Nat \ {0} /\ NumInstances \in Nat
    /\ WarmUp \in Nat /\ IsFiniteSet(Requests)
    /\ Cap \in Nat \ {0}
    /\ UpPct \in Nat /\ DownPct \in Nat /\ 0 < DownPct /\ DownPct < UpPct
    /\ UpWindow \in Nat /\ DownWindow \in Nat /\ ScrapeDelays \subseteq Nat

VARIABLES
    nstate,     \* node -> "Absent", "Provisioning", "Ready", "Draining", "Terminated"
    cb,         \* nodes whose drain callback is set
    drainedEv,  \* nodes with a NodeDrainedEvent in the heap
    alloc,      \* GPU -> instance it is allocated to, or NoInst
    pending,    \* pendingInsts: start-up instances waiting for a node
    ist,        \* instance -> life-cycle state ("Scheduling" before it is built)
    held,       \* allocatedGPUIDs of each instance
    warm,       \* warmUpRemaining
    loadEv,     \* instances with an InstanceLoadedEvent in the heap
    inFlight,   \* inFlightRequests
    where,      \* request -> [at, on]
    clean,      \* ghost: instances no immediate drain was applied to
    tick,       \* the interval of the next ScalingTickEvent, or NoTick
    upSince, downSince,   \* first signal, in intervals, or NoTick
    acts,       \* ScaleActuationEvents in the heap: [at, pool, delta]
    ops         \* operator calls so far

placementVars == <<nstate, cb, drainedEv, alloc, pending, held>>
scalerVars == <<tick, upSince, downSince, acts>>
requestVars == <<inFlight, where>>
vars == <<placementVars, ist, warm, loadEv, requestVars, clean, scalerVars, ops>>

NoInst == 0
NoTick == -1

\* Start-up instances come first, in creation order.
Insts == 1..(NumInstances + MaxAuto)
Startup(i) == i <= NumInstances

Nodes == {<<p, k>> : p \in DOMAIN Pools, k \in 1..MaxNodes}
GPUsOf(n) == {<<n[1], n[2], g>> : g \in 1..Pools[n[1]].gpn}
GPUs == UNION {GPUsOf(n) : n \in Nodes}
NodeOf(g) == <<g[1], g[2]>>

Earlier(x, y) == \E d \in DOMAIN x : x[d] < y[d] /\ \A e \in 1..(d - 1) : x[e] = y[e]
Least(S) == CHOOSE x \in S : \A y \in S \ {x} : Earlier(x, y)
Rank(x, S) == Cardinality({y \in S : Earlier(y, x)}) + 1
FirstK(S, k) == {x \in S : Rank(x, S) <= k}

(***************************************************************************)
(* PlacementManager                                                        *)
(***************************************************************************)
free(a, n) == {g \in GPUsOf(n) : a[g] = NoInst}
allocatedCount(a, n) == Cardinality({g \in GPUsOf(n) : a[g] # NoInst})
ReadyNodes == {n \in Nodes : nstate[n] = "Ready"}

\* The GPUs PlaceInstance would commit: the first single node with room, else
\* the first pool that can give whole free nodes, else none.  `ready` is the
\* set of Ready nodes of the matching pools.
PlaceInstance(a, ready) ==
    LET roomy == {n \in ready : Cardinality(free(a, n)) >= TP}
        whole(p) == {n \in ready : n[1] = p /\ allocatedCount(a, n) = 0}
        gpn(p) == Pools[p].gpn
        spans == {p \in DOMAIN Pools : /\ TP > gpn(p) /\ TP % gpn(p) = 0
                                       /\ Cardinality(whole(p)) >= TP \div gpn(p)}
        p1 == CHOOSE p \in spans : \A q \in spans : p <= q
    IN  CASE roomy # {} -> FirstK(free(a, Least(roomy)), TP)
          [] roomy = {} /\ spans # {} ->
                UNION {GPUsOf(n) : n \in FirstK(whole(p1), TP \div gpn(p1))}
          [] OTHER -> {}

Commit(a, G, i) == [g \in GPUs |-> IF g \in G THEN i ELSE a[g]]

\* distinctNodesForGPUs and InstanceCostPerHour.
distinctNodesForGPUs(G) == {NodeOf(g) : g \in G}
PoolOf(i) == (CHOOSE g \in held[i] : TRUE)[1]
CostPerHour(i) == Cardinality(distinctNodesForGPUs(held[i])) * Pools[PoolOf(i)].cost

\* ReleaseInstance: free the GPUs; every touched Draining node left empty
\* fires its callback, which schedules a NodeDrainedEvent.
Released(a, i) == [g \in GPUs |-> IF a[g] = i THEN NoInst ELSE a[g]]

DrainCompleted(a, i) ==
    {n \in cb : /\ nstate[n] = "Draining"
                /\ \E g \in GPUsOf(n) : a[g] = i
                /\ allocatedCount(Released(a, i), n) = 0}
ReleaseInstance(i) ==
    /\ alloc' = Released(alloc, i)
    /\ cb' = cb \ DrainCompleted(alloc, i)
    /\ drainedEv' = drainedEv \cup DrainCompleted(alloc, i)

\* RetryPendingInstances: one pass over the pending list; a placed instance is
\* replaced by the last one, which is tried next at the same index.
RetryNext(s, ready) ==
    LET G == PlaceInstance(s.a, ready)
        n == Len(s.q)
    IN  IF G = {} THEN [s EXCEPT !.i = s.i + 1]
        ELSE [a |-> Commit(s.a, G, s.q[s.i]),
              q |-> SubSeq([s.q EXCEPT ![s.i] = s.q[n]], 1, n - 1),
              i |-> s.i,
              placed |-> s.placed \cup {s.q[s.i]}]
Retries(a0, q0, ready) ==
    LET run[k \in 0..Len(q0)] ==
          IF k = 0 THEN [a |-> a0, q |-> q0, i |-> 1, placed |-> {}]
          ELSE RetryNext(run[k - 1], ready)
    IN  run
RetryPending(a0, ready) == Retries(a0, pending, ready)[Len(pending)]

(***************************************************************************)
(* Requests and the routable fleet                                         *)
(***************************************************************************)
IsRoutable(i) == ist[i] \in {"Active", "WarmingUp"}
RoutableInsts == {i \in Insts : IsRoutable(i)}
On(i, stages) == {r \in Requests : where[r].on = i /\ where[r].at \in stages}
WaitQ(i) == On(i, {"queued"})
Batch(i) == On(i, {"running"})
InHeap(i) == On(i, {"arriving", "arrived"})
Aboard(i) == On(i, {"arriving", "arrived", "queued", "running"})
Move(S, stage) == [r \in Requests |-> IF r \in S THEN [where[r] EXCEPT !.at = stage] ELSE where[r]]

Minus(x, y) == IF x > y THEN x - y ELSE 0

\* ClusterArrivalEvent: the request leaves pendingArrivals.
ClusterArrival(r) ==
    /\ where[r].at = "client"
    /\ where' = Move({r}, "admitting")
    /\ UNCHANGED <<placementVars, ist, warm, loadEv, inFlight, clean, scalerVars, ops>>

\* RoutingDecisionEvent: rejected when nothing is routable, else injected into
\* an instance's heap.
Route(r) ==
    /\ where[r].at = "admitting"
    /\ \/ /\ RoutableInsts = {}
          /\ where' = Move({r}, "rejected")
          /\ UNCHANGED inFlight
       \/ \E i \in RoutableInsts :
            /\ where' = [where EXCEPT ![r] = [at |-> "arriving", on |-> i]]
            /\ inFlight' = [inFlight EXCEPT ![i] = @ + 1]
    /\ UNCHANGED <<placementVars, ist, warm, loadEv, clean, scalerVars, ops>>

\* Mutant: the drain check reads the queue and batch from before the event.
AfterEventStale(i, w, done) ==
    LET warming == ist[i] = "WarmingUp"
        left == IF warming THEN Minus(warm[i], done) ELSE warm[i]
    IN  /\ where' = w
        /\ inFlight' = [inFlight EXCEPT ![i] = Minus(@, done)]
        /\ warm' = [warm EXCEPT ![i] = left]
        /\ IF ist[i] = "Draining" /\ WaitQ(i) \cup Batch(i) = {}
           THEN /\ ist' = [ist EXCEPT ![i] = "Terminated"]
                /\ ReleaseInstance(i)
           ELSE /\ ist' = [ist EXCEPT ![i] = IF warming /\ left = 0 THEN "Active" ELSE @]
                /\ UNCHANGED <<alloc, cb, drainedEv>>
        /\ UNCHANGED <<nstate, pending, held, loadEv, clean, scalerVars, ops>>

\* What Run() does after an instance event that left the requests at w and
\* completed `done` of them: in-flight count, warm-up slots, and the drain
\* completion check on queue and batch.
AfterEvent(i, w, done) ==
    LET warming == ist[i] = "WarmingUp"
        left == IF warming THEN Minus(warm[i], done) ELSE warm[i]
        idle == \A r \in Requests : w[r].on = i => w[r].at \notin {"queued", "running"}
    IN  /\ where' = w
        /\ inFlight' = [inFlight EXCEPT ![i] = Minus(@, done)]
        /\ warm' = [warm EXCEPT ![i] = left]
        /\ IF ist[i] = "Draining" /\ idle
           THEN /\ ist' = [ist EXCEPT ![i] = "Terminated"]
                /\ ReleaseInstance(i)
           ELSE /\ ist' = [ist EXCEPT ![i] = IF warming /\ left = 0 THEN "Active" ELSE @]
                /\ UNCHANGED <<alloc, cb, drainedEv>>
        /\ UNCHANGED <<nstate, pending, held, loadEv, clean, scalerVars, ops>>

\* ArrivalEvent and QueuedEvent of a request in the instance's heap.
InstanceArrival(i) ==
    \E r \in On(i, {"arriving"}) : AfterEvent(i, Move({r}, "arrived"), 0)
InstanceQueued(i) ==
    \E r \in On(i, {"arrived"}) : AfterEvent(i, Move({r}, "queued"), 0)

\* A StepEvent: some of the batch finishes, some of the queue is admitted.
InstanceStep(i) ==
    \E fin \in SUBSET Batch(i), adm \in SUBSET WaitQ(i) :
        /\ fin \cup adm # {}
        /\ AfterEvent(i, [r \in Requests |->
               IF r \in fin THEN [where[r] EXCEPT !.at = "done"]
               ELSE IF r \in adm THEN [where[r] EXCEPT !.at = "running"] ELSE where[r]],
               Cardinality(fin))

(***************************************************************************)
(* Node and instance life cycle                                            *)
(***************************************************************************)
\* The state an instance takes when its weights are loaded.
LoadedState == IF WarmUp = 0 THEN "Active" ELSE "WarmingUp"

\* addLiveInstance for the instances S, holding the GPUs they have in a: each
\* is Loading, or loaded at once when its sampled delay is zero.
AddLiveInstances(S, a) ==
    /\ held' = [i \in Insts |-> IF i \in S THEN {g \in GPUs : a[g] = i} ELSE held[i]]
    /\ warm' = [i \in Insts |-> IF i \in S THEN WarmUp ELSE warm[i]]
    /\ \E delay \in [S -> LoadDelays] :
        /\ ist' = [i \in Insts |-> IF i \notin S THEN ist[i]
                                   ELSE IF delay[i] = 0 THEN LoadedState ELSE "Loading"]
        /\ loadEv' = loadEv \cup {i \in S : delay[i] # 0}

\* ProvisionNode and the NodeReadyEvent its caller schedules.
ProvisionNode(p) ==
    LET absent == {k \in 1..MaxNodes : nstate[<<p, k>>] = "Absent"}
    IN  /\ ops < MaxOps
        /\ absent # {}
        /\ nstate' = [nstate EXCEPT ![<<p, CHOOSE k \in absent : \A m \in absent : k <= m>>]
                                        = "Provisioning"]
        /\ ops' = ops + 1
        /\ UNCHANGED <<cb, drainedEv, alloc, pending, held, ist, warm, loadEv,
                       requestVars, clean, scalerVars>>

\* NodeReadyEvent: the node is Ready, and pending instances are placed and built.
NodeReady(n) ==
    LET r == RetryPending(alloc, ReadyNodes \cup {n})
    IN  /\ nstate[n] = "Provisioning"
        /\ nstate' = [nstate EXCEPT ![n] = "Ready"]
        /\ alloc' = r.a
        /\ pending' = r.q
        /\ AddLiveInstances(r.placed, r.a)
        /\ UNCHANGED <<cb, drainedEv, requestVars, clean, scalerVars, ops>>

\* DrainNode: an empty node's callback fires at once.
DrainNode(n) ==
    /\ ops < MaxOps
    /\ nstate[n] = "Ready"
    /\ nstate' = [nstate EXCEPT ![n] = "Draining"]
    /\ IF allocatedCount(alloc, n) = 0
       THEN drainedEv' = drainedEv \cup {n} /\ UNCHANGED cb
       ELSE cb' = cb \cup {n} /\ UNCHANGED drainedEv
    /\ ops' = ops + 1
    /\ UNCHANGED <<alloc, pending, held, ist, warm, loadEv, requestVars, clean, scalerVars>>

\* NodeDrainedEvent: MarkNodeTerminated frees what is left and fires a callback
\* still set.
NodeDrained(n) ==
    /\ n \in drainedEv
    /\ nstate' = [nstate EXCEPT ![n] = "Terminated"]
    /\ alloc' = [g \in GPUs |-> IF NodeOf(g) = n THEN NoInst ELSE alloc[g]]
    /\ drainedEv' = (drainedEv \ {n}) \cup (cb \cap {n})
    /\ cb' = cb \ {n}
    /\ UNCHANGED <<pending, held, ist, warm, loadEv, requestVars, clean, scalerVars, ops>>

\* InstanceLoadedEvent.
InstanceLoaded(i) ==
    /\ i \in loadEv
    /\ loadEv' = loadEv \ {i}
    /\ ist' = [ist EXCEPT ![i] = LoadedState]
    /\ UNCHANGED <<placementVars, warm, requestVars, clean, scalerVars, ops>>

\* The three drain policies, applied by an operator to a routable instance.
DrainCall(policy, i) ==
    /\ policy \in Policies
    /\ ops < MaxOps
    /\ ops' = ops + 1
    /\ IsRoutable(i)
    /\ UNCHANGED <<nstate, pending, held, warm, loadEv, scalerVars>>

\* drainImmediate: the queue is discarded, queue and batch leave the in-flight
\* count, and the GPUs go; the batch's step stays in the heap.
drainImmediate(i) ==
    /\ DrainCall("immediate", i)
    /\ where' = Move(WaitQ(i), "abandoned")
    /\ inFlight' = [inFlight EXCEPT ![i] = Minus(@, Cardinality(WaitQ(i) \cup Batch(i)))]
    /\ ist' = [ist EXCEPT ![i] = "Terminated"]
    /\ ReleaseInstance(i)
    /\ clean' = clean \ {i}

\* Mutant: an idle instance terminates and keeps its GPUs.
drainWaitKeep(i) ==
    /\ DrainCall("wait", i)
    /\ ist' = [ist EXCEPT ![i] = IF WaitQ(i) \cup Batch(i) = {} THEN "Terminated" ELSE "Draining"]
    /\ UNCHANGED <<alloc, cb, drainedEv, requestVars, clean>>

\* drainWait: an instance with nothing queued or running goes at once.
drainWait(i) ==
    /\ DrainCall("wait", i)
    /\ IF WaitQ(i) \cup Batch(i) = {}
       THEN ist' = [ist EXCEPT ![i] = "Terminated"] /\ ReleaseInstance(i)
       ELSE ist' = [ist EXCEPT ![i] = "Draining"] /\ UNCHANGED <<alloc, cb, drainedEv>>
    /\ UNCHANGED <<requestVars, clean>>

\* drainRedirect: the queue goes back to the cluster as fresh arrivals.
drainRedirect(i) ==
    /\ DrainCall("redirect", i)
    /\ ist' = [ist EXCEPT ![i] = "Draining"]
    /\ where' = [r \in Requests |-> IF r \in WaitQ(i) THEN [at |-> "client", on |-> NoInst]
                                                      ELSE where[r]]
    /\ inFlight' = [inFlight EXCEPT ![i] = Minus(@, Cardinality(WaitQ(i)))]
    /\ UNCHANGED <<alloc, cb, drainedEv, clean>>

(***************************************************************************)
(* The autoscaler: collect, analyze, optimize, stabilize, actuate          *)
(***************************************************************************)
\* The variants (pools) with ready replicas, and the demand on a set of them.
ReplicasOf(p) == {i \in RoutableInsts : PoolOf(i) = p}
Variants == {p \in DOMAIN Pools : ReplicasOf(p) # {}}
Demand(S) == Cardinality(UNION {WaitQ(i) \cup Batch(i) : i \in S})
VariantCost(p) == CostPerHour(CHOOSE i \in ReplicasOf(p) : TRUE)
Dearer(p, q) == VariantCost(p) > VariantCost(q) \/ (VariantCost(p) = VariantCost(q) /\ p > q)
Cheapest(S) == CHOOSE p \in S : \A q \in S \ {p} : Dearer(q, p)
\* sortedByDescCost breaks ties by ascending variant.
Dearest(S) == CHOOSE p \in S : \A q \in S \ {p} :
                 VariantCost(p) > VariantCost(q) \/ (VariantCost(p) = VariantCost(q) /\ p < q)

\* Analyze, with every quantity scaled by the percentage it is divided by:
\* `required` is RequiredCapacity * UpPct, `spare` is SpareCapacity * DownPct.
Supply == Cap * Cardinality(RoutableInsts)
PendingSupply == Cap * Cardinality({i \in Insts : ist[i] = "Loading"})
required == IF RoutableInsts = {} THEN 0
            ELSE Minus(100 * Demand(RoutableInsts), UpPct * (Supply + PendingSupply))
spare ==
    IF /\ required = 0
       /\ Cardinality(RoutableInsts) > 1
       /\ (Supply - Cap) * DownPct > 100 * Demand(RoutableInsts)
    THEN Minus(Supply * DownPct, 100 * Demand(RoutableInsts)) ELSE 0

\* scaleUpN and scaleDownN (a variant's per-replica capacity is Cap).
AtLeast1(n) == IF n < 1 THEN 1 ELSE n
scaleUpN == AtLeast1((required + UpPct * Cap - 1) \div (UpPct * Cap))

scaleDownN(p) ==
    LET n == AtLeast1(spare \div (DownPct * Cap))
    IN  IF n > Cardinality(ReplicasOf(p)) THEN Cardinality(ReplicasOf(p)) ELSE n

\* gpuInventory: GPUs of Ready nodes less those of instances that still hold
\* some by their life-cycle state.
Holding == {i \in Insts : ist[i] \in {"Loading", "WarmingUp", "Active", "Draining"}}
gpuInventory(p) ==
    Minus(Pools[p].gpn * Cardinality({n \in ReadyNodes : n[1] = p}),
          TP * Cardinality({i \in Holding : PoolOf(i) = p}))

\* Optimize: at most one decision, since every instance serves one model.
NoDecision == [pool |-> 0, delta |-> 0]
roomFor(S) == IF Greedy THEN {p \in S : gpuInventory(p) >= scaleUpN * TP} ELSE S
Optimize ==
    CASE required > 0 /\ roomFor(Variants) # {} ->
            [pool |-> Cheapest(roomFor(Variants)), delta |-> scaleUpN]
      [] required = 0 /\ spare > 0 ->
            [pool |-> Dearest(Variants), delta |-> -scaleDownN(Dearest(Variants))]
      [] OTHER -> NoDecision

\* Mutant: a signal that passed does not start a new window.
GateNoReset(signal, since, window) ==
    LET first == IF since = NoTick THEN tick ELSE since
    IN  IF ~signal THEN <<FALSE, NoTick>> ELSE <<tick - first >= window, first>>

\* One direction's stabilization gate: <<passes, new first-signal time>>.
Gate(signal, since, window) ==
    LET first == IF since = NoTick THEN tick ELSE since
    IN  IF ~signal THEN <<FALSE, NoTick>>
        ELSE IF tick - first < window THEN <<FALSE, first>> ELSE <<TRUE, NoTick>>

pendingArrivals == Cardinality({r \in Requests : where[r].at = "client"})
WorkInFlight == \E i \in Insts : inFlight[i] > 0

\* ScalingTickEvent: runs once every actuation due before it has been applied.
\* The chain stops when no arrival is pending and nothing is in flight.
ScalingTick ==
    LET d == Optimize
        up == Gate(d.delta > 0, upSince, UpWindow)
        down == Gate(d.delta < 0, downSince, DownWindow)
    IN  /\ tick # NoTick /\ tick < MaxTicks
        /\ \A a \in acts : a.at >= tick
        /\ upSince' = up[2]
        /\ downSince' = down[2]
        /\ \E delay \in ScrapeDelays :
              acts' = IF up[1] \/ down[1]
                      THEN acts \cup {[at |-> tick + delay, pool |-> d.pool, delta |-> d.delta]}
                      ELSE acts
        /\ tick' = IF pendingArrivals > 0 \/ WorkInFlight THEN tick + 1 ELSE NoTick
        /\ UNCHANGED <<placementVars, ist, warm, loadEv, requestVars, clean, ops>>

\* scaleUp: place Delta new instances one after another; a failed placement is
\* skipped.  The identifiers are the bound MaxAuto.
NewIds == {i \in Insts : ~Startup(i) /\ ist[i] = "Scheduling"}
PlaceNew(s, ready, first, room) ==
    LET G == PlaceInstance(s.a, ready)
    IN  IF G = {} \/ s.n = room THEN s
        ELSE [a |-> Commit(s.a, G, first + s.n + 1), n |-> s.n + 1]
Additions(a0, ready, first, room, delta) ==
    LET st[k \in 0..delta] ==
          IF k = 0 THEN [a |-> a0, n |-> 0] ELSE PlaceNew(st[k - 1], ready, first, room)
    IN  st
ScaleUp(p, delta) ==
    LET room == Cardinality(NewIds)
        first == NumInstances + MaxAuto - room
        new == Additions(alloc, {n \in ReadyNodes : n[1] = p}, first, room, delta)[delta]
    IN  /\ alloc' = new.a
        /\ AddLiveInstances((first + 1)..(first + new.n), new.a)

\* findOldestActive: candidates sorted by ID, and "autoscale-..." sorts before
\* "instance_...".
IdBefore(i, j) == IF Startup(i) = Startup(j) THEN i < j ELSE Startup(j)

ActiveOf(p) == {i \in Insts : ist[i] = "Active" /\ PoolOf(i) = p}
findOldestActive(S, k) ==
    {i \in S : Cardinality({j \in S : IdBefore(j, i)}) < k}

\* scaleDown only marks the instances Draining.
ScaleDown(p, n) ==
    /\ ist' = [i \in Insts |-> IF i \in findOldestActive(ActiveOf(p), n)
                               THEN "Draining" ELSE ist[i]]
    /\ UNCHANGED <<alloc, held, warm, loadEv>>

\* ScaleActuationEvent: after a tick of the same time (priority 9 against 8).
Actuate(a) ==
    /\ a \in acts
    /\ tick # NoTick => a.at < tick \/ tick = MaxTicks
    /\ \A b \in acts : a.at <= b.at
    /\ acts' = acts \ {a}
    /\ IF a.delta > 0 THEN ScaleUp(a.pool, a.delta) ELSE ScaleDown(a.pool, -a.delta)
    /\ UNCHANGED <<nstate, cb, drainedEv, pending, requestVars, clean,
                   tick, upSince, downSince, ops>>

(***************************************************************************)
(* Specification                                                           *)
(***************************************************************************)
\* NewClusterSimulator: start-up instances are placed in order; one that does
\* not fit is added to the pending list and not built.
InitialNodes == {n \in Nodes : n[2] <= Pools[n[1]].initial}
PlaceStartup(s, k) ==
    LET G == PlaceInstance(s.a, InitialNodes)
    IN  IF G = {} THEN [s EXCEPT !.q = Append(@, k)] ELSE [s EXCEPT !.a = Commit(@, G, k)]
StartupRun ==
    LET st[k \in 0..NumInstances] ==
          IF k = 0 THEN [a |-> [g \in GPUs |-> NoInst], q |-> <<>>]
          ELSE PlaceStartup(st[k - 1], k)
    IN  st
Startup0 == StartupRun[NumInstances]

Init ==
    LET built == {i \in Insts : \E g \in GPUs : Startup0.a[g] = i}
    IN  /\ nstate = [n \in Nodes |-> IF n \in InitialNodes THEN "Ready" ELSE "Absent"]
        /\ cb = {} /\ drainedEv = {}
        /\ alloc = Startup0.a
        /\ pending = Startup0.q
        /\ held = [i \in Insts |-> {g \in GPUs : Startup0.a[g] = i}]
        /\ ist = [i \in Insts |-> IF i \notin built THEN "Scheduling"
                                  ELSE IF WarmStart THEN LoadedState ELSE "Loading"]
        /\ loadEv = IF WarmStart THEN {} ELSE built
        /\ warm = [i \in Insts |-> IF i \in built THEN WarmUp ELSE 0]
        /\ inFlight = [i \in Insts |-> 0]
        /\ where = [r \in Requests |-> [at |-> "client", on |-> NoInst]]
        /\ clean = Insts
        /\ tick = 0 /\ upSince = NoTick /\ downSince = NoTick
        /\ acts = {}
        /\ ops = 0

InstanceEvent(i) == InstanceArrival(i) \/ InstanceQueued(i) \/ InstanceStep(i)
OperatorCall ==
    \/ \E p \in DOMAIN Pools : ProvisionNode(p)
    \/ \E n \in Nodes : DrainNode(n)
    \/ \E i \in Insts : drainImmediate(i) \/ drainWait(i) \/ drainRedirect(i)
Event ==
    \/ \E r \in Requests : ClusterArrival(r) \/ Route(r)
    \/ \E i \in Insts : InstanceEvent(i) \/ InstanceLoaded(i)
    \/ \E n \in Nodes : NodeReady(n) \/ NodeDrained(n)
    \/ ScalingTick
    \/ \E a \in acts : Actuate(a)
Next == Event \/ OperatorCall

Spec == Init /\ [][Next]_vars

(***************************************************************************)
(* Properties                                                              *)
(***************************************************************************)
\* Every variable keeps its type.
TypeOK ==
    /\ nstate \in [Nodes -> {"Absent", "Provisioning", "Ready", "Draining", "Terminated"}]
    /\ cb \subseteq Nodes /\ drainedEv \subseteq Nodes
    /\ alloc \in [GPUs -> Insts \cup {NoInst}]
    /\ pending \in Seq(Insts)
    /\ ist \in [Insts -> {"Scheduling", "Loading", "WarmingUp", "Active", "Draining", "Terminated"}]
    /\ held \in [Insts -> SUBSET GPUs]
    /\ warm \in [Insts -> 0..WarmUp]
    /\ loadEv \subseteq Insts
    /\ inFlight \in [Insts -> 0..Cardinality(Requests)]
    /\ \A r \in Requests :
         /\ where[r].at \in {"client", "admitting", "arriving", "arrived", "queued",
                             "running", "done", "rejected", "abandoned"}
         /\ where[r].on \in Insts \cup {NoInst}
    /\ tick \in NoTick..MaxTicks /\ upSince \in NoTick..MaxTicks /\ downSince \in NoTick..MaxTicks
    /\ ops \in 0..MaxOps

Live(i) == ist[i] \notin {"Scheduling", "Terminated"}

\* INV-A across the life cycle: a GPU is allocated to an instance exactly while
\* that instance is built and not terminated, whichever of start-up, deferred
\* construction and scale-up placed it and whichever path drained it; so no GPU
\* is leaked, freed under a serving instance, or given to two.
GPUsMatchInstances ==
    \A i \in Insts : {g \in GPUs : alloc[g] = i} = IF Live(i) THEN held[i] ELSE {}

\* PlaceInstance's shape: a built instance has exactly TP GPUs, on one node or
\* on whole nodes of one pool (never a fragment of a second node).
UniformSpan ==
    \A i \in Insts : ist[i] # "Scheduling" =>
        /\ Cardinality(held[i]) = TP
        /\ LET N == distinctNodesForGPUs(held[i])
           IN  Cardinality(N) > 1 => /\ Cardinality({n[1] : n \in N}) = 1
                                     /\ held[i] = UNION {GPUsOf(n) : n \in N}

\* A draining node waits for exactly one thing: its callback while instances
\* are on it, its NodeDrainedEvent once they are gone.  No other node has
\* either, so no event finds its node in a state transitionNode panics on.
DrainArmedOnce ==
    \A n \in Nodes :
        IF nstate[n] = "Draining"
        THEN IF allocatedCount(alloc, n) > 0 THEN n \in cb /\ n \notin drainedEv
                                             ELSE n \notin cb /\ n \in drainedEv
        ELSE n \notin cb \cup drainedEv

\* The in-flight count of an instance is the number of requests routed to it
\* and not finished, also while it drains and after it terminated with requests
\* still in its heap; after drainImmediate, which takes the batch off the count
\* before it finishes, it may be low and never high.
InFlightExact ==
    \A i \in Insts : /\ inFlight[i] <= Cardinality(Aboard(i))
                     /\ i \in clean => inFlight[i] = Cardinality(Aboard(i))

\* gpuInventory, computed from instance states, never promises a GPU that the
\* placement manager has allocated.
InventoryNeverHigh ==
    \A p \in DOMAIN Pools :
        gpuInventory(p) <= Cardinality({g \in GPUs : /\ g[1] = p /\ alloc[g] = NoInst
                                                     /\ NodeOf(g) \in ReadyNodes})

\* The pending list is exactly the start-up instances not yet built, each once:
\* the swap-remove of RetryPendingInstances loses and repeats none.
PendingExact ==
    /\ {pending[k] : k \in DOMAIN pending} = {i \in Insts : Startup(i) /\ ist[i] = "Scheduling"}
    /\ Len(pending) = Cardinality({pending[k] : k \in DOMAIN pending})

\* A decision is sized for the demand it was taken on: scaling up covers it
\* with no replica to spare, scaling down leaves enough for it.
DecisionFits ==
    LET d == Optimize
        dem == 100 * Demand(RoutableInsts)
    IN  /\ d.delta > 0 => /\ dem <= UpPct * (Supply + PendingSupply + d.delta * Cap)
                          /\ dem > UpPct * (Supply + PendingSupply + (d.delta - 1) * Cap)
        /\ d.delta < 0 => dem <= DownPct * (Supply + d.delta * Cap)

\* With windows no shorter than the scrape delay, the decision of one tick is
\* applied before another passes its gate: the same demand is not answered twice.
OneDecisionOutstanding == Cardinality(acts) <= 1

LifeOrder(s) == CASE s \in {"Scheduling", "Absent"} -> 0 [] s \in {"Loading", "Provisioning"} -> 1
                  [] s \in {"WarmingUp", "Ready"} -> 2 [] s = "Active" -> 3
                  [] s = "Draining" -> 4 [] OTHER -> 5

\* INV-14 and its node counterpart: no step moves an instance or a node back,
\* and an instance never enters Draining from Loading.
LifecycleForward ==
    [][/\ \A i \in Insts : /\ LifeOrder(ist[i]) <= LifeOrder(ist'[i])
                           /\ ist[i] \in {"Scheduling", "Loading"} => ist'[i] # "Draining"
       /\ \A n \in Nodes : LifeOrder(nstate[n]) <= LifeOrder(nstate'[n])]_vars

\* No event is left in any heap (ticks and actuations beyond the bound apart).
HeapsEmpty ==
    /\ \A r \in Requests : where[r].at \in {"done", "rejected", "abandoned"}
    /\ loadEv = {} /\ drainedEv = {}

\* The event loop pops events until the heaps are empty; every event of this
\* bounded model is popped once, so a run that neither stops nor stutters
\* forever with events left is the fair one.
FairSpec == Spec /\ ([]<>HeapsEmpty \/ []<><<TRUE>>_vars)

\* A draining instance that still has requests terminates and frees its GPUs.
DrainEnds ==
    \A i \in Insts : (ist[i] = "Draining" /\ Aboard(i) # {}) ~> (ist[i] = "Terminated")

-----------------------------------------------------------------------------
(* What the runs check. *)

\* Placement, lifecycle and routing agree on the fleet: GPUs, pending
\* placements, drains under way and in-flight counts are those of the instances
\* that exist.
FleetExact ==
  /\ TypeOK
  /\ GPUsMatchInstances
  /\ UniformSpan
  /\ PendingExact
  /\ DrainArmedOnce
  /\ InFlightExact

\* The autoscaler decides on an inventory that exists, for the demand it saw,
\* and once.
DecisionsSound ==
  /\ InventoryNeverHigh
  /\ DecisionFits
  /\ OneDecisionOutstanding

\* Instances and nodes only move forward, and a drain comes to an end.
LifecycleSound ==
  /\ LifecycleForward
  /\ DrainEnds
=============================================================================
