---------------------------- MODULE GatewayQueue ----------------------------
(***************************************************************************)
(* The gateway queue of flow control (sim/cluster/gateway_queue.go): bands *)
(* by priority, in each band one flow per tenant, in each flow the entries *)
(* in the order of their sequence numbers.  A queue is a record and every  *)
(* operation maps a queue to a queue, so a handler that calls two of them  *)
(* is still one step of module Gateway.                                    *)
(*                                                                         *)
(* A flow that is empty has no key in the band's map: the code deletes it  *)
(* with its last entry.  A band, once created, stays.  The field panic     *)
(* stands for the panics the code raises on INV-16 and INV-17.             *)
(***************************************************************************)
EXTENDS Integers, Sequences, FiniteSets, FiniteSetsExt

CONSTANTS
  Requests,     \* request IDs
  Tenants,      \* tenant IDs, numbers: their order is the order of the keys
  Tenant,       \* Tenant[r]
  Priority,     \* Priority[r], priorityMap.Priority(SLOClass): higher is more urgent
  SLOTarget,    \* SLOTarget[r], the request's or its class's target, 0 if none
  SatScale      \* saturation 1.0, in the units of saturation and of thresholds

ASSUME GatewayQueueAssumption ==
  /\ IsFiniteSet(Requests)
  /\ Tenants \subseteq Nat \ {0} /\ IsFiniteSet(Tenants)
  /\ Tenant \in [Requests -> Tenants]
  /\ Priority \in [Requests -> Int]
  /\ SLOTarget \in [Requests -> Nat]
  /\ SatScale \in Nat \ {0}

Priorities == {Priority[r] : r \in Requests}
IsSheddable(r) == Priority[r] < 0
NoTenant == 0

Entries == [req : Requests, seqID : Nat, at : Nat]

Queues ==
  [bands : SUBSET Priorities,
   flows : [Priorities -> [Tenants -> Seq(Entries)]],
   bandLen : [Priorities -> Nat],
   totalLen : Nat,
   requestIndex : UNION {[S -> Priorities \X Tenants] : S \in SUBSET Requests},
   cursors : [Priorities -> Tenants \cup {NoTenant}],
   shedCount : Nat, rejectedCount : Nat, panic : BOOLEAN]

EmptyQueue ==
  [bands |-> {},
   flows |-> [p \in Priorities |-> [t \in Tenants |-> <<>>]],
   bandLen |-> [p \in Priorities |-> 0],
   totalLen |-> 0,
   requestIndex |-> [r \in {} |-> <<>>],
   cursors |-> [p \in Priorities |-> NoTenant],
   shedCount |-> 0, rejectedCount |-> 0, panic |-> FALSE]

(* The places of the queue: entry pos.i of the flow of pos.t in band pos.p. *)
Positions(q) ==
  UNION {{[p |-> p, t |-> t, i |-> i] : i \in DOMAIN q.flows[p][t]} :
           p \in Priorities, t \in Tenants}
At(q, pos) == q.flows[pos.p][pos.t][pos.i]

Queued(q) == {At(q, pos).req : pos \in Positions(q)}

DropEntry(s, i) == SubSeq(s, 1, i - 1) \o SubSeq(s, i + 1, Len(s))

(* What every removal does: the entry, its index and the two counters.     *)
TakeOut(q, pos) ==
  [q EXCEPT !.flows[pos.p][pos.t] = DropEntry(@, pos.i),
            !.requestIndex =
               [r \in DOMAIN @ \ {At(q, pos).req} |-> @[r]],
            !.bandLen[pos.p] = @ - 1,
            !.totalLen = @ - 1]

-----------------------------------------------------------------------------
(* Enqueue                                                                 *)

OldestLeast(q, x, y) ==          \* mutant: among equals the oldest entry goes
  \/ x.p < y.p
  \/ x.p = y.p /\ At(q, x).seqID < At(q, y).seqID
ShedBefore(q, x, y) ==
  \/ x.p < y.p
  \/ x.p = y.p /\ At(q, x).seqID > At(q, y).seqID

(* findGlobalShedVictim: no victim or one, the least urgent sheddable      *)
(* entry, the newest among equals, if the newcomer may displace it.        *)
FindGlobalShedVictim(q, priority, seqID) ==
  LET S == {pos \in Positions(q) : IsSheddable(At(q, pos).req)}
      best == {x \in S : \A y \in S \ {x} : ShedBefore(q, x, y)}
  IN {x \in best : \/ priority > x.p
                   \/ priority = x.p /\ seqID < At(q, x).seqID}

(* removeEntryByIndex truncates, and panics unless the victim is the tail. *)
RemoveEntryByIndex(q, pos) ==
  IF pos.i # Len(q.flows[pos.p][pos.t])
  THEN [q EXCEPT !.panic = TRUE]
  ELSE TakeOut(q, pos)

PushEntry(q, r, seqID, now) ==
  [q EXCEPT !.flows[Priority[r]][Tenant[r]] =
               Append(@, [req |-> r, seqID |-> seqID, at |-> now]),
            !.bandLen[Priority[r]] = @ + 1,
            !.totalLen = @ + 1,
            !.requestIndex =
               [x \in DOMAIN @ \cup {r} |->
                  IF x = r THEN <<Priority[r], Tenant[r]>> ELSE @[x]]]

Outcome(q, outcome, victims) ==
  [queue |-> q, outcome |-> outcome, victims |-> victims]
Reject(q) == Outcome([q EXCEPT !.rejectedCount = @ + 1], "Rejected", {})

(* Enqueue of request r with sequence number seqID at time now.  The band  *)
(* is created before the capacity checks, so a rejected request leaves an  *)
(* empty band behind.                                                      *)
Enqueue(queue, c, r, seqID, now) ==
  LET q == [queue EXCEPT !.bands = @ \cup {Priority[r]}]
      victims == FindGlobalShedVictim(q, Priority[r], seqID)
      Shed(pos) ==
        LET cut == RemoveEntryByIndex(q, pos)
        IN Outcome(PushEntry([cut EXCEPT !.shedCount = @ + 1], r, seqID, now),
                   "ShedVictim", {At(q, pos).req})
  IN IF c.maxBandCapacity > 0 /\ q.bandLen[Priority[r]] >= c.maxBandCapacity
     THEN Reject(q)
     ELSE IF ~(c.maxDepth > 0 /\ q.totalLen >= c.maxDepth)
     THEN Outcome(PushEntry(q, r, seqID, now), "Enqueued", {})
     ELSE IF c.shedding /\ victims # {}
     THEN Shed(CHOOSE pos \in victims : TRUE)
     ELSE Reject(q)

-----------------------------------------------------------------------------
(* Dispatch                                                                *)

FlowKeys(q, p) == {t \in Tenants : q.flows[p][t] # <<>>}
HeadSeq(q, p, t) == q.flows[p][t][1].seqID

(* FairnessPolicy.Pick on a band with entries.  Round robin resumes after  *)
(* the last tenant served, at the first key if that tenant has no flow.    *)
PickStrict(q, p) ==
  CHOOSE t \in FlowKeys(q, p) :
    \A u \in FlowKeys(q, p) : HeadSeq(q, p, t) <= HeadSeq(q, p, u)
PickRoundRobin(q, p) ==
  LET keys == FlowKeys(q, p)
      later == {t \in keys : t > q.cursors[p]}
  IN IF q.cursors[p] \in keys /\ later # {} THEN Min(later) ELSE Min(keys)
Pick(q, c, p) ==
  IF c.fairness = "round-robin" THEN PickRoundRobin(q, p) ELSE PickStrict(q, p)

(* sloDeadline, with math.MaxInt64 as the last of all.                     *)
EarlierDeadline(e, f) ==
  LET d(x) == x.at + SLOTarget[x.req]
      has(x) == SLOTarget[x.req] > 0
  IN CASE has(e) /\ has(f) -> \/ d(e) < d(f)
                              \/ d(e) = d(f) /\ e.seqID < f.seqID
       [] has(e) /\ ~has(f) -> TRUE
       [] ~has(e) /\ has(f) -> FALSE
       [] OTHER -> e.seqID < f.seqID

(* dequeueFromBand and dequeueFromBandSLODeadline: the place of the entry  *)
(* the band gives up.                                                      *)
BandChoice(q, c, p) ==
  LET t == Pick(q, c, p)
      flow == q.flows[p][t]
      first == IF c.order = "slo-deadline"
               THEN CHOOSE i \in DOMAIN flow :
                      \A j \in DOMAIN flow \ {i} : EarlierDeadline(flow[i], flow[j])
               ELSE 1
  IN [p |-> p, t |-> t, i |-> first]

(* The ceiling of a band: 1.0 for the most urgent one, threshold for the   *)
(* least urgent, linear between; Halted says saturation has reached it.    *)
Halted(q, c, p, saturation) ==
  LET n == Cardinality(q.bands)
      i == Cardinality({b \in q.bands : b > p})
  IN IF n = 1
     THEN saturation >= SatScale
     ELSE saturation * (n - 1) >= SatScale * (n - 1) - i * (SatScale - c.threshold)

OpenBandsLeastFirst(q, c, saturation) ==   \* mutant: bands sorted the wrong way
  {p \in q.bands : /\ q.bandLen[p] > 0 /\ ~Halted(q, c, p, saturation)
                   /\ \A b \in q.bands : b < p => q.bandLen[b] = 0}
OpenBands(q, c, saturation) ==
  {p \in q.bands : /\ q.bandLen[p] > 0
                   /\ \A b \in q.bands : b >= p => ~Halted(q, c, b, saturation)}

(* DequeueGated: the queue afterwards and the request it returned, if any. *)
(* Its order of bands does not depend on c.order.                          *)
DequeueGated(q, c, saturation) ==
  LET open == OpenBands(q, c, saturation)
      p == Max(open)
      pos == BandChoice(q, c, p)
      out == TakeOut(q, pos)
  IN IF q.totalLen = 0 \/ open = {} THEN [queue |-> q, got |-> {}]
     ELSE IF FlowKeys(q, p) = {}
     THEN [queue |-> [q EXCEPT !.panic = TRUE], got |-> {}]
     ELSE [queue |-> IF c.fairness = "round-robin"
                     THEN [out EXCEPT !.cursors[p] = pos.t] ELSE out,
           got |-> {At(q, pos).req}]

HasNonSheddableWaiting(q) == \E p \in q.bands : p >= 0 /\ q.bandLen[p] > 0

-----------------------------------------------------------------------------
(* RemoveByRequestID: no change if the request is not indexed.             *)
RemoveByRequestID(q, r) ==
  LET loc == q.requestIndex[r]
      S == {pos \in Positions(q) :
              pos.p = loc[1] /\ pos.t = loc[2] /\ At(q, pos).req = r}
  IN IF r \notin DOMAIN q.requestIndex THEN [queue |-> q, got |-> {}]
     ELSE IF S = {} THEN [queue |-> [q EXCEPT !.panic = TRUE], got |-> {}]
     ELSE [queue |-> TakeOut(q, CHOOSE pos \in S : TRUE), got |-> {r}]

-----------------------------------------------------------------------------
(* What a queue must satisfy (INV-16): both counters and the request index *)
(* say exactly what the flows hold, and a band with entries exists.        *)
QueueConsistent(q) ==
  /\ q.totalLen = Cardinality(Positions(q))
  /\ \A p \in Priorities :
       q.bandLen[p] = Cardinality({pos \in Positions(q) : pos.p = p})
  /\ DOMAIN q.requestIndex = Queued(q)
  /\ Cardinality(Queued(q)) = Cardinality(Positions(q))
  /\ \A pos \in Positions(q) :
       q.requestIndex[At(q, pos).req] = <<pos.p, pos.t>>
  /\ \A p \in Priorities : q.bandLen[p] > 0 => p \in q.bands

(* Flows are in the order of sequence numbers, and hold their own requests. *)
FlowsOrdered(q) ==
  \A p \in Priorities, t \in Tenants :
    LET f == q.flows[p][t]
    IN /\ \A i, j \in DOMAIN f : i < j => f[i].seqID < f[j].seqID
       /\ \A i \in DOMAIN f : Priority[f[i].req] = p /\ Tenant[f[i].req] = t
=============================================================================
