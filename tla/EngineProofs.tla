---------------------------- MODULE EngineProofs ----------------------------
(***************************************************************************)
(* Proofs of the safety properties of module Engine, for any requests,     *)
(* adapters, cache, batch limits, schedulers and latencies.                *)
(*                                                                         *)
(* The invariant is built in layers, each inductive given the ones before  *)
(* it: what the variables hold and that the heap is one (Shapes), where    *)
(* phase 1 stands (Scan), which events are pending (Pendings), what they   *)
(* are for (Places, Deadlines), and what requests hold (Room, Pins).  What *)
(* is said of the heap is said in numbers of events of a kind, which an    *)
(* insertion or a pop changes by one or not at all.  BatchInv, on top of   *)
(* it, says how far each request is and what a step has granted.           *)
(***************************************************************************)
EXTENDS Engine, TLAPS, FiniteSetTheorems, SequenceTheorems, WellFoundedInduction

Distinct(s) == \A i, j \in 1 .. Len(s) : s[i] = s[j] => i = j

(* The events a heap may hold. *)
GoodEvents ==
  {e \in Events : /\ e.kind \in {"arrival", "queued", "timeout"} => e.arg \in Requests
                  /\ e.kind = "load" => e.arg \in Adapters
                  /\ e.kind = "step" => e.arg = 0}

(* e need not come after f. *)
NotAfter(e, f) ==
  \/ e.in < f.in
  \/ e.in = f.in /\ KindPriority[e.kind] <= KindPriority[f.kind]

InOrder(q) == \A i, j \in DOMAIN q : i < j => NotAfter(q[i], q[j])

Heap(q) == q \in Seq(GoodEvents) /\ InOrder(q)

(* How many events of the kinds K about members of A the heap q holds. *)
About(e, K, A) == e.kind \in K /\ e.arg \in A
Holding(q, K, A) == {i \in DOMAIN q : About(q[i], K, A)}
Number(q, K, A) == Cardinality(Holding(q, K, A))
One(b) == IF b THEN 1 ELSE 0

OnWay(q, r) == Number(q, {"arrival", "queued"}, {r})
Travelling(q) == Number(q, {"arrival", "queued"}, Requests)
Steps(q) == Number(q, {"step"}, {0})
Loads(q, a) == Number(q, {"load"}, {a})
Timeouts(q, r) == Number(q, {"timeout"}, {r})

(* Every timeout is set for the deadline of its request. *)
Due(q, now) ==
  \A i \in DOMAIN q : q[i].kind = "timeout" => now + q[i].in = Deadline(q[i].arg)

------------------------------
(* The inductive invariant, layer by layer. *)

(* The types, but for pinCount, which is at least zero because of Pins. *)
Shapes ==
  /\ clock \in 0 .. Late
  /\ Heap(eventQ)
  /\ stepEvent \in BOOLEAN
  /\ arrivalTime \in [Requests -> ArrivalTimes]
  /\ state \in [Requests -> {"queued", "running", "completed", "timed_out"}]
  /\ progress \in [Requests -> Nat]
  /\ numNew \in [Requests -> Nat]
  /\ computed \in [Requests -> Nat]
  /\ carry \in [Requests -> Nat]
  /\ waitQ \in Seq(Requests)
  /\ running \in Seq(Requests)
  /\ kvTokens \in [Requests -> Nat]
  /\ freeBlocks \in Nat
  /\ resident \in Seq(Adapters)
  /\ pinCount \in [Adapters -> Int]
  /\ adapterPinned \in [Requests -> BOOLEAN]
  /\ loading \in Adapters \cup {NoAdapter}
  /\ metrics \in [completed : Nat, timedOut : Nat, dropped : Nat,
                  kvAllocationFailures : Nat]
  /\ pc \in {"idle", "phase1", "preempt", "phase2", "complete"}
  /\ cursor \in Nat /\ want \in Nat /\ budget \in Nat
  /\ preempted \in BOOLEAN /\ advance \in Nat

(* The cursor of a scan points into the batch or right behind it, and what *)
(* preemptForTokens wants never exceeds the budget.                        *)
Scan ==
  /\ pc # "idle" => cursor >= 1
  /\ pc = "preempt" => cursor <= Len(running) /\ want <= budget

(* The events that keep the instance going. *)
Pendings ==
  /\ Steps(eventQ) = One(pc = "idle" /\ stepEvent)
  /\ pc # "idle" => stepEvent
  /\ pc = "idle" => /\ running # <<>> => stepEvent
                    /\ waitQ # <<>> => stepEvent \/ loading # NoAdapter
  /\ \A a \in Adapters : Loads(eventQ, a) = One(loading = a)

(* Every request is in one place. *)
Places ==
  /\ Distinct(waitQ) /\ Distinct(running)
  /\ \A r \in Requests :
       /\ OnWay(eventQ, r) <= 1
       /\ OnWay(eventQ, r) > 0 => state[r] = "queued" /\ r \notin RangeOf(waitQ)
       /\ r \in RangeOf(running) <=> state[r] = "running"
       /\ r \in RangeOf(waitQ) => state[r] = "queued"

(* The timeouts pending are those of requests that wait, run or are done. *)
Deadlines ==
  /\ Due(eventQ, clock)
  /\ \A r \in Requests :
       /\ Timeouts(eventQ, r) <= 1
       /\ Timeouts(eventQ, r) > 0 =>
            r \in RangeOf(waitQ) \/ r \in RangeOf(running) \/ state[r] = "completed"
       /\ Timeout[r] > 0 /\ (r \in RangeOf(waitQ) \/ r \in RangeOf(running)) =>
            Timeouts(eventQ, r) > 0

(* Every request is counted once. *)
In(s) == {r \in Requests : state[r] = s}
Ended(m) == m.completed + m.timedOut + m.dropped
Present(w, b, q) == Len(w) + Len(b) + Travelling(q)
Counts ==
  /\ metrics.completed = Cardinality(In("completed"))
  /\ metrics.timedOut = Cardinality(In("timed_out"))
  /\ Ended(metrics) + Present(waitQ, running, eventQ) = Cardinality(Requests)

(* Blocks free and held add up. *)
Held(tokens) == [r \in Requests |-> Blocks(tokens[r])]
Room ==
  /\ freeBlocks + Cardinality(Units(Held(kvTokens))) = TotalBlocks
  /\ \A r \in Requests : kvTokens[r] > 0 => r \in RangeOf(running)

(* Resident adapters, the load in flight, and the pins. *)
Holders(pinned, a) == {r \in Requests : pinned[r] /\ Adapter[r] = a}
Slots ==
  /\ Distinct(resident)
  /\ Len(resident) + One(loading # NoAdapter) <= AdapterCapacity
  /\ loading \notin RangeOf(resident)
Pins ==
  /\ \A a \in Adapters : /\ pinCount[a] = Cardinality(Holders(adapterPinned, a))
                         /\ pinCount[a] > 0 => a \in RangeOf(resident)
  /\ \A r \in Requests :
       /\ adapterPinned[r] =>
            /\ Adapter[r] \in Adapters
            /\ r \in RangeOf(waitQ) \/ r \in RangeOf(running)
       /\ r \in RangeOf(running) /\ Adapter[r] # NoAdapter => adapterPinned[r]

EngineInv ==
  Shapes /\ Scan /\ Pendings /\ Places /\ Deadlines /\ Counts /\ Room /\ Slots /\ Pins

------------------------------
(* Least elements. *)

(* The naturals under < in the form the theorem on minimal elements wants. *)
LEMMA LessThanWellFounded ==
  \E R : /\ IsWellFoundedOn(R, Nat)
         /\ \A x, y \in Nat : x < y => <<x, y>> \in R
<1> DEFINE R == {ss \in Nat \X Nat : ss[1] < ss[2]}
<1>1. IsWellFoundedOn(OpToRel(<, Nat), Nat) BY NatLessThanWellFounded
<1>2. OpToRel(<, Nat) = R BY DEF OpToRel
<1>3. \A x, y \in Nat : x < y => <<x, y>> \in R OBVIOUS
<1> QED BY <1>1, <1>2, <1>3

(* A nonempty set of naturals has a least element. *)
LEMMA LeastNatural ==
  ASSUME NEW S, S \subseteq Nat, S # {}
  PROVE  \E x \in S : \A y \in S : x <= y
<1>1. PICK R : /\ IsWellFoundedOn(R, Nat)
               /\ \A x, y \in Nat : x < y => <<x, y>> \in R
  BY LessThanWellFounded
<1>2. IsWellFoundedOn(R, Nat) BY <1>1
<1>3. \E x \in S : \A y \in S : ~(<<y, x>> \in R) BY <1>2, WFMin, Zenon
<1>4. PICK x \in S : \A y \in S : ~(<<y, x>> \in R) BY <1>3
<1>5. \A y \in S : x \in Nat /\ y \in Nat /\ ~(y < x) BY <1>1, <1>4
<1> QED BY <1>5

(* Min of the community modules, on naturals. *)
LEMMA MinIsLeast ==
  ASSUME NEW S, S \subseteq Nat, S # {}
  PROVE  /\ Min(S) \in S
         /\ \A y \in S : Min(S) <= y
<1>1. \E x \in S : \A y \in S : x =< y BY LeastNatural
<1> QED BY <1>1 DEF Min

------------------------------
(* Sequences without repetition. *)

(* RemoveIndex, as phase 1 and processCompletions take a request out of    *)
(* the batch.                                                              *)
LEMMA RemoveIndexShape ==
  ASSUME NEW S, NEW s \in Seq(S), NEW k \in 1 .. Len(s)
  PROVE  /\ Len(s) \in Nat \ {0}
         /\ RemoveIndex(s, k) \in Seq(S)
         /\ Len(RemoveIndex(s, k)) = Len(s) - 1
         /\ s[k] \in S /\ s[k] \in RangeOf(s)
         /\ RangeOf(RemoveIndex(s, k)) \subseteq RangeOf(s)
         /\ Distinct(s) => /\ Distinct(RemoveIndex(s, k))
                           /\ RangeOf(RemoveIndex(s, k)) = RangeOf(s) \ {s[k]}
<1> DEFINE d == RemoveIndex(s, k)
           n == Len(s)
<1>1. n \in Nat /\ k \in 1 .. n /\ \A i \in 1 .. n : s[i] \in S
  BY LenProperties, ElementOfSeq
<1>2. d = [i \in 1 .. n - 1 |-> IF i < k THEN s[i] ELSE s[i + 1]]
  BY DEF RemoveIndex
<1>3. RangeOf(s) = {s[i] : i \in 1 .. n} BY DEF RangeOf
<1>4. Distinct(s) => \A i, j \in 1 .. n : s[i] = s[j] => i = j BY DEF Distinct
<1> HIDE DEF d, n
<1>5. /\ d \in Seq(S) /\ Len(d) = n - 1
      /\ \A i \in 1 .. n - 1 : d[i] = IF i < k THEN s[i] ELSE s[i + 1]
  <2>1. \A i \in 1 .. n - 1 : (IF i < k THEN s[i] ELSE s[i + 1]) \in S BY <1>1
  <2> QED BY <1>1, <1>2, <2>1, IsASeq
<1>6. ASSUME Distinct(s) PROVE Distinct(d)
  BY <1>1, <1>4, <1>5, <1>6 DEF Distinct
<1>7. ASSUME NEW y \in RangeOf(d)
      PROVE  y \in RangeOf(s) /\ (Distinct(s) => y # s[k])
  <2>1. PICK i \in 1 .. n - 1 : y = d[i] BY <1>5, <1>7 DEF RangeOf
  <2>2. CASE i < k
    <3>1. y = s[i] /\ i \in 1 .. n /\ i # k BY <1>1, <1>5, <2>1, <2>2
    <3> QED BY <1>1, <1>3, <1>4, <3>1
  <2>3. CASE ~(i < k)
    <3>1. y = s[i + 1] /\ i + 1 \in 1 .. n /\ i + 1 # k
      BY <1>1, <1>5, <2>1, <2>3
    <3> QED BY <1>1, <1>3, <1>4, <3>1
  <2> QED BY <2>2, <2>3
<1>8. ASSUME NEW y \in RangeOf(s) \ {s[k]} PROVE y \in RangeOf(d)
  <2>1. PICK i \in 1 .. n : y = s[i] BY <1>3
  <2>2. i # k BY <2>1
  <2>3. CASE i < k
    <3>1. i \in 1 .. n - 1 /\ d[i] = y BY <1>1, <1>5, <2>1, <2>3
    <3> QED BY <1>5, <3>1 DEF RangeOf
  <2>4. CASE i > k
    <3>1. i - 1 \in 1 .. n - 1 /\ d[i - 1] = y BY <1>1, <1>5, <2>1, <2>4
    <3> QED BY <1>5, <3>1 DEF RangeOf
  <2> QED BY <1>1, <2>2, <2>3, <2>4
<1>9. n \in Nat \ {0} /\ s[k] \in S /\ s[k] \in RangeOf(s) BY <1>1, <1>3
<1> QED BY <1>5, <1>6, <1>7, <1>8, <1>9 DEF d, n

(* Without, as a timeout takes a request out of the queue or the batch. *)
LEMMA WithoutShape ==
  ASSUME NEW S, NEW s \in Seq(S), NEW x
  PROVE  /\ Without(s, x) \in Seq(S)
         /\ Len(s) \in Nat
         /\ x \in RangeOf(s) => Len(s) > 0 /\ Len(Without(s, x)) = Len(s) - 1
         /\ x \notin RangeOf(s) => Without(s, x) = s
         /\ Distinct(s) => /\ Distinct(Without(s, x))
                           /\ RangeOf(Without(s, x)) = RangeOf(s) \ {x}
<1>0. Len(s) \in Nat OBVIOUS
<1>1. CASE x \notin RangeOf(s) BY <1>0, <1>1 DEF Without
<1>2. CASE x \in RangeOf(s)
  <2> DEFINE k == CHOOSE i \in 1 .. Len(s) : s[i] = x
  <2>1. k \in 1 .. Len(s) /\ s[k] = x BY <1>2 DEF RangeOf
  <2>2. Without(s, x) = RemoveIndex(s, k) BY <1>2 DEF Without
  <2> HIDE DEF k
  <2>3. Len(s) > 0 BY <1>0, <2>1
  <2> QED BY <1>0, <1>2, <2>1, <2>2, <2>3, RemoveIndexShape
<1> QED BY <1>1, <1>2

(* Append, Tail and a new head. *)
LEMMA AppendShape ==
  ASSUME NEW S, NEW s \in Seq(S), NEW x \in S
  PROVE  /\ Append(s, x) \in Seq(S)
         /\ Len(s) \in Nat /\ Len(Append(s, x)) = Len(s) + 1
         /\ Append(s, x)[Len(s) + 1] = x
         /\ \A i \in 1 .. Len(s) : Append(s, x)[i] = s[i]
         /\ RangeOf(Append(s, x)) = RangeOf(s) \cup {x}
         /\ Distinct(s) /\ x \notin RangeOf(s) => Distinct(Append(s, x))
BY DEF RangeOf, Distinct

(* Head and Tail, as phase 2 takes from the wait queue. *)
LEMMA TailShape ==
  ASSUME NEW S, NEW s \in Seq(S), s # <<>>
  PROVE  /\ Len(s) \in Nat \ {0} /\ Tail(s) \in Seq(S) /\ Len(Tail(s)) = Len(s) - 1
         /\ \A i \in 1 .. Len(s) - 1 : Tail(s)[i] = s[i + 1]
         /\ Head(s) \in S /\ Head(s) = s[1] /\ Head(s) \in RangeOf(s)
         /\ RangeOf(s) = RangeOf(Tail(s)) \cup {Head(s)}
         /\ Distinct(s) => /\ Distinct(Tail(s))
                           /\ RangeOf(Tail(s)) = RangeOf(s) \ {Head(s)}
<1> DEFINE t == Tail(s)
           n == Len(s)
<1>1. n \in Nat \ {0} /\ Head(s) \in S /\ Head(s) = s[1]
  BY EmptySeq, HeadTailProperties
<1>2. t \in Seq(S) /\ Len(t) = n - 1 BY HeadTailProperties
<1>3. \A i \in 1 .. n - 1 : t[i] = s[i + 1]
  <2>1. n - 1 = Len(t) BY <1>2
  <2> QED BY <2>1, HeadTailProperties
<1>4. RangeOf(s) = {s[i] : i \in 1 .. n} /\ RangeOf(t) = {t[i] : i \in 1 .. n - 1}
  BY <1>2 DEF RangeOf
<1>5. Distinct(s) => \A i, j \in 1 .. n : s[i] = s[j] => i = j BY DEF Distinct
<1> HIDE DEF t, n
<1>6. ASSUME NEW y \in RangeOf(t)
      PROVE  y \in RangeOf(s) /\ (Distinct(s) => y # Head(s))
  <2>1. PICK i \in 1 .. n - 1 : y = t[i] BY <1>4
  <2>2. i + 1 \in 1 .. n /\ y = s[i + 1] /\ 1 \in 1 .. n /\ i + 1 # 1
    BY <1>1, <1>3, <2>1
  <2> QED BY <1>1, <1>4, <1>5, <2>2
<1>7. ASSUME NEW y \in RangeOf(s), y # Head(s) PROVE y \in RangeOf(t)
  <2>1. PICK i \in 1 .. n : y = s[i] BY <1>4
  <2>2. i # 1 BY <1>1, <1>7, <2>1
  <2>3. i - 1 \in 1 .. n - 1 /\ (i - 1) + 1 = i BY <1>1, <2>1, <2>2
  <2> QED BY <1>3, <1>4, <2>1, <2>3
<1>8. ASSUME Distinct(s) PROVE Distinct(t)
  BY <1>1, <1>2, <1>3, <1>5, <1>8 DEF Distinct
<1>9. Head(s) \in RangeOf(s) BY <1>1, <1>4
<1> QED BY <1>1, <1>2, <1>3, <1>6, <1>7, <1>8, <1>9 DEF t, n

(* PrependFront: a preempted request goes to the head of the queue. *)
LEMMA PrependShape ==
  ASSUME NEW S, NEW s \in Seq(S), NEW x \in S
  PROVE  /\ <<x>> \o s \in Seq(S)
         /\ Len(s) \in Nat /\ Len(<<x>> \o s) = Len(s) + 1
         /\ RangeOf(<<x>> \o s) = RangeOf(s) \cup {x}
         /\ Distinct(s) /\ x \notin RangeOf(s) => Distinct(<<x>> \o s)
<1> DEFINE t == <<x>> \o s
           n == Len(s)
<1>1. <<x>> \in Seq(S) /\ Len(<<x>>) = 1 /\ <<x>>[1] = x /\ n \in Nat OBVIOUS
<1>2. t \in Seq(S) /\ Len(t) = n + 1 BY <1>1, ConcatProperties
<1>3. \A i \in 1 .. 1 + n : t[i] = IF i <= 1 THEN <<x>>[i] ELSE s[i - 1]
  BY <1>1, ConcatProperties
<1>4. /\ RangeOf(s) = {s[i] : i \in 1 .. n} /\ RangeOf(t) = {t[i] : i \in 1 .. n + 1}
      /\ Distinct(s) => \A i, j \in 1 .. n : s[i] = s[j] => i = j
  BY <1>2 DEF RangeOf, Distinct
<1> HIDE DEF t, n
<1>5. t[1] = x /\ \A i \in 1 .. n : i + 1 \in 1 .. n + 1 /\ t[i + 1] = s[i]
  <2>1. ASSUME NEW i \in 1 .. n PROVE i + 1 \in 1 .. n + 1 /\ t[i + 1] = s[i]
    <3>1. i + 1 \in 1 .. 1 + n /\ ~(i + 1 <= 1) /\ (i + 1) - 1 = i /\ i + 1 \in 1 .. n + 1
      BY <1>1
    <3> QED BY <1>3, <3>1
  <2>2. 1 \in 1 .. 1 + n BY <1>1
  <2> QED BY <1>1, <1>3, <2>1, <2>2
<1>6. \A i \in 1 .. n + 1 : i = 1 \/ (i - 1 \in 1 .. n /\ t[i] = s[i - 1])
  <2>1. ASSUME NEW i \in 1 .. n + 1, i # 1 PROVE i - 1 \in 1 .. n /\ t[i] = s[i - 1]
    <3>1. i - 1 \in 1 .. n /\ (i - 1) + 1 = i BY <1>1, <2>1
    <3> QED BY <1>5, <3>1
  <2> QED BY <2>1
<1>7. RangeOf(t) = RangeOf(s) \cup {x}
  <2>1. 1 \in 1 .. n + 1 BY <1>1
  <2> QED BY <1>4, <1>5, <1>6, <2>1
<1>8. ASSUME Distinct(s), x \notin RangeOf(s) PROVE Distinct(t)
  <2>1. ASSUME NEW i \in 1 .. n + 1, NEW j \in 1 .. n + 1, t[i] = t[j] PROVE i = j
    <3>1. CASE i = 1 /\ j = 1 BY <3>1
    <3>2. CASE i = 1 /\ j # 1 BY <1>4, <1>5, <1>6, <1>8, <2>1, <3>2
    <3>3. CASE i # 1 /\ j = 1 BY <1>4, <1>5, <1>6, <1>8, <2>1, <3>3
    <3>4. CASE i # 1 /\ j # 1
      <4>1. i - 1 = j - 1 BY <1>4, <1>6, <1>8, <2>1, <3>4
      <4> QED BY <1>1, <4>1
    <3> QED BY <3>1, <3>2, <3>3, <3>4
  <2> QED BY <1>2, <2>1 DEF Distinct
<1> QED BY <1>1, <1>2, <1>7, <1>8 DEF t, n

(* As many members as positions. *)
LEMMA DistinctCount ==
  ASSUME NEW S, NEW s \in Seq(S), Distinct(s)
  PROVE  IsFiniteSet(RangeOf(s)) /\ Cardinality(RangeOf(s)) = Len(s)
<1> DEFINE n == Len(s)
<1>1. n \in Nat /\ s \in [1 .. n -> S] BY LenProperties
<1>2. RangeOf(s) = {s[i] : i \in 1 .. n} /\ \A i, j \in 1 .. n : s[i] = s[j] => i = j
  BY DEF RangeOf, Distinct
<1> HIDE DEF n
<1>3. s \in Bijection(1 .. n, RangeOf(s))
  BY <1>1, <1>2 DEF Bijection, Injection, IsInjective, Surjection
<1>4. ExistsBijection(1 .. n, RangeOf(s)) BY <1>3 DEF ExistsBijection
<1>5. Cardinality(RangeOf(s)) = n BY <1>1, <1>4, FS_CountingElements
<1>6. IsFiniteSet(RangeOf(s)) BY <1>1, <1>4, FS_NatBijection
<1> QED BY <1>5, <1>6 DEF n

(* What Sortings orders, a scheduler's queue or the first arrivals: each   *)
(* member once.                                                            *)
LEMMA SortingShape ==
  ASSUME NEW S, IsFiniteSet(S), NEW n \in Nat, n = Cardinality(S),
         NEW q \in [1 .. n -> S],
         \A i, j \in 1 .. n : i < j => q[i] # q[j]
  PROVE  /\ q \in Seq(S) /\ Len(q) = n
         /\ Distinct(q)
         /\ RangeOf(q) = S
<1>1. q \in Seq(S) /\ Len(q) = n BY SeqDef
<1>2. \A i, j \in 1 .. n : q[i] = q[j] => i = j
  <2>1. \A i, j \in 1 .. n : i < j \/ i = j \/ j < i OBVIOUS
  <2> QED BY <2>1
<1>3. q \in Injection(1 .. n, S) BY <1>2 DEF Injection, IsInjective
<1>4. Cardinality(1 .. n) = n BY FS_Interval
<1>5. q \in Surjection(1 .. n, S) BY <1>3, <1>4, FS_Injection
<1>6. RangeOf(q) = S BY <1>1, <1>5 DEF RangeOf, Surjection
<1> QED BY <1>1, <1>2, <1>6 DEF Distinct

------------------------------
(* The heap of events. *)

(* NotAfter orders events totally, equals aside. *)
LEMMA NotAfterOrders ==
  /\ \A e, f \in Events : NotAfter(e, f) \/ NotAfter(f, e)
  /\ \A e, f, g \in Events : NotAfter(e, f) /\ NotAfter(f, g) => NotAfter(e, g)
<1>1. \A e \in Events : e.in \in Nat /\ KindPriority[e.kind] \in Nat
  BY DEF Events, Kinds, KindPriority
<1> QED BY <1>1 DEF NotAfter

(* Where an event is inserted: behind those that need not come after it. *)
Slot(q, e) == Cardinality({j \in DOMAIN q : NotAfter(q[j], e)})
Push(q, e) ==
  SubSeq(q, 1, Slot(q, e)) \o <<e>> \o SubSeq(q, Slot(q, e) + 1, Len(q))

(* Push makes room after them. *)
LEMMA PushShape ==
  ASSUME NEW E, NEW q \in Seq(E), NEW e \in E
  PROVE  /\ Slot(q, e) \in Nat /\ Slot(q, e) <= Len(q)
         /\ Push(q, e) \in Seq(E)
         /\ Len(Push(q, e)) = Len(q) + 1
         /\ \A j \in 1 .. Slot(q, e) : Push(q, e)[j] = q[j]
         /\ Push(q, e)[Slot(q, e) + 1] = e
         /\ \A j \in Slot(q, e) + 1 .. Len(q) : Push(q, e)[j + 1] = q[j]
<1> DEFINE k == Slot(q, e)
           a == SubSeq(q, 1, k)
           b == SubSeq(q, k + 1, Len(q))
<1>1. Len(q) \in Nat /\ DOMAIN q = 1 .. Len(q) OBVIOUS
<1>2. k \in Nat /\ k <= Len(q)
  <2>1. IsFiniteSet(1 .. Len(q)) /\ Cardinality(1 .. Len(q)) = Len(q)
    BY <1>1, FS_Interval, SMTT(40), SMTT(40)
  <2>2. {j \in DOMAIN q : NotAfter(q[j], e)} \in SUBSET (1 .. Len(q)) BY <1>1
  <2> QED BY <2>1, <2>2, FS_Subset, FS_CardinalityType DEF Slot
<1>3. Push(q, e) = (a \o <<e>>) \o b BY DEF Push
<1> HIDE DEF k
<1>4. a \in Seq(E) /\ Len(a) = k /\ \A j \in 1 .. k : a[j] = q[j]
  BY <1>1, <1>2, SubSeqProperties
<1>5. b \in Seq(E) /\ Len(b) = Len(q) - k
      /\ \A j \in 1 .. Len(q) - k : b[j] = q[k + j]
  <2>1. k + 1 \in Int /\ Len(q) \in Int /\ \A j \in k + 1 .. Len(q) : q[j] \in E
    BY <1>1, <1>2
  <2>2. /\ b \in Seq(E)
        /\ Len(b) = IF k + 1 <= Len(q) THEN Len(q) - (k + 1) + 1 ELSE 0
        /\ \A j \in 1 .. Len(q) - (k + 1) + 1 : b[j] = q[k + 1 + j - 1]
    BY SMTT(60), <2>1, SubSeqProperties
  <2> HIDE DEF b
  <2>3. Len(b) = Len(q) - k
    <3> DEFINE n == Len(q)
    <3>1. n \in Nat /\ k <= n /\ Len(b) = IF k + 1 <= n THEN n - (k + 1) + 1 ELSE 0
      BY <1>1, <1>2, <2>2, ZenonT(40)
    <3> HIDE DEF n
    <3>2. Len(b) = n - k BY <1>2, <3>1
    <3> QED BY <3>2 DEF n
  <2>4. ASSUME NEW j \in 1 .. Len(q) - k PROVE b[j] = q[k + j]
    <3>1. j \in 1 .. Len(q) - (k + 1) + 1 /\ k + 1 + j - 1 = k + j
      BY <1>1, <1>2
    <3>2. b[j] = q[k + 1 + j - 1] BY <2>2, <3>1
    <3> QED BY <3>1, <3>2
  <2> QED BY <2>2, <2>3, <2>4
<1> HIDE DEF a, b
<1> DEFINE c == a \o <<e>>
           z == c \o b
<1>6. <<e>> \in Seq(E) /\ Len(<<e>>) = 1 /\ <<e>>[1] = e OBVIOUS
<1>7. /\ c \in Seq(E) /\ Len(c) = k + 1 /\ c[k + 1] = e
      /\ \A j \in 1 .. k : c[j] = q[j]
  <2>1. c \in Seq(E) /\ Len(c) = Len(a) + 1 BY <1>4, <1>6, ConcatProperties
  <2>2. \A j \in 1 .. Len(a) + 1 :
          c[j] = IF j <= Len(a) THEN a[j] ELSE <<e>>[j - Len(a)]
    BY <1>4, <1>6, ConcatProperties
  <2> HIDE DEF c
  <2> QED BY <1>2, <1>4, <1>6, <2>1, <2>2
<1> HIDE DEF c
<1>8. /\ z \in Seq(E) /\ Len(z) = Len(c) + Len(b)
      /\ \A j \in 1 .. Len(c) + Len(b) :
           z[j] = IF j <= Len(c) THEN c[j] ELSE b[j - Len(c)]
  BY <1>5, <1>7, ConcatProperties, ZenonT(40)
<1>9. Push(q, e) = z BY <1>3 DEF c
<1> HIDE DEF z
<1>10. Len(z) = Len(q) + 1 BY <1>1, <1>2, <1>5, <1>7, <1>8, SMTT(40)
<1>11. ASSUME NEW j \in 1 .. k PROVE z[j] = q[j]
  <2>1. j \in 1 .. Len(c) + Len(b) /\ j <= Len(c) BY <1>1, <1>2, <1>5, <1>7
  <2>2. z[j] = c[j] BY <1>8, <2>1
  <2> QED BY <1>7, <2>2
<1>12. z[k + 1] = e BY <1>1, <1>2, <1>5, <1>7, <1>8, SMTT(40), SMTT(40)
<1>13. ASSUME NEW j \in k + 1 .. Len(q) PROVE z[j + 1] = q[j]
  <2>1. j \in Int /\ j + 1 \in 1 .. Len(c) + Len(b) /\ ~(j + 1 <= Len(c))
        /\ j - k \in 1 .. Len(q) - k
    BY <1>1, <1>2, <1>5, <1>7
  <2>2. z[j + 1] = b[j + 1 - Len(c)] BY SMTT(60), <1>8, <2>1
  <2>3. j + 1 - Len(c) = j - k BY <1>2, <1>7, <2>1
  <2>4. b[j - k] = q[k + (j - k)] BY <1>5, <2>1
  <2>5. k + (j - k) = j BY <1>2, <2>1
  <2> QED BY <2>2, <2>3, <2>4, <2>5
<1> QED BY <1>2, <1>8, <1>9, <1>10, <1>11, <1>12, <1>13 DEF k

(* The number of events of a kind is a natural, zero if there is none. *)
LEMMA NumberType ==
  ASSUME NEW E, NEW q \in Seq(E), NEW K, NEW A
  PROVE  /\ IsFiniteSet(Holding(q, K, A)) /\ Number(q, K, A) \in Nat
         /\ Number(q, K, A) = 0 <=> \A k \in DOMAIN q : ~About(q[k], K, A)
<1>1. Len(q) \in Nat /\ DOMAIN q = 1 .. Len(q) OBVIOUS
<1>2. IsFiniteSet(Holding(q, K, A))
  <2>1. IsFiniteSet(1 .. Len(q)) /\ Holding(q, K, A) \in SUBSET (1 .. Len(q))
    BY <1>1, FS_Interval DEF Holding
  <2> QED BY <2>1, FS_Subset
<1>3. Number(q, K, A) \in Nat BY <1>2, FS_CardinalityType DEF Number
<1>4. Number(q, K, A) = 0 <=> Holding(q, K, A) = {}
  BY <1>2, FS_EmptySet DEF Number
<1>5. Holding(q, K, A) = {} <=> \A k \in DOMAIN q : ~About(q[k], K, A)
  BY DEF Holding
<1> QED BY <1>2, <1>3, <1>4, <1>5

(* A push adds one event, popping the head takes one away. *)
LEMMA PushNumber ==
  ASSUME NEW E, NEW q \in Seq(E), NEW e \in E, NEW K, NEW A
  PROVE  Number(Push(q, e), K, A) = Number(q, K, A) + One(About(e, K, A))
<1> DEFINE k == Slot(q, e)
           z == Push(q, e)
           f == [j \in Holding(q, K, A) |-> IF j <= k THEN j ELSE j + 1]
           T == Holding(z, K, A) \ {k + 1}
<1>1. /\ k \in Nat /\ k <= Len(q) /\ z \in Seq(E) /\ Len(z) = Len(q) + 1
      /\ \A j \in 1 .. k : z[j] = q[j]
      /\ z[k + 1] = e
      /\ \A j \in k + 1 .. Len(q) : z[j + 1] = q[j]
  <2>1. Slot(q, e) \in Nat /\ Slot(q, e) <= Len(q) BY PushShape
  <2>2. Push(q, e) \in Seq(E) BY PushShape
  <2>3. Len(Push(q, e)) = Len(q) + 1 BY PushShape
  <2>4. \A j \in 1 .. Slot(q, e) : Push(q, e)[j] = q[j] BY PushShape
  <2>5. Push(q, e)[Slot(q, e) + 1] = e BY PushShape
  <2>6. \A j \in Slot(q, e) + 1 .. Len(q) : Push(q, e)[j + 1] = q[j]
    BY PushShape
  <2> QED BY <2>1, <2>2, <2>3, <2>4, <2>5, <2>6
<1>2. Len(q) \in Nat /\ DOMAIN q = 1 .. Len(q) /\ DOMAIN z = 1 .. Len(q) + 1
  BY <1>1
<1>3. IsFiniteSet(Holding(z, K, A)) /\ IsFiniteSet(Holding(q, K, A))
  BY <1>1, NumberType
<1> HIDE DEF k, z
<1>4. \A j \in Holding(q, K, A) : j \in 1 .. Len(q) /\ About(q[j], K, A)
  BY <1>2 DEF Holding
<1>5. \A j \in T : j \in 1 .. Len(q) + 1 /\ j # k + 1 /\ About(z[j], K, A)
  BY <1>2 DEF Holding
<1>6. ASSUME NEW j \in Holding(q, K, A) PROVE f[j] \in T
  <2>1. CASE j <= k
    <3>1. z[j] = q[j] /\ j \in 1 .. Len(q) + 1 /\ j # k + 1
      BY <1>1, <1>2, <1>4, <2>1
    <3> QED BY <1>2, <1>4, <2>1, <3>1 DEF Holding
  <2>2. CASE ~(j <= k)
    <3>1. z[j + 1] = q[j] /\ j + 1 \in 1 .. Len(q) + 1 /\ j + 1 # k + 1
      BY <1>1, <1>2, <1>4, <2>2
    <3> QED BY <1>2, <1>4, <2>2, <3>1 DEF Holding
  <2> QED BY <2>1, <2>2
<1>7. ASSUME NEW i \in Holding(q, K, A), NEW j \in Holding(q, K, A), f[i] = f[j]
      PROVE  i = j
  BY <1>1, <1>4, <1>7
<1>8. ASSUME NEW m \in T PROVE \E j \in Holding(q, K, A) : f[j] = m
  <2>1. CASE m <= k
    <3>1. m \in 1 .. k /\ m \in 1 .. Len(q) /\ z[m] = q[m]
      BY <1>1, <1>2, <1>5, <2>1
    <3>2. m \in Holding(q, K, A) BY <1>2, <1>5, <3>1 DEF Holding
    <3> QED BY <2>1, <3>2
  <2>2. CASE ~(m <= k)
    <3>1. m - 1 \in k + 1 .. Len(q) /\ (m - 1) + 1 = m /\ m - 1 \in 1 .. Len(q)
      <4>1. m \in Int /\ m <= Len(q) + 1 /\ m # k + 1 /\ ~(m <= k)
        BY <1>2, <1>5, <2>2
      <4> HIDE DEF T
      <4> QED BY <1>1, <1>2, <4>1
    <3>2. q[m - 1] = z[m] BY <1>1, <3>1
    <3>3. m - 1 \in Holding(q, K, A) BY <1>2, <1>5, <3>1, <3>2 DEF Holding
    <3>4. ~(m - 1 <= k) BY <1>1, <3>1
    <3> QED BY <3>1, <3>3, <3>4
  <2> QED BY <2>1, <2>2
<1>9. f \in Bijection(Holding(q, K, A), T)
  <2>1. f \in [Holding(q, K, A) -> T]
    <3>1. f = [j \in Holding(q, K, A) |-> f[j]] /\ DOMAIN f = Holding(q, K, A)
      OBVIOUS
    <3> HIDE DEF f, T
    <3> QED BY <1>6, <3>1
  <2> HIDE DEF f, T
  <2> QED BY <1>7, <1>8, <2>1 DEF Bijection, Injection, IsInjective, Surjection
<1> HIDE DEF f
<1>10. IsFiniteSet(T) /\ Cardinality(T) = Cardinality(Holding(q, K, A))
  BY <1>3, <1>9, FS_Bijection DEF ExistsBijection
<1>11. Cardinality(Holding(q, K, A)) \in Nat BY <1>3, FS_CardinalityType
<1>12. CASE About(e, K, A)
  <2>1. k + 1 \in Holding(z, K, A) BY <1>1, <1>2, <1>12 DEF Holding
  <2>2. Cardinality(T) = Cardinality(Holding(z, K, A)) - 1
        /\ Cardinality(Holding(z, K, A)) \in Nat
    BY <1>3, <2>1, FS_RemoveElement, FS_CardinalityType
  <2> HIDE DEF T
  <2> QED BY <1>10, <1>11, <1>12, <2>2 DEF Number, One, z
<1>13. CASE ~About(e, K, A)
  <2>1. T = Holding(z, K, A) BY <1>1, <1>2, <1>13 DEF Holding
  <2> HIDE DEF T
  <2> QED BY <1>10, <1>11, <1>13, <2>1 DEF Number, One, z
<1> QED BY <1>12, <1>13

(* Popping takes one event away. *)
LEMMA TailNumber ==
  ASSUME NEW E, NEW q \in Seq(E), q # <<>>, NEW K, NEW A
  PROVE  Number(q, K, A) = Number(Tail(q), K, A) + One(About(Head(q), K, A))
<1> DEFINE z == Tail(q)
           f == [j \in Holding(z, K, A) |-> j + 1]
           T == Holding(q, K, A) \ {1}
<1>1. /\ Len(q) \in Nat \ {0} /\ Head(q) = q[1]
      /\ z \in Seq(E) /\ Len(z) = Len(q) - 1
  BY TailShape
<1>2. \A j \in 1 .. Len(q) - 1 : z[j] = q[j + 1] BY TailShape
<1>3. DOMAIN q = 1 .. Len(q) /\ DOMAIN z = 1 .. Len(q) - 1 BY <1>1
<1>4. IsFiniteSet(Holding(z, K, A)) /\ IsFiniteSet(Holding(q, K, A))
  BY <1>1, NumberType
<1> HIDE DEF z
<1>5. \A j \in Holding(z, K, A) : j \in 1 .. Len(q) - 1 /\ About(z[j], K, A)
  BY <1>3 DEF Holding
<1>6. \A j \in T : j \in 1 .. Len(q) /\ j # 1 /\ About(q[j], K, A)
  BY <1>3 DEF Holding
<1>7. ASSUME NEW j \in Holding(z, K, A) PROVE f[j] \in T
  <2>1. q[j + 1] = z[j] /\ j + 1 \in 1 .. Len(q) /\ j + 1 # 1
    BY <1>1, <1>2, <1>5
  <2> QED BY <1>3, <1>5, <2>1 DEF Holding
<1>8. ASSUME NEW i \in Holding(z, K, A), NEW j \in Holding(z, K, A), f[i] = f[j]
      PROVE  i = j
  BY <1>1, <1>5, <1>8
<1>9. ASSUME NEW m \in T PROVE \E j \in Holding(z, K, A) : f[j] = m
  <2>1. m \in Int /\ 1 < m /\ m <= Len(q) BY <1>1, <1>6
  <2> HIDE DEF T
  <2>2. m - 1 \in 1 .. Len(q) - 1 /\ (m - 1) + 1 = m BY <1>1, <2>1
  <2>3. z[m - 1] = q[m] BY <1>2, <2>2
  <2>4. m - 1 \in Holding(z, K, A) BY <1>3, <1>6, <2>2, <2>3 DEF Holding
  <2> QED BY <2>2, <2>4
<1>10. f \in Bijection(Holding(z, K, A), T)
  <2>1. f \in [Holding(z, K, A) -> T]
    <3>1. f = [j \in Holding(z, K, A) |-> f[j]] /\ DOMAIN f = Holding(z, K, A)
      OBVIOUS
    <3> HIDE DEF f, T
    <3> QED BY <1>7, <3>1
  <2> HIDE DEF f, T
  <2> QED BY <1>8, <1>9, <2>1 DEF Bijection, Injection, IsInjective, Surjection
<1> HIDE DEF f
<1>11. IsFiniteSet(T) /\ Cardinality(T) = Cardinality(Holding(z, K, A))
  BY <1>4, <1>10, FS_Bijection DEF ExistsBijection
<1>12. Cardinality(Holding(z, K, A)) \in Nat BY <1>4, FS_CardinalityType
<1>13. CASE About(Head(q), K, A)
  <2>1. 1 \in Holding(q, K, A) BY <1>1, <1>3, <1>13 DEF Holding
  <2>2. Cardinality(T) = Cardinality(Holding(q, K, A)) - 1
        /\ Cardinality(Holding(q, K, A)) \in Nat
    BY <1>4, <2>1, FS_RemoveElement, FS_CardinalityType
  <2> HIDE DEF T
  <2> QED BY <1>11, <1>12, <1>13, <2>2 DEF Number, One, z
<1>14. CASE ~About(Head(q), K, A)
  <2>1. T = Holding(q, K, A) BY <1>1, <1>3, <1>14 DEF Holding
  <2> HIDE DEF T
  <2> QED BY <1>11, <1>12, <1>14, <2>1 DEF Number, One, z
<1> QED BY <1>13, <1>14

(* In a sorted heap the events that go before e are the first ones. *)
LEMMA SlotIsPrefix ==
  ASSUME NEW q \in Seq(Events), InOrder(q), NEW e \in Events
  PROVE  \A j \in 1 .. Len(q) : NotAfter(q[j], e) <=> j <= Slot(q, e)
<1> DEFINE n == Len(q)
           B == {j \in DOMAIN q : NotAfter(q[j], e)}
           C == {j \in 1 .. n : ~NotAfter(q[j], e)}
<1>1. n \in Nat /\ DOMAIN q = 1 .. n /\ \A j \in 1 .. n : q[j] \in Events
  BY ElementOfSeq, LenProperties
<1>2. \A i, j \in 1 .. n : i < j => NotAfter(q[i], q[j]) BY <1>1 DEF InOrder
<1>3. ASSUME NEW m \in 0 .. n, \A j \in 1 .. n : NotAfter(q[j], e) <=> j <= m
      PROVE  Slot(q, e) = m
  <2>1. B = 1 .. m BY <1>1, <1>3
  <2>2. Cardinality(1 .. m) = m BY <1>1, FS_Interval
  <2> QED BY <2>1, <2>2 DEF Slot
<1> HIDE DEF n
<1>4. CASE C = {}
  <2>1. \A j \in 1 .. n : NotAfter(q[j], e) <=> j <= n BY <1>1, <1>4
  <2>2. Slot(q, e) = n BY <1>1, <1>3, <2>1
  <2> QED BY <2>1, <2>2 DEF n
<1>5. CASE C # {}
  <2>1. C \subseteq Nat BY <1>1
  <2>2. PICK c \in C : \A j \in C : c <= j
    <3> HIDE DEF C
    <3> QED BY <1>5, <2>1, LeastNatural
  <2>3. c \in 1 .. n /\ ~NotAfter(q[c], e) /\ c \in Nat BY <1>1, <2>2
  <2>4. ASSUME NEW j \in 1 .. n PROVE NotAfter(q[j], e) <=> j <= c - 1
    <3>1. CASE j < c
      <4>1. j \notin C BY <1>1, <2>2, <2>3, <3>1
      <4> QED BY <1>1, <2>3, <3>1, <4>1
    <3>2. CASE j = c BY <1>1, <2>3, <3>2
    <3>3. CASE c < j
      <4>1. NotAfter(q[c], q[j]) /\ q[c] \in Events /\ q[j] \in Events
        BY <1>1, <1>2, <2>3, <3>3
      <4>2. ~NotAfter(q[j], e) BY <2>3, <4>1, NotAfterOrders
      <4> QED BY <1>1, <2>3, <3>3, <4>2
    <3> QED BY <1>1, <2>3, <3>1, <3>2, <3>3
  <2>5. c - 1 \in 0 .. n BY <1>1, <2>3
  <2>6. Slot(q, e) = c - 1 BY <1>3, <2>4, <2>5
  <2> QED BY <2>4, <2>6 DEF n
<1> QED BY <1>4, <1>5

(* Pushing and popping keep a heap sorted. *)
LEMMA PushSorted ==
  ASSUME NEW q \in Seq(Events), InOrder(q), NEW e \in Events
  PROVE  InOrder(Push(q, e))
<1> DEFINE k == Slot(q, e)
           z == Push(q, e)
           n == Len(q)
<1>1. /\ k \in Nat /\ k <= n /\ Len(z) = n + 1 /\ z \in Seq(Events)
      /\ \A j \in 1 .. k : z[j] = q[j]
      /\ z[k + 1] = e
      /\ \A j \in k + 1 .. n : z[j + 1] = q[j]
  <2>1. Slot(q, e) \in Nat /\ Slot(q, e) <= Len(q) BY PushShape
  <2>2. Push(q, e) \in Seq(Events) /\ Len(Push(q, e)) = Len(q) + 1 BY PushShape
  <2>3. \A j \in 1 .. Slot(q, e) : Push(q, e)[j] = q[j] BY PushShape
  <2>4. Push(q, e)[Slot(q, e) + 1] = e BY PushShape
  <2>5. \A j \in Slot(q, e) + 1 .. Len(q) : Push(q, e)[j + 1] = q[j]
    BY PushShape
  <2> QED BY <2>1, <2>2, <2>3, <2>4, <2>5
<1>2. \A j \in 1 .. n : NotAfter(q[j], e) <=> j <= k BY SlotIsPrefix
<1>3. n \in Nat /\ DOMAIN q = 1 .. n /\ \A j \in 1 .. n : q[j] \in Events
  BY ElementOfSeq, LenProperties
<1>4. \A i, j \in 1 .. n : i < j => NotAfter(q[i], q[j]) BY <1>3 DEF InOrder
<1>5. DOMAIN z = 1 .. n + 1 BY <1>1, <1>3
<1> HIDE DEF k, z, n
<1>6. ASSUME NEW j \in 1 .. n + 1
      PROVE  \/ j \in 1 .. k /\ j \in 1 .. n /\ z[j] = q[j]
             \/ j = k + 1 /\ z[j] = e
             \/ j > k + 1 /\ j - 1 \in k + 1 .. n /\ j - 1 \in 1 .. n /\ z[j] = q[j - 1]
  <2>1. CASE j <= k BY <1>1, <1>3, <2>1
  <2>2. CASE j = k + 1 BY <1>1, <2>2
  <2>3. CASE j > k + 1
    <3>1. j - 1 \in k + 1 .. n /\ j - 1 \in 1 .. n /\ (j - 1) + 1 = j
      BY <1>1, <1>3, <2>3
    <3>2. z[j] = q[j - 1] BY <1>1, <3>1
    <3> QED BY <2>3, <3>1, <3>2
  <2> QED BY <1>1, <1>3, <2>1, <2>2, <2>3
<1>7. ASSUME NEW i \in 1 .. n + 1, NEW j \in 1 .. n + 1, i < j
      PROVE  NotAfter(z[i], z[j])
  <2>1. CASE j <= k BY <1>1, <1>3, <1>4, <1>6, <1>7, <2>1
  <2>2. CASE j = k + 1
    <3>1. i \in 1 .. n /\ i <= k /\ z[i] = q[i] /\ z[j] = e
      BY <1>1, <1>3, <1>6, <1>7, <2>2
    <3> QED BY <1>2, <3>1
  <2>3. CASE j > k + 1
    <3>1. j - 1 \in 1 .. n /\ ~(j - 1 <= k) /\ z[j] = q[j - 1]
      BY <1>1, <1>3, <1>6, <2>3
    <3>2. NotAfter(e, q[j - 1]) BY <1>2, <1>3, <3>1, NotAfterOrders
    <3>3. CASE i <= k
      <4>1. i \in 1 .. n /\ z[i] = q[i] /\ i < j - 1
        BY <1>1, <1>3, <1>6, <3>1, <3>3
      <4> QED BY <1>4, <3>1, <4>1
    <3>4. CASE i = k + 1 BY <1>1, <3>1, <3>2, <3>4
    <3>5. CASE i > k + 1
      <4>1. i - 1 \in 1 .. n /\ z[i] = q[i - 1] /\ i - 1 < j - 1
        BY <1>1, <1>3, <1>6, <1>7, <3>5, SMTT(40)
      <4> QED BY <1>4, <3>1, <4>1
    <3> QED BY <1>1, <1>3, <3>3, <3>4, <3>5
  <2> QED BY <1>1, <1>3, <2>1, <2>2, <2>3
<1>8. InOrder(z) BY <1>5, <1>7 DEF InOrder
<1> QED BY <1>8 DEF z

(* Every event of a heap after a push was there or is the new one. *)
LEMMA PushElements ==
  ASSUME NEW E, NEW q \in Seq(E), NEW e \in E
  PROVE  \A j \in DOMAIN Push(q, e) :
           Push(q, e)[j] = e \/ \E i \in DOMAIN q : Push(q, e)[j] = q[i]
<1> DEFINE k == Slot(q, e)
           z == Push(q, e)
<1>1. /\ k \in Nat /\ k <= Len(q) /\ z \in Seq(E) /\ Len(z) = Len(q) + 1
      /\ \A j \in 1 .. k : z[j] = q[j]
      /\ z[k + 1] = e
      /\ \A j \in k + 1 .. Len(q) : z[j + 1] = q[j]
  <2>1. Slot(q, e) \in Nat /\ Slot(q, e) <= Len(q) BY PushShape
  <2>2. Push(q, e) \in Seq(E) /\ Len(Push(q, e)) = Len(q) + 1 BY PushShape
  <2>3. \A j \in 1 .. Slot(q, e) : Push(q, e)[j] = q[j] BY PushShape
  <2>4. Push(q, e)[Slot(q, e) + 1] = e BY PushShape
  <2>5. \A j \in Slot(q, e) + 1 .. Len(q) : Push(q, e)[j + 1] = q[j]
    BY PushShape
  <2> QED BY <2>1, <2>2, <2>3, <2>4, <2>5
<1>2. Len(q) \in Nat /\ DOMAIN q = 1 .. Len(q) /\ DOMAIN z = 1 .. Len(q) + 1
  BY <1>1
<1> HIDE DEF k, z
<1>3. ASSUME NEW j \in DOMAIN z PROVE z[j] = e \/ \E i \in DOMAIN q : z[j] = q[i]
  <2>1. CASE j <= k BY <1>1, <1>2, <2>1
  <2>2. CASE j = k + 1 BY <1>1, <2>2
  <2>3. CASE j > k + 1
    <3>1. j - 1 \in k + 1 .. Len(q) /\ (j - 1) + 1 = j /\ j - 1 \in DOMAIN q
      BY <1>1, <1>2, <2>3
    <3> QED BY <1>1, <3>1
  <2> QED BY <1>1, <1>2, <2>1, <2>2, <2>3
<1> QED BY <1>3 DEF z

(* Schedule pushes the event it is given. *)
LEMMA ScheduleIsPush ==
  ASSUME NEW q \in Seq(Events), NEW d \in Nat, NEW k \in Kinds, NEW a
  PROVE  Schedule(q, d, k, a) = Push(q, [in |-> d, kind |-> k, arg |-> a])
<1> DEFINE e == [in |-> d, kind |-> k, arg |-> a]
           B == {i \in 1 .. Len(q) :
                   \/ q[i].in < d
                   \/ q[i].in = d /\ KindPriority[q[i].kind] <= KindPriority[k]}
<1>1. B = {j \in DOMAIN q : NotAfter(q[j], e)} BY DEF NotAfter
<1>2. Schedule(q, d, k, a)
        = SubSeq(q, 1, Cardinality(B)) \o <<e>> \o SubSeq(q, Cardinality(B) + 1, Len(q))
  BY DEF Schedule
<1> HIDE DEF B, e
<1>3. Cardinality(B) = Slot(q, e) BY <1>1 DEF Slot
<1> QED BY <1>2, <1>3 DEF Push, e

(* The events of a heap are events. *)
LEMMA HeapEvents ==
  ASSUME NEW q, Heap(q)
  PROVE  /\ q \in Seq(GoodEvents) /\ q \in Seq(Events) /\ InOrder(q)
         /\ \A i \in DOMAIN q : q[i] \in GoodEvents /\ q[i] \in Events
<1>1. q \in Seq(GoodEvents) /\ InOrder(q) /\ GoodEvents \subseteq Events
  BY DEF Heap, GoodEvents
<1>2. q \in Seq(Events) BY <1>1, SeqMonotonic
<1>3. \A i \in DOMAIN q : q[i] \in GoodEvents BY <1>1
<1> QED BY <1>1, <1>2, <1>3

(* Scheduling an event. *)
LEMMA ScheduleHeap ==
  ASSUME NEW q, Heap(q), NEW d \in Nat, NEW k \in Kinds,
         NEW a \in Requests \cup Adapters \cup {0},
         k \in {"arrival", "queued", "timeout"} => a \in Requests,
         k = "load" => a \in Adapters, k = "step" => a = 0
  PROVE  /\ Heap(Schedule(q, d, k, a))
         /\ \A now : Due(q, now) /\ (k = "timeout" => now + d = Deadline(a))
                       => Due(Schedule(q, d, k, a), now)
<1> DEFINE e == [in |-> d, kind |-> k, arg |-> a]
           z == Push(q, e)
<1>1. e \in Events /\ e.in = d /\ e.kind = k /\ e.arg = a BY DEF Events
<1>2. Schedule(q, d, k, a) = z /\ q \in Seq(Events) /\ q \in Seq(GoodEvents) /\ InOrder(q)
  BY HeapEvents, ScheduleIsPush
<1> HIDE DEF e
<1>3. e \in GoodEvents BY <1>1 DEF GoodEvents
<1>4. z \in Seq(GoodEvents) BY <1>2, <1>3, PushShape
<1>5. InOrder(z) BY <1>1, <1>2, PushSorted
<1>6. \A j \in DOMAIN z : z[j] = e \/ \E i \in DOMAIN q : z[j] = q[i]
  BY <1>2, <1>3, PushElements
<1> HIDE DEF z
<1>7. ASSUME NEW now, Due(q, now), k = "timeout" => now + d = Deadline(a)
      PROVE  Due(z, now)
  <2>1. ASSUME NEW j \in DOMAIN z, z[j].kind = "timeout"
        PROVE  now + z[j].in = Deadline(z[j].arg)
    <3>1. CASE z[j] = e BY <1>1, <1>7, <2>1, <3>1
    <3>2. CASE z[j] # e
      <4>1. PICK i \in DOMAIN q : z[j] = q[i] BY <1>6, <3>2
      <4> QED BY <1>7, <2>1, <4>1 DEF Due
    <3> QED BY <3>1, <3>2
  <2> QED BY <2>1 DEF Due
<1>8. \A now : Due(q, now) /\ (k = "timeout" => now + d = Deadline(a)) => Due(z, now)
  BY <1>7
<1> QED BY <1>2, <1>4, <1>5, <1>8 DEF Heap

(* Schedule adds one event to those it belongs to and to no others. *)
LEMMA ScheduleNumber ==
  ASSUME NEW q, Heap(q), NEW d \in Nat, NEW k \in Kinds,
         NEW a \in Requests \cup Adapters \cup {0}, NEW K, NEW A
  PROVE  /\ Number(q, K, A) \in Nat
         /\ k \in K /\ a \in A => Number(Schedule(q, d, k, a), K, A) = Number(q, K, A) + 1
         /\ ~(k \in K /\ a \in A) => Number(Schedule(q, d, k, a), K, A) = Number(q, K, A)
<1> DEFINE e == [in |-> d, kind |-> k, arg |-> a]
<1>1. e \in Events /\ e.kind = k /\ e.arg = a BY DEF Events
<1>2. Schedule(q, d, k, a) = Push(q, e) /\ q \in Seq(Events)
  BY HeapEvents, ScheduleIsPush
<1> HIDE DEF e
<1>3. Number(Push(q, e), K, A) = Number(q, K, A) + One(About(e, K, A))
  BY <1>1, <1>2, PushNumber
<1>4. Number(q, K, A) \in Nat BY <1>2, NumberType
<1>5. About(e, K, A) <=> k \in K /\ a \in A BY <1>1 DEF About
<1> QED BY <1>2, <1>3, <1>4, <1>5 DEF One

(* What is left once the first event is popped and time has moved to it. *)
LEMMA RestHeap ==
  ASSUME Heap(eventQ), eventQ # <<>>
  PROVE  /\ Head(eventQ) \in GoodEvents /\ Head(eventQ).in \in Nat
         /\ Heap(Rest) /\ Heap(Tail(eventQ))
         /\ Len(eventQ) \in Nat \ {0}
         /\ DOMAIN Rest = 1 .. Len(eventQ) - 1
         /\ \A i \in 1 .. Len(eventQ) - 1 :
              /\ i + 1 \in DOMAIN eventQ
              /\ Rest[i].kind = eventQ[i + 1].kind /\ Rest[i].arg = eventQ[i + 1].arg
              /\ Rest[i].in = eventQ[i + 1].in - Head(eventQ).in
              /\ eventQ[i + 1].in \in Nat /\ Head(eventQ).in <= eventQ[i + 1].in
              /\ Tail(eventQ)[i] = eventQ[i + 1]
<1> DEFINE q == eventQ
           h == Head(eventQ)
           n == Len(eventQ)
           z == Rest
           t == Tail(eventQ)
<1>1. /\ q \in Seq(GoodEvents) /\ InOrder(q)
      /\ \A i \in DOMAIN q : q[i] \in GoodEvents /\ q[i] \in Events
  BY HeapEvents
<1>2. /\ n \in Nat \ {0} /\ h \in GoodEvents /\ h = q[1]
      /\ t \in Seq(GoodEvents) /\ Len(t) = n - 1
      /\ \A i \in 1 .. n - 1 : t[i] = q[i + 1]
  <2>1. n \in Nat \ {0} /\ h \in GoodEvents /\ h = q[1] BY <1>1, TailShape
  <2>2. t \in Seq(GoodEvents) /\ Len(t) = n - 1 BY <1>1, TailShape
  <2>3. \A i \in 1 .. n - 1 : t[i] = q[i + 1] BY <1>1, TailShape
  <2> QED BY <2>1, <2>2, <2>3
<1>3. DOMAIN q = 1 .. n /\ DOMAIN t = 1 .. n - 1 BY <1>1, <1>2
<1>4. z = [i \in 1 .. n - 1 |-> [q[i + 1] EXCEPT !.in = q[i + 1].in - h.in]]
  BY DEF Rest
<1>5. \A i, j \in DOMAIN q : i < j => NotAfter(q[i], q[j]) BY <1>1 DEF InOrder
<1> HIDE DEF q, h, n, z, t
<1>6. \A e \in Events : /\ e.in \in Nat /\ e.kind \in Kinds
                        /\ e.arg \in Requests \cup Adapters \cup {0}
                        /\ e = [in |-> e.in, kind |-> e.kind, arg |-> e.arg]
  BY DEF Events
<1>7. h \in Events /\ h.in \in Nat BY <1>2, <1>6 DEF GoodEvents
<1>8. ASSUME NEW i \in 1 .. n - 1
      PROVE  /\ i + 1 \in DOMAIN q /\ q[i + 1].in \in Nat /\ h.in <= q[i + 1].in
             /\ z[i].in = q[i + 1].in - h.in
             /\ z[i].kind = q[i + 1].kind /\ z[i].arg = q[i + 1].arg
             /\ z[i] \in GoodEvents
  <2>1. i + 1 \in DOMAIN q /\ 1 \in DOMAIN q /\ 1 < i + 1 BY <1>2, <1>3
  <2>2. q[i + 1] \in Events /\ q[i + 1] \in GoodEvents /\ NotAfter(h, q[i + 1])
    BY <1>1, <1>2, <1>5, <2>1
  <2>3. q[i + 1].in \in Nat /\ h.in <= q[i + 1].in
    BY <1>6, <1>7, <2>2 DEF NotAfter
  <2> DEFINE x == q[i + 1]
  <2>4. z[i] = [x EXCEPT !.in = x.in - h.in] BY <1>4
  <2>5. /\ x.in \in Nat /\ x.kind \in Kinds /\ x.arg \in Requests \cup Adapters \cup {0}
        /\ x = [in |-> x.in, kind |-> x.kind, arg |-> x.arg]
    BY <1>6, <2>2
  <2>6. x \in GoodEvents /\ x.in - h.in \in Nat BY <1>7, <2>2, <2>3
  <2> HIDE DEF x
  <2>7. z[i] = [in |-> x.in - h.in, kind |-> x.kind, arg |-> x.arg]
    BY <2>4, <2>5
  <2>8. z[i] \in Events BY <2>5, <2>6, <2>7 DEF Events
  <2>9. z[i] \in GoodEvents BY <2>6, <2>7, <2>8 DEF GoodEvents
  <2>10. z[i].in = x.in - h.in /\ z[i].kind = x.kind /\ z[i].arg = x.arg
    BY <2>7
  <2> QED BY <2>1, <2>3, <2>9, <2>10 DEF x
<1>9. z \in Seq(GoodEvents) /\ Len(z) = n - 1 /\ DOMAIN z = 1 .. n - 1
  <2>1. n - 1 \in Nat /\ DOMAIN z = 1 .. n - 1 /\ z = [i \in 1 .. n - 1 |-> z[i]]
    BY <1>2, <1>4
  <2>2. z \in [1 .. n - 1 -> GoodEvents] BY <1>8, <2>1
  <2>3. z \in Seq(GoodEvents) BY <2>1, <2>2, SeqDef
  <2> QED BY <2>1, <2>3
<1>10. InOrder(z)
  <2>1. ASSUME NEW i \in DOMAIN z, NEW j \in DOMAIN z, i < j PROVE NotAfter(z[i], z[j])
    <3>1. i + 1 \in DOMAIN q /\ j + 1 \in DOMAIN q /\ i + 1 < j + 1
      BY <1>2, <1>3, <1>9, <2>1
    <3>2. NotAfter(q[i + 1], q[j + 1]) BY <1>5, <3>1
    <3>3. /\ z[i].in = q[i + 1].in - h.in /\ z[i].kind = q[i + 1].kind
          /\ z[j].in = q[j + 1].in - h.in /\ z[j].kind = q[j + 1].kind
          /\ q[i + 1].in \in Nat /\ q[j + 1].in \in Nat
      BY <1>8, <1>9
    <3> QED BY <1>7, <3>2, <3>3 DEF NotAfter
  <2> QED BY <2>1 DEF InOrder
<1>11. InOrder(t)
  <2>1. ASSUME NEW i \in DOMAIN t, NEW j \in DOMAIN t, i < j PROVE NotAfter(t[i], t[j])
    <3>1. i + 1 \in DOMAIN q /\ j + 1 \in DOMAIN q /\ i + 1 < j + 1
      BY <1>2, <1>3, <2>1
    <3> QED BY <1>2, <1>3, <1>5, <3>1
  <2> QED BY <2>1 DEF InOrder
<1>12. \A i \in 1 .. n - 1 :
          /\ i + 1 \in DOMAIN q
          /\ z[i].kind = q[i + 1].kind /\ z[i].arg = q[i + 1].arg
          /\ z[i].in = q[i + 1].in - h.in
          /\ q[i + 1].in \in Nat /\ h.in <= q[i + 1].in
          /\ t[i] = q[i + 1]
  BY <1>2, <1>8
<1>13. Heap(z) /\ Heap(t) BY <1>2, <1>9, <1>10, <1>11 DEF Heap
<1> QED BY <1>2, <1>7, <1>9, <1>12, <1>13 DEF q, h, n, z, t

(* Popping takes one event from those it belongs to and no others. *)
LEMMA RestNumber ==
  ASSUME Heap(eventQ), eventQ # <<>>, NEW K, NEW A
  PROVE  /\ Number(eventQ, K, A) \in Nat /\ Number(Rest, K, A) \in Nat
         /\ Number(Tail(eventQ), K, A) = Number(Rest, K, A)
         /\ Head(eventQ).kind \in K /\ Head(eventQ).arg \in A
              => Number(eventQ, K, A) = Number(Rest, K, A) + 1
         /\ ~(Head(eventQ).kind \in K /\ Head(eventQ).arg \in A)
              => Number(eventQ, K, A) = Number(Rest, K, A)
<1>1. /\ Heap(Rest) /\ Heap(Tail(eventQ)) /\ Len(eventQ) \in Nat \ {0}
      /\ DOMAIN Rest = 1 .. Len(eventQ) - 1
  BY RestHeap
<1>2. \A i \in 1 .. Len(eventQ) - 1 :
        /\ Rest[i].kind = eventQ[i + 1].kind /\ Rest[i].arg = eventQ[i + 1].arg
        /\ Tail(eventQ)[i] = eventQ[i + 1]
  BY RestHeap
<1>3. eventQ \in Seq(GoodEvents) /\ Rest \in Seq(GoodEvents)
  BY <1>1, HeapEvents
<1>4. DOMAIN Tail(eventQ) = 1 .. Len(eventQ) - 1
  <2>1. Len(Tail(eventQ)) = Len(eventQ) - 1 /\ Tail(eventQ) \in Seq(GoodEvents)
    BY <1>3, TailShape
  <2> QED BY <2>1, LenProperties
<1>5. Holding(Tail(eventQ), K, A) = Holding(Rest, K, A)
  BY <1>1, <1>2, <1>4 DEF Holding, About
<1>6. Number(Tail(eventQ), K, A) = Number(Rest, K, A) BY <1>5 DEF Number
<1>7. Number(eventQ, K, A) = Number(Tail(eventQ), K, A) + One(About(Head(eventQ), K, A))
  BY <1>3, TailNumber
<1>8. Number(eventQ, K, A) \in Nat /\ Number(Rest, K, A) \in Nat
  BY <1>3, NumberType
<1> QED BY <1>6, <1>7, <1>8 DEF One, About

------------------------------
(* The numbers the invariant is about, before and after. *)
SameTravel(q, z) ==
  /\ Travelling(z) = Travelling(q)
  /\ \A r \in Requests : OnWay(z, r) = OnWay(q, r)
SameSteps(q, z) == Steps(z) = Steps(q)
SameLoads(q, z) == \A a \in Adapters : Loads(z, a) = Loads(q, a)
SameTimeouts(q, z) == \A r \in Requests : Timeouts(z, r) = Timeouts(q, r)

(* They are naturals. *)
LEMMA NumbersType ==
  ASSUME NEW q, Heap(q)
  PROVE  /\ Travelling(q) \in Nat /\ Steps(q) \in Nat
         /\ \A r \in Requests : OnWay(q, r) \in Nat /\ Timeouts(q, r) \in Nat
         /\ \A a \in Adapters : Loads(q, a) \in Nat
<1>1. q \in Seq(GoodEvents) BY HeapEvents
<1>2. Travelling(q) \in Nat BY <1>1, NumberType DEF Travelling
<1>3. Steps(q) \in Nat BY <1>1, NumberType DEF Steps
<1>4. \A r \in Requests : OnWay(q, r) \in Nat BY <1>1, NumberType DEF OnWay
<1>5. \A r \in Requests : Timeouts(q, r) \in Nat
  BY <1>1, NumberType DEF Timeouts
<1>6. \A a \in Adapters : Loads(q, a) \in Nat BY <1>1, NumberType DEF Loads
<1> QED BY <1>2, <1>3, <1>4, <1>5, <1>6

(* Scheduling a request's next event, a step, a load or a timeout. *)
LEMMA ScheduleQueued ==
  ASSUME NEW q, Heap(q), NEW d \in Nat, NEW r \in Requests
  PROVE  LET z == Schedule(q, d, "queued", r)
         IN  /\ Heap(z)
             /\ Travelling(z) = Travelling(q) + 1
             /\ OnWay(z, r) = OnWay(q, r) + 1
             /\ \A s \in Requests \ {r} : OnWay(z, s) = OnWay(q, s)
             /\ SameSteps(q, z) /\ SameLoads(q, z) /\ SameTimeouts(q, z)
             /\ \A now : Due(q, now) => Due(z, now)
<1> DEFINE z == Schedule(q, d, "queued", r)
<1>1. "queued" \in Kinds BY DEF Kinds, KindPriority
<1>2. Heap(z) /\ \A now : Due(q, now) => Due(z, now) BY <1>1, ScheduleHeap
<1>3. Travelling(z) = Travelling(q) + 1 BY <1>1, ScheduleNumber DEF Travelling
<1>4. OnWay(z, r) = OnWay(q, r) + 1 BY <1>1, ScheduleNumber DEF OnWay
<1>5. \A s \in Requests \ {r} : OnWay(z, s) = OnWay(q, s)
  BY <1>1, ScheduleNumber DEF OnWay
<1>6. SameSteps(q, z) BY <1>1, ScheduleNumber DEF SameSteps, Steps
<1>7. SameLoads(q, z) BY <1>1, ScheduleNumber DEF SameLoads, Loads
<1>8. SameTimeouts(q, z) BY <1>1, ScheduleNumber DEF SameTimeouts, Timeouts
<1> QED BY <1>2, <1>3, <1>4, <1>5, <1>6, <1>7, <1>8

(* Schedule of a StepEvent. *)
LEMMA ScheduleStep ==
  ASSUME NEW q, Heap(q), NEW d \in Nat
  PROVE  LET z == Schedule(q, d, "step", 0)
         IN  /\ Heap(z)
             /\ Steps(z) = Steps(q) + 1
             /\ SameTravel(q, z) /\ SameLoads(q, z) /\ SameTimeouts(q, z)
             /\ \A now : Due(q, now) => Due(z, now)
<1> DEFINE z == Schedule(q, d, "step", 0)
<1>1. "step" \in Kinds /\ 0 \in Requests \cup Adapters \cup {0}
  BY DEF Kinds, KindPriority
<1>2. Heap(z) /\ \A now : Due(q, now) => Due(z, now) BY <1>1, ScheduleHeap
<1>3. Travelling(z) = Travelling(q) BY <1>1, ScheduleNumber DEF Travelling
<1>4. \A s \in Requests : OnWay(z, s) = OnWay(q, s)
  BY <1>1, ScheduleNumber DEF OnWay
<1>5. Steps(z) = Steps(q) + 1 BY <1>1, ScheduleNumber DEF Steps
<1>6. SameLoads(q, z) BY <1>1, ScheduleNumber DEF SameLoads, Loads
<1>7. SameTimeouts(q, z) BY <1>1, ScheduleNumber DEF SameTimeouts, Timeouts
<1> QED BY <1>2, <1>3, <1>4, <1>5, <1>6, <1>7 DEF SameTravel

(* Schedule of an AdapterLoadCompletionEvent. *)
LEMMA ScheduleLoad ==
  ASSUME NEW q, Heap(q), NEW d \in Nat, NEW a \in Adapters
  PROVE  LET z == Schedule(q, d, "load", a)
         IN  /\ Heap(z)
             /\ Loads(z, a) = Loads(q, a) + 1
             /\ \A b \in Adapters \ {a} : Loads(z, b) = Loads(q, b)
             /\ SameTravel(q, z) /\ SameSteps(q, z) /\ SameTimeouts(q, z)
             /\ \A now : Due(q, now) => Due(z, now)
<1> DEFINE z == Schedule(q, d, "load", a)
<1>1. "load" \in Kinds BY DEF Kinds, KindPriority
<1>2. Heap(z) /\ \A now : Due(q, now) => Due(z, now) BY <1>1, ScheduleHeap
<1>3. Travelling(z) = Travelling(q) BY <1>1, ScheduleNumber DEF Travelling
<1>4. \A s \in Requests : OnWay(z, s) = OnWay(q, s)
  BY <1>1, ScheduleNumber DEF OnWay
<1>5. SameSteps(q, z) BY <1>1, ScheduleNumber DEF SameSteps, Steps
<1>6. Loads(z, a) = Loads(q, a) + 1 BY <1>1, ScheduleNumber DEF Loads
<1>7. \A b \in Adapters \ {a} : Loads(z, b) = Loads(q, b)
  BY <1>1, ScheduleNumber DEF Loads
<1>8. SameTimeouts(q, z) BY <1>1, ScheduleNumber DEF SameTimeouts, Timeouts
<1> QED BY <1>2, <1>3, <1>4, <1>5, <1>6, <1>7, <1>8 DEF SameTravel

(* Schedule of a TimeoutEvent. *)
LEMMA ScheduleTimeout ==
  ASSUME NEW q, Heap(q), NEW d \in Nat, NEW r \in Requests
  PROVE  LET z == Schedule(q, d, "timeout", r)
         IN  /\ Heap(z)
             /\ Timeouts(z, r) = Timeouts(q, r) + 1
             /\ \A s \in Requests \ {r} : Timeouts(z, s) = Timeouts(q, s)
             /\ SameTravel(q, z) /\ SameSteps(q, z) /\ SameLoads(q, z)
             /\ \A now : Due(q, now) /\ now + d = Deadline(r) => Due(z, now)
<1> DEFINE z == Schedule(q, d, "timeout", r)
<1>1. "timeout" \in Kinds BY DEF Kinds, KindPriority
<1>2. Heap(z) /\ \A now : Due(q, now) /\ now + d = Deadline(r) => Due(z, now)
  BY <1>1, ScheduleHeap
<1>3. Travelling(z) = Travelling(q) BY <1>1, ScheduleNumber DEF Travelling
<1>4. \A s \in Requests : OnWay(z, s) = OnWay(q, s)
  BY <1>1, ScheduleNumber DEF OnWay
<1>5. SameSteps(q, z) BY <1>1, ScheduleNumber DEF SameSteps, Steps
<1>6. SameLoads(q, z) BY <1>1, ScheduleNumber DEF SameLoads, Loads
<1>7. Timeouts(z, r) = Timeouts(q, r) + 1 BY <1>1, ScheduleNumber DEF Timeouts
<1>8. \A s \in Requests \ {r} : Timeouts(z, s) = Timeouts(q, s)
  BY <1>1, ScheduleNumber DEF Timeouts
<1> QED BY <1>2, <1>3, <1>4, <1>5, <1>6, <1>7, <1>8 DEF SameTravel

(* Popping them. *)
LEMMA PopTravel ==
  ASSUME Heap(eventQ), eventQ # <<>>, Head(eventQ).kind \in {"arrival", "queued"}
  PROVE  /\ Head(eventQ).arg \in Requests
         /\ Travelling(eventQ) = Travelling(Rest) + 1
         /\ OnWay(eventQ, Head(eventQ).arg) = OnWay(Rest, Head(eventQ).arg) + 1
         /\ \A s \in Requests \ {Head(eventQ).arg} : OnWay(eventQ, s) = OnWay(Rest, s)
         /\ SameSteps(eventQ, Rest) /\ SameLoads(eventQ, Rest)
         /\ SameTimeouts(eventQ, Rest)
<1>1. Head(eventQ).arg \in Requests BY RestHeap DEF GoodEvents
<1>2. Travelling(eventQ) = Travelling(Rest) + 1
  BY <1>1, RestNumber DEF Travelling
<1>3. OnWay(eventQ, Head(eventQ).arg) = OnWay(Rest, Head(eventQ).arg) + 1
  BY RestNumber DEF OnWay
<1>4. \A s \in Requests \ {Head(eventQ).arg} : OnWay(eventQ, s) = OnWay(Rest, s)
  BY RestNumber DEF OnWay
<1>5. SameSteps(eventQ, Rest) BY RestNumber DEF SameSteps, Steps
<1>6. SameLoads(eventQ, Rest) BY RestNumber DEF SameLoads, Loads
<1>7. SameTimeouts(eventQ, Rest) BY RestNumber DEF SameTimeouts, Timeouts
<1> QED BY <1>1, <1>2, <1>3, <1>4, <1>5, <1>6, <1>7

(* A StepEvent has been popped. *)
LEMMA PopStep ==
  ASSUME Heap(eventQ), eventQ # <<>>, Head(eventQ).kind = "step"
  PROVE  /\ Steps(eventQ) = Steps(Rest) + 1
         /\ SameTravel(eventQ, Rest) /\ SameLoads(eventQ, Rest)
         /\ SameTimeouts(eventQ, Rest)
<1>1. Head(eventQ).arg = 0 BY RestHeap DEF GoodEvents
<1>2. Travelling(eventQ) = Travelling(Rest) BY RestNumber DEF Travelling
<1>3. \A s \in Requests : OnWay(eventQ, s) = OnWay(Rest, s)
  BY RestNumber DEF OnWay
<1>4. Steps(eventQ) = Steps(Rest) + 1 BY <1>1, RestNumber DEF Steps
<1>5. SameLoads(eventQ, Rest) BY RestNumber DEF SameLoads, Loads
<1>6. SameTimeouts(eventQ, Rest) BY RestNumber DEF SameTimeouts, Timeouts
<1> QED BY <1>2, <1>3, <1>4, <1>5, <1>6 DEF SameTravel

(* An AdapterLoadCompletionEvent has been popped. *)
LEMMA PopLoad ==
  ASSUME Heap(eventQ), eventQ # <<>>, Head(eventQ).kind = "load"
  PROVE  /\ Head(eventQ).arg \in Adapters
         /\ Loads(eventQ, Head(eventQ).arg) = Loads(Rest, Head(eventQ).arg) + 1
         /\ \A b \in Adapters \ {Head(eventQ).arg} : Loads(eventQ, b) = Loads(Rest, b)
         /\ SameTravel(eventQ, Rest) /\ SameSteps(eventQ, Rest)
         /\ SameTimeouts(eventQ, Rest)
<1>1. Head(eventQ).arg \in Adapters BY RestHeap DEF GoodEvents
<1>2. Travelling(eventQ) = Travelling(Rest) BY RestNumber DEF Travelling
<1>3. \A s \in Requests : OnWay(eventQ, s) = OnWay(Rest, s)
  BY RestNumber DEF OnWay
<1>4. SameSteps(eventQ, Rest) BY RestNumber DEF SameSteps, Steps
<1>5. Loads(eventQ, Head(eventQ).arg) = Loads(Rest, Head(eventQ).arg) + 1
  BY RestNumber DEF Loads
<1>6. \A b \in Adapters \ {Head(eventQ).arg} : Loads(eventQ, b) = Loads(Rest, b)
  BY RestNumber DEF Loads
<1>7. SameTimeouts(eventQ, Rest) BY RestNumber DEF SameTimeouts, Timeouts
<1> QED BY <1>1, <1>2, <1>3, <1>4, <1>5, <1>6, <1>7 DEF SameTravel

(* A TimeoutEvent has been popped. *)
LEMMA PopTimeout ==
  ASSUME Heap(eventQ), eventQ # <<>>, Head(eventQ).kind = "timeout"
  PROVE  /\ Head(eventQ).arg \in Requests
         /\ Timeouts(eventQ, Head(eventQ).arg) = Timeouts(Rest, Head(eventQ).arg) + 1
         /\ \A s \in Requests \ {Head(eventQ).arg} : Timeouts(eventQ, s) = Timeouts(Rest, s)
         /\ SameTravel(eventQ, Rest) /\ SameSteps(eventQ, Rest)
         /\ SameLoads(eventQ, Rest)
<1>1. Head(eventQ).arg \in Requests BY RestHeap DEF GoodEvents
<1>2. Travelling(eventQ) = Travelling(Rest) BY RestNumber DEF Travelling
<1>3. \A s \in Requests : OnWay(eventQ, s) = OnWay(Rest, s)
  BY RestNumber DEF OnWay
<1>4. SameSteps(eventQ, Rest) BY RestNumber DEF SameSteps, Steps
<1>5. SameLoads(eventQ, Rest) BY RestNumber DEF SameLoads, Loads
<1>6. Timeouts(eventQ, Head(eventQ).arg) = Timeouts(Rest, Head(eventQ).arg) + 1
  BY RestNumber DEF Timeouts
<1>7. \A s \in Requests \ {Head(eventQ).arg} : Timeouts(eventQ, s) = Timeouts(Rest, s)
  BY RestNumber DEF Timeouts
<1> QED BY <1>1, <1>2, <1>3, <1>4, <1>5, <1>6, <1>7 DEF SameTravel

(* The numbers of the tail are those of the rest. *)
LEMMA TailNumbers ==
  ASSUME Heap(eventQ), eventQ # <<>>
  PROVE  /\ SameTravel(Rest, Tail(eventQ)) /\ SameSteps(Rest, Tail(eventQ))
         /\ SameLoads(Rest, Tail(eventQ)) /\ SameTimeouts(Rest, Tail(eventQ))
BY RestNumber DEF SameTravel, SameSteps, SameLoads, SameTimeouts, Travelling, OnWay,
                  Steps, Loads, Timeouts

(* No request's deadline lies beyond Late, so timeouts keep theirs as time *)
(* moves on.                                                               *)
LEMMA RestDue ==
  ASSUME Heap(eventQ), eventQ # <<>>, clock \in 0 .. Late,
         arrivalTime \in [Requests -> ArrivalTimes], Due(eventQ, clock)
  PROVE  /\ Now \in 0 .. Late
         /\ Due(Rest, Now)
         /\ Due(Tail(eventQ), clock)
<1> DEFINE h == Head(eventQ)
           n == Len(eventQ)
<1>1. Late \in Nat /\ \A r \in Requests : Deadline(r) \in Nat /\ Deadline(r) <= Late
  <2>1. /\ Late \in Nat /\ ArrivalTimes \subseteq Nat /\ Timeout \in [Requests -> Nat]
        /\ \A t \in ArrivalTimes, r \in Requests : t + Timeout[r] <= Late
    BY EngineAssumption
  <2>2. ASSUME NEW r \in Requests PROVE Deadline(r) \in Nat /\ Deadline(r) <= Late
    <3>1. arrivalTime[r] \in ArrivalTimes /\ arrivalTime[r] \in Nat /\ Timeout[r] \in Nat
      BY <2>1
    <3> QED BY <2>1, <3>1 DEF Deadline
  <2> QED BY <2>1, <2>2
<1>2. h.in \in Nat /\ Heap(eventQ) /\ Heap(Rest) /\ Heap(Tail(eventQ)) /\ n \in Nat \ {0}
      /\ DOMAIN Rest = 1 .. n - 1
  BY RestHeap
<1>3. \A i \in 1 .. n - 1 :
        /\ i + 1 \in DOMAIN eventQ
        /\ Rest[i].kind = eventQ[i + 1].kind /\ Rest[i].arg = eventQ[i + 1].arg
        /\ Rest[i].in = eventQ[i + 1].in - h.in
        /\ eventQ[i + 1].in \in Nat /\ h.in <= eventQ[i + 1].in
        /\ Tail(eventQ)[i] = eventQ[i + 1]
  BY RestHeap
<1>4. DOMAIN Tail(eventQ) = 1 .. n - 1
  <2>1. Tail(eventQ) \in Seq(GoodEvents) /\ Len(Tail(eventQ)) = n - 1
    BY HeapEvents, TailShape
  <2> QED BY <2>1, LenProperties
<1>5. Now = Least(clock + h.in, Late) BY DEF Now
<1> HIDE DEF h, n
<1>6. Now \in 0 .. Late BY <1>1, <1>2, <1>5 DEF Least
<1>7. ASSUME NEW i \in 1 .. n - 1, eventQ[i + 1].kind = "timeout"
      PROVE  /\ clock + eventQ[i + 1].in = Deadline(eventQ[i + 1].arg)
             /\ eventQ[i + 1].arg \in Requests
  <2>1. eventQ[i + 1] \in GoodEvents BY <1>2, <1>3, HeapEvents
  <2> QED BY <1>3, <1>7, <2>1 DEF Due, GoodEvents
<1>8. ASSUME NEW i \in 1 .. n - 1, Rest[i].kind = "timeout"
      PROVE  Now + Rest[i].in = Deadline(Rest[i].arg)
  <2> DEFINE x == eventQ[i + 1].in
             y == Rest[i].in
             D == Deadline(Rest[i].arg)
  <2>1. clock + x = D /\ D \in Nat /\ D <= Late BY <1>1, <1>3, <1>7, <1>8
  <2>2. y = x - h.in /\ x \in Nat /\ h.in <= x BY <1>3
  <2> HIDE DEF x, y, D
  <2>3. clock \in Nat /\ clock + h.in <= Late BY SMTT(60), <1>1, <1>2, <2>1, <2>2
  <2>4. Now = clock + h.in BY <1>5, <2>3 DEF Least
  <2>5. Now + y = D BY <1>2, <2>1, <2>2, <2>3, <2>4, SMTT(40)
  <2> QED BY <2>5 DEF y, D
<1>9. Due(Rest, Now) BY <1>2, <1>8 DEF Due
<1>10. Due(Tail(eventQ), clock) BY SMTT(60), <1>3, <1>4, <1>7 DEF Due
<1> QED BY <1>6, <1>9, <1>10

------------------------------
(* Numbers of tokens, blocks and requests. *)

(* What the assumption says of each constant. *)
LEMMA ConstantTypes ==
  /\ Requests \subseteq Nat /\ IsFiniteSet(Requests)
  /\ InputLen \in [Requests -> Nat \ {0}] /\ OutputLen \in [Requests -> Nat]
  /\ Timeout \in [Requests -> Nat] /\ Priority \in [Requests -> Nat]
  /\ ArrivalTimes \subseteq Nat /\ Late \in Nat
  /\ NoAdapter \notin Adapters /\ Adapter \in [Requests -> Adapters \cup {NoAdapter}]
  /\ AdapterCapacity \in Nat
  /\ TotalBlocks \in Nat \ {0} /\ BlockSize \in Nat \ {0}
  /\ MaxNumSeqs \in Nat \ {0} /\ MaxNumBatchedTokens \in Nat \ {0}
  /\ PrefillTokenThreshold \in Nat /\ MaxModelLen \in Nat
  /\ SpecScale \in Nat \ {0} /\ SpecRate \in Nat /\ SpecRate >= SpecScale
  /\ QueueingTimes \subseteq Nat /\ StepTimes \subseteq Nat /\ LoadTimes \subseteq Nat
BY EngineAssumption

(* Max of the community modules, of a number and zero. *)
LEMMA MaxZero ==
  ASSUME NEW x \in Int
  PROVE  /\ Max({x, 0}) \in Nat /\ Max({0, x}) = Max({x, 0})
         /\ x <= Max({x, 0}) /\ Max({x, 0}) \in {x, 0}
<1>1. \E m \in {x, 0} : \A y \in {x, 0} : m >= y
  <2>1. CASE x >= 0 BY <2>1
  <2>2. CASE ~(x >= 0) BY <2>2
  <2> QED BY <2>1, <2>2
<1>2. Max({x, 0}) \in {x, 0} /\ \A y \in {x, 0} : Max({x, 0}) >= y
  BY <1>1 DEF Max
<1>3. {0, x} = {x, 0} OBVIOUS
<1> HIDE <1>1
<1>4. Max({0, x}) = Max({x, 0}) BY <1>3
<1>5. Max({x, 0}) \in Int /\ Max({x, 0}) >= 0 /\ Max({x, 0}) >= x BY <1>2
<1> QED BY <1>2, <1>4, <1>5

(* Blocks of the cache. *)
LEMMA BlocksType ==
  /\ \A n \in Nat : Blocks(n) \in Nat
  /\ Blocks(0) = 0
<1>1. BlockSize \in Nat \ {0} BY ConstantTypes
<1>2. ASSUME NEW n \in Nat PROVE Blocks(n) \in Nat BY <1>1 DEF Blocks
<1>3. Blocks(0) = 0
  <2> DEFINE q == (0 + BlockSize - 1) \div BlockSize
  <2>1. q \in Nat BY <1>1
  <2>2. q * BlockSize <= 0 + BlockSize - 1 BY <1>1
  <2> HIDE DEF q
  <2>3. ~(q >= 1)
    <3> SUFFICES ASSUME q >= 1 PROVE FALSE OBVIOUS
    <3>1. PICK p \in Nat : q = p + 1 BY <2>1, q - 1 \in Nat
    <3>2. q * BlockSize = p * BlockSize + BlockSize BY <1>1, <3>1
    <3>3. p * BlockSize \in Nat BY <1>1, <3>1
    <3> QED BY <1>1, <2>2, <3>2, <3>3
  <2>4. q = 0 BY <2>1, <2>3
  <2> QED BY <2>4 DEF Blocks, q
<1> QED BY <1>2, <1>3

(* The numbers from 1 to n are n. *)
LEMMA IntervalCount ==
  ASSUME NEW n \in Nat
  PROVE  IsFiniteSet(1 .. n) /\ Cardinality(1 .. n) = n
<1>1. 1 \in Int /\ n \in Int OBVIOUS
<1>2. IsFiniteSet(1 .. n) /\ Cardinality(1 .. n) = IF 1 > n THEN 0 ELSE n - 1 + 1
  BY <1>1, FS_Interval, Zenon
<1> QED BY <1>2

(* The units of a function into the naturals: changing what one request    *)
(* has changes their number by as much.                                    *)
LEMMA UnitsChange ==
  ASSUME NEW R, IsFiniteSet(R), NEW f \in [R -> Nat], NEW g \in [R -> Nat],
         NEW r \in R, \A s \in R \ {r} : g[s] = f[s]
  PROVE  /\ IsFiniteSet(Units(f))
         /\ Cardinality(Units(f)) \in Nat /\ Cardinality(Units(g)) \in Nat
         /\ f[r] <= Cardinality(Units(f))
         /\ Cardinality(Units(g)) = (Cardinality(Units(f)) - f[r]) + g[r]
<1> DEFINE Own(n) == {r} \X (1 .. n)
           V == UNION {{s} \X (1 .. f[s]) : s \in R \ {r}}
           W == {{s} \X (1 .. f[s]) : s \in R \ {r}}
<1>1. ASSUME NEW n \in Nat PROVE IsFiniteSet(Own(n)) /\ Cardinality(Own(n)) = n
  <2>1. IsFiniteSet(1 .. n) /\ Cardinality(1 .. n) = n BY IntervalCount
  <2>2. IsFiniteSet({r}) /\ Cardinality({r}) = 1 BY FS_Singleton
  <2>3. IsFiniteSet({r} \X (1 .. n))
        /\ Cardinality({r} \X (1 .. n)) = Cardinality({r}) * Cardinality(1 .. n)
    BY <2>1, <2>2, FS_Product
  <2> QED BY <2>1, <2>2, <2>3
<1>2. IsFiniteSet(V)
  <2>1. IsFiniteSet(R \ {r}) BY FS_RemoveElement
  <2> DEFINE w == [s \in R \ {r} |-> {s} \X (1 .. f[s])]
  <2>2. w \in Surjection(R \ {r}, W) BY DEF Surjection
  <2>3. \A T \in W : IsFiniteSet(T)
    <3>1. ASSUME NEW s \in R \ {r} PROVE IsFiniteSet({s} \X (1 .. f[s]))
      <4>1. IsFiniteSet({s}) /\ IsFiniteSet(1 .. f[s])
        BY f[s] \in Nat, FS_Singleton, IntervalCount
      <4> QED BY <4>1, FS_Product
    <3> QED BY <3>1
  <2> HIDE DEF W, w
  <2>4. IsFiniteSet(W) BY <2>1, <2>2, FS_Surjection
  <2>5. IsFiniteSet(UNION W) BY <2>3, <2>4, FS_UNION
  <2> QED BY <2>5 DEF W
<1>3. Units(f) = Own(f[r]) \cup V /\ Units(g) = Own(g[r]) \cup V
  <2>1. DOMAIN f = R /\ DOMAIN g = R OBVIOUS
  <2> QED BY <2>1 DEF Units
<1>4. \A n : Own(n) \cap V = {} OBVIOUS
<1> HIDE DEF Own, V
<1>5. ASSUME NEW n \in Nat
      PROVE  /\ IsFiniteSet(Own(n) \cup V) /\ Cardinality(V) \in Nat
             /\ Cardinality(Own(n) \cup V) = n + Cardinality(V)
  <2>1. Cardinality(Own(n) \cap V) = 0 BY <1>4, FS_EmptySet
  <2>2. /\ IsFiniteSet(Own(n) \cup V)
        /\ Cardinality(Own(n) \cup V)
             = Cardinality(Own(n)) + Cardinality(V) - Cardinality(Own(n) \cap V)
    BY <1>1, <1>2, FS_Union
  <2>3. Cardinality(V) \in Nat BY <1>2, FS_CardinalityType
  <2> QED BY <1>1, <2>1, <2>2, <2>3
<1>6. f[r] \in Nat /\ g[r] \in Nat OBVIOUS
<1>7. /\ Cardinality(Units(f)) = f[r] + Cardinality(V) /\ IsFiniteSet(Units(f))
      /\ Cardinality(Units(g)) = g[r] + Cardinality(V) /\ Cardinality(V) \in Nat
  BY <1>3, <1>5, <1>6
<1> QED BY <1>6, <1>7

(* Sets of requests. *)
LEMMA RequestsAdd ==
  ASSUME NEW A \in SUBSET Requests, NEW r \in Requests
  PROVE  /\ IsFiniteSet(A) /\ Cardinality(A) \in Nat
         /\ r \notin A => Cardinality(A \cup {r}) = Cardinality(A) + 1
         /\ r \in A => Cardinality(A \ {r}) = Cardinality(A) - 1 /\ Cardinality(A) > 0
<1>1. IsFiniteSet(A) BY ConstantTypes, FS_Subset
<1>2. Cardinality(A) \in Nat BY <1>1, FS_CardinalityType
<1>3. ASSUME r \notin A PROVE Cardinality(A \cup {r}) = Cardinality(A) + 1
  BY <1>1, <1>3, FS_AddElement
<1>4. ASSUME r \in A PROVE Cardinality(A \ {r}) = Cardinality(A) - 1 /\ Cardinality(A) > 0
  <2>1. Cardinality(A \ {r}) = Cardinality(A) - 1
    BY <1>1, <1>4, FS_RemoveElement
  <2>2. Cardinality(A) # 0 BY <1>1, <1>4, FS_EmptySet
  <2> QED BY <1>2, <2>1, <2>2
<1> QED BY <1>1, <1>2, <1>3, <1>4

(* How many tokens a request may be granted. *)
LEMMA PrefillChunkType ==
  ASSUME budget \in Nat, NEW r \in Requests, NEW n \in Nat, n <= InputLen[r]
  PROVE  /\ PrefillChunk(r, n) \in Nat
         /\ PrefillChunk(r, n) <= budget
         /\ PrefillChunk(r, n) <= InputLen[r] - n
<1> DEFINE S == {InputLen[r] - n, budget} \cup LengthRoom(n)
                  \cup (IF PrefillTokenThreshold = 0 THEN {} ELSE {PrefillTokenThreshold})
<1>1. InputLen[r] \in Nat /\ PrefillTokenThreshold \in Nat /\ MaxModelLen \in Nat
  BY ConstantTypes
<1>2. LengthRoom(n) \subseteq Nat BY <1>1 DEF LengthRoom
<1>3. S \subseteq Nat /\ InputLen[r] - n \in S /\ budget \in S BY <1>1, <1>2
<1>4. PrefillChunk(r, n) = Min(S) BY DEF PrefillChunk
<1> HIDE DEF S
<1>5. Min(S) \in S /\ \A y \in S : Min(S) <= y BY <1>3, MinIsLeast
<1> QED BY <1>3, <1>4, <1>5

(* What phase 1 asks for fits the budget, prefill or decode. *)
LEMMA NewTokensType ==
  ASSUME budget \in Nat, budget > 0, NEW r \in Requests, progress[r] \in Nat,
         carry[r] \in Nat
  PROVE  NewTokens(r) \in Nat /\ NewTokens(r) <= budget
<1>1. /\ InputLen[r] \in Nat /\ OutputLen[r] \in Nat /\ MaxModelLen \in Nat
      /\ SpecScale \in Nat \ {0} /\ SpecRate \in Nat
  BY ConstantTypes
<1>2. CASE progress[r] < InputLen[r]
  <2>1. NewTokens(r) = PrefillChunk(r, progress[r]) BY <1>2 DEF NewTokens
  <2>2. progress[r] <= InputLen[r] BY <1>1, <1>2
  <2> QED BY <2>1, <2>2, PrefillChunkType
<1>3. CASE ~(progress[r] < InputLen[r]) /\ OutputLen[r] = 0
  BY <1>3 DEF NewTokens
<1>4. CASE ~(progress[r] < InputLen[r]) /\ OutputLen[r] # 0
  <2> DEFINE T == IF SpecEnabled
                  THEN {DecodeTokensPerStep(r), budget, TokensToCompletion(r)}
                  ELSE {1}
             S == LengthRoom(progress[r]) \cup T
  <2>1. NewTokens(r) = Min(S) BY <1>4 DEF NewTokens
  <2>2. LengthRoom(progress[r]) \subseteq Nat BY <1>1 DEF LengthRoom
  <2>3. DecodeTokensPerStep(r) \in Nat
    <3>1. (carry[r] + SpecRate) \div SpecScale \in Int BY <1>1
    <3> QED BY <3>1 DEF DecodeTokensPerStep
  <2>4. TokensToCompletion(r) \in Nat
    <3>1. CompletionProgress(r) - progress[r] \in Int
      BY <1>1 DEF CompletionProgress
    <3> QED BY <3>1, MaxZero DEF TokensToCompletion
  <2>5. T \subseteq Nat /\ \E y \in T : y <= budget
    <3>1. CASE SpecEnabled BY <2>3, <2>4, <3>1
    <3>2. CASE ~SpecEnabled BY <3>2
    <3> QED BY <3>1, <3>2
  <2> HIDE DEF T
  <2>6. S \subseteq Nat /\ \E y \in S : y <= budget BY <2>2, <2>5
  <2> HIDE DEF S
  <2>7. Min(S) \in S /\ \A y \in S : Min(S) <= y BY <2>6, MinIsLeast
  <2>8. Min(S) \in Nat BY <2>6, <2>7
  <2>9. Min(S) <= budget
    <3>1. PICK y \in S : y <= budget BY <2>6
    <3>2. Min(S) <= y /\ y \in Nat BY <2>6, <2>7
    <3> QED BY <2>8, <3>1, <3>2
  <2> QED BY <2>1, <2>8, <2>9
<1> QED BY <1>2, <1>3, <1>4

(* The request at the cursor and what it asks for. *)
LEMMA WantedType ==
  ASSUME Shapes, Scan, InPhase1Loop
  PROVE  /\ pc \in {"phase1", "preempt"}
         /\ cursor \in 1 .. Len(running) /\ Current \in Requests
         /\ Current \in RangeOf(running)
         /\ Wanted \in Nat /\ Wanted <= budget
<1>1. /\ running \in Seq(Requests) /\ Len(running) \in Nat /\ cursor \in Nat
      /\ budget \in Nat /\ want \in Nat
      /\ progress \in [Requests -> Nat] /\ carry \in [Requests -> Nat]
  BY DEF Shapes
<1>2. /\ pc \in {"phase1", "preempt"} /\ cursor >= 1
      /\ pc = "preempt" => cursor <= Len(running) /\ want <= budget
      /\ pc = "phase1" => cursor <= Len(running) /\ budget > 0
  BY DEF InPhase1Loop, Scan
<1>3. cursor \in 1 .. Len(running) BY <1>1, <1>2
<1>4. Current \in Requests /\ Current \in RangeOf(running)
  BY <1>1, <1>3, ElementOfSeq DEF Current, RangeOf
<1>5. CASE pc = "preempt" BY <1>1, <1>2, <1>3, <1>4, <1>5 DEF Wanted
<1>6. CASE pc = "phase1"
  <2>1. Wanted = NewTokens(Current) BY <1>6 DEF Wanted
  <2>2. progress[Current] \in Nat /\ carry[Current] \in Nat /\ budget > 0
    BY <1>1, <1>2, <1>4, <1>6
  <2>3. NewTokens(Current) \in Nat /\ NewTokens(Current) <= budget
    BY <1>1, <1>4, <2>2, NewTokensType
  <2> QED BY <1>2, <1>3, <1>4, <2>1, <2>3
<1> QED BY <1>2, <1>5, <1>6

(* There is a victim to select: the last of those at the end of the order  *)
(* by priority and arrival, found by extending the batch one by one.       *)
LEMMA VictimType ==
  ASSUME running \in Seq(Requests), running # <<>>,
         arrivalTime \in [Requests -> ArrivalTimes]
  PROVE  VictimIndex \in 1 .. Len(running)
<1> DEFINE n == Len(running)
           P(i) == Priority[running[i]]
           T(i) == arrivalTime[running[i]]
           Last(i, j) == \/ P(j) < P(i)
                         \/ P(j) = P(i) /\ (T(j) < T(i) \/ (T(j) = T(i) /\ j <= i))
           Best(m) == \E i \in 1 .. m : \A j \in 1 .. m : Last(i, j)
           Worst == {m \in 1 .. n : ~Best(m)}
<1>1. n \in Nat \ {0} BY EmptySeq
<1>2. \A i \in 1 .. n : P(i) \in Nat /\ T(i) \in Nat
  <2>1. \A i \in 1 .. n : running[i] \in Requests BY ElementOfSeq
  <2>2. Priority \in [Requests -> Nat] /\ ArrivalTimes \subseteq Nat
    BY ConstantTypes
  <2> QED BY <2>1, <2>2
<1> HIDE DEF n, P, T
<1>3. \A i, j \in 1 .. n : Last(i, j) \/ Last(j, i) BY <1>1, <1>2
<1>4. \A i, j, k \in 1 .. n : Last(i, j) /\ Last(j, k) => Last(i, k)
  BY SMTT(60), <1>1, <1>2
<1> HIDE DEF Last
<1>5. Best(n)
  <2>1. SUFFICES ASSUME ~Best(n) PROVE FALSE OBVIOUS
  <2>2. Worst \subseteq Nat /\ n \in Worst BY <1>1, <2>1
  <2>3. PICK m \in Worst : \A k \in Worst : m <= k
    <3> HIDE DEF Worst
    <3> QED BY <2>2, LeastNatural
  <2>4. m \in 1 .. n /\ ~Best(m) BY <2>3
  <2>5. m # 1
    <3>1. Last(1, 1) BY <1>1, <1>3
    <3>2. \A j \in 1 .. 1 : j = 1 OBVIOUS
    <3> QED BY <2>4, <3>1, <3>2
  <2>6. m - 1 \in 1 .. n /\ m \in 1 .. m BY <1>1, <2>4, <2>5
  <2>7. m - 1 \notin Worst
    <3>1. ~(m <= m - 1) BY <1>1, <2>4
    <3> HIDE DEF Worst
    <3> QED BY <2>3, <3>1
  <2>8. PICK i \in 1 .. m - 1 : \A j \in 1 .. m - 1 : Last(i, j) BY <2>6, <2>7
  <2>9. i \in 1 .. n /\ i \in 1 .. m BY <1>1, <2>4, <2>8
  <2>10. \A j \in 1 .. m : j = m \/ j \in 1 .. m - 1 BY <1>1, <2>4
  <2>11. CASE Last(i, m)
    <3>1. \A j \in 1 .. m : Last(i, j) BY <2>8, <2>10, <2>11
    <3> QED BY <2>4, <2>9, <3>1
  <2>12. CASE ~Last(i, m)
    <3>1. Last(m, i) /\ Last(m, m) BY <1>3, <2>4, <2>9, <2>12
    <3>2. ASSUME NEW j \in 1 .. m PROVE Last(m, j)
      <4>1. CASE j = m BY <3>1, <4>1
      <4>2. CASE j \in 1 .. m - 1
        <5>1. j \in 1 .. n BY <1>1, <2>4, <4>2
        <5>2. Last(i, j) BY <2>8, <4>2
        <5>3. m \in 1 .. n /\ i \in 1 .. n /\ Last(m, i) BY <2>4, <2>9, <3>1
        <5> QED BY <1>4, <5>1, <5>2, <5>3
      <4> QED BY <2>10, <4>1, <4>2
    <3> QED BY <2>4, <2>6, <3>2
  <2> QED BY <2>11, <2>12
<1>6. CASE PreemptionPolicy = "fcfs"
  <2>1. VictimIndex = n BY <1>6 DEF VictimIndex, n
  <2> QED BY <1>1, <2>1 DEF n
<1>7. CASE PreemptionPolicy # "fcfs"
  <2>1. VictimIndex = CHOOSE i \in 1 .. n : \A j \in 1 .. n : Last(i, j)
    BY <1>7 DEF VictimIndex, n, Last, P, T
  <2>2. VictimIndex \in 1 .. n BY <1>5, <2>1
  <2> QED BY SMTT(60), <2>2 DEF n
<1> QED BY <1>6, <1>7

(* No request is older than itself, or goes before itself in a queue. *)
LEMMA OrdersStrict ==
  ASSUME arrivalTime \in [Requests -> ArrivalTimes], NEW r \in Requests
  PROVE  ~Older(r, r) /\ ~Precedes(r, r)
<1>1. r \in Nat /\ arrivalTime[r] \in Nat /\ Priority[r] \in Nat /\ InputLen[r] \in Nat
  BY ConstantTypes
<1>2. ~Older(r, r) BY <1>1 DEF Older
<1> QED BY <1>1, <1>2 DEF Precedes

(* OrderQueue neither loses nor repeats a request. *)
LEMMA OrderQueueShape ==
  ASSUME arrivalTime \in [Requests -> ArrivalTimes],
         NEW q \in Seq(Requests), Distinct(q), NEW z \in OrderQueue(q)
  PROVE  /\ z \in Seq(Requests) /\ Len(z) = Len(q)
         /\ Distinct(z) /\ RangeOf(z) = RangeOf(q)
         /\ z = <<>> <=> q = <<>>
<1> DEFINE S == RangeOf(q)
           n == Len(q)
<1>1. n \in Nat /\ S \subseteq Requests /\ IsFiniteSet(S) /\ Cardinality(S) = n
  <2>1. IsFiniteSet(S) /\ Cardinality(S) = n BY DistinctCount
  <2>2. S \subseteq Requests BY ElementOfSeq DEF RangeOf
  <2> QED BY <2>1, <2>2
<1>2. CASE Scheduler = "fcfs" BY <1>2 DEF OrderQueue
<1>3. CASE Scheduler # "fcfs"
  <2>1. /\ z \in [1 .. n -> S]
        /\ \A i, j \in 1 .. n : i < j => Precedes(z[i], z[j])
    <3>1. z \in Sortings(S, Precedes) BY <1>3 DEF OrderQueue
    <3> QED BY <1>1, <3>1 DEF Sortings
  <2> HIDE DEF n, S
  <2>2. \A i, j \in 1 .. n : i < j => z[i] # z[j]
    <3>1. \A i \in 1 .. n : z[i] \in Requests BY <1>1, <2>1
    <3> QED BY <2>1, <3>1, OrdersStrict
  <2>3. z \in Seq(S) /\ Len(z) = n /\ Distinct(z) /\ RangeOf(z) = S
    BY ZenonT(60), <1>1, <2>1, <2>2, SortingShape
  <2>4. z \in Seq(Requests) BY <1>1, <2>3, SeqMonotonic
  <2>5. z = <<>> <=> q = <<>>
    <3>1. Len(z) = Len(q) BY <2>3 DEF n
    <3> QED BY <2>4, <3>1, EmptySeq
  <2> QED BY <2>3, <2>4, <2>5 DEF n, S
<1> QED BY <1>2, <1>3

------------------------------
(* What a handler does to the heap. *)

(* ScheduleStepIfIdle(q, w): a step for the waiting, if there is none. *)
LEMMA StepIfIdle ==
  ASSUME NEW q, Heap(q), NEW w, stepEvent \in BOOLEAN, ScheduleStepIfIdle(q, w)
  PROVE  /\ Heap(eventQ') /\ stepEvent' \in BOOLEAN
         /\ SameTravel(q, eventQ') /\ SameLoads(q, eventQ') /\ SameTimeouts(q, eventQ')
         /\ \A now : Due(q, now) => Due(eventQ', now)
         /\ stepEvent => stepEvent' /\ Steps(eventQ') = Steps(q)
         /\ w # <<>> => stepEvent'
         /\ ~stepEvent /\ stepEvent' => Steps(eventQ') = Steps(q) + 1
         /\ ~stepEvent' => Steps(eventQ') = Steps(q)
<1>1. CASE ~stepEvent /\ w # <<>>
  <2>1. eventQ' = Schedule(q, 0, "step", 0) /\ stepEvent' = TRUE
    BY <1>1 DEF ScheduleStepIfIdle
  <2>2. Heap(eventQ') /\ Steps(eventQ') = Steps(q) + 1 BY <2>1, ScheduleStep
  <2>3. SameTravel(q, eventQ') /\ SameLoads(q, eventQ') /\ SameTimeouts(q, eventQ')
    BY <2>1, ScheduleStep
  <2>4. \A now : Due(q, now) => Due(eventQ', now) BY <2>1, ScheduleStep
  <2> QED BY <1>1, <2>1, <2>2, <2>3, <2>4
<1>2. CASE ~(~stepEvent /\ w # <<>>)
  <2>1. eventQ' = q /\ stepEvent' = stepEvent BY <1>2 DEF ScheduleStepIfIdle
  <2> QED BY <1>2, <2>1 DEF SameTravel, SameLoads, SameTimeouts
<1> QED BY <1>1, <1>2

(* ArmTimeout(q, r): its timeout, if it has one and is not past it. *)
LEMMA ArmedTimeout ==
  ASSUME NEW q, Heap(q), NEW r \in Requests, Due(q, Now), Now \in Nat, ~PastDue(r),
         arrivalTime \in [Requests -> ArrivalTimes]
  PROVE  /\ Heap(ArmTimeout(q, r)) /\ Due(ArmTimeout(q, r), Now)
         /\ SameTravel(q, ArmTimeout(q, r)) /\ SameSteps(q, ArmTimeout(q, r))
         /\ SameLoads(q, ArmTimeout(q, r))
         /\ \A s \in Requests \ {r} : Timeouts(ArmTimeout(q, r), s) = Timeouts(q, s)
         /\ Timeout[r] = 0 => Timeouts(ArmTimeout(q, r), r) = Timeouts(q, r)
         /\ Timeout[r] > 0 => Timeouts(ArmTimeout(q, r), r) = Timeouts(q, r) + 1
<1>1. Timeout[r] \in Nat /\ arrivalTime[r] \in Nat BY ConstantTypes
<1>2. CASE Timeout[r] = 0
  <2>1. ArmTimeout(q, r) = q BY <1>2 DEF ArmTimeout
  <2> QED BY <1>2, <2>1 DEF SameTravel, SameLoads, SameSteps
<1>3. CASE Timeout[r] > 0
  <2> DEFINE d == Deadline(r) - Now
  <2>1. d \in Nat /\ Now + d = Deadline(r) BY <1>1, <1>3 DEF PastDue, Deadline
  <2>2. ArmTimeout(q, r) = Schedule(q, d, "timeout", r) BY <1>3 DEF ArmTimeout
  <2> HIDE DEF d
  <2>3. Heap(ArmTimeout(q, r)) /\ Timeouts(ArmTimeout(q, r), r) = Timeouts(q, r) + 1
    BY <2>1, <2>2, ScheduleTimeout
  <2>4. \A s \in Requests \ {r} : Timeouts(ArmTimeout(q, r), s) = Timeouts(q, s)
    BY <2>1, <2>2, ScheduleTimeout
  <2>5. SameTravel(q, ArmTimeout(q, r)) /\ SameSteps(q, ArmTimeout(q, r))
        /\ SameLoads(q, ArmTimeout(q, r))
    BY <2>1, <2>2, ScheduleTimeout
  <2>6. Due(ArmTimeout(q, r), Now) BY <2>1, <2>2, ScheduleTimeout
  <2> QED BY <1>3, <2>3, <2>4, <2>5, <2>6
<1> QED BY <1>1, <1>2, <1>3

------------------------------
(* What a step leaves alone keeps its layer of the invariant. *)

(* The same members, each as often. *)
SameMembers(s, t) ==
  /\ RangeOf(t) = RangeOf(s) /\ Len(t) = Len(s)
  /\ (Distinct(s) => Distinct(t)) /\ (t = <<>> <=> s = <<>>)

(* Nothing changes. *)
LEMMA SameSelf ==
  ASSUME NEW s
  PROVE  /\ SameMembers(s, s)
         /\ SameTravel(s, s) /\ SameSteps(s, s) /\ SameLoads(s, s) /\ SameTimeouts(s, s)
BY DEF SameMembers, SameTravel, SameSteps, SameLoads, SameTimeouts

(* The heap and what it is for stay as they are. *)
LEMMA PendingsFrame ==
  ASSUME Pendings, SameSteps(eventQ, eventQ'), SameLoads(eventQ, eventQ'),
         stepEvent' = stepEvent, pc' = "idle" <=> pc = "idle", loading' = loading,
         running = <<>> => running' = <<>>, waitQ = <<>> => waitQ' = <<>>
  PROVE  Pendings'
BY DEF Pendings, SameSteps, SameLoads

(* In the middle of a step no handler runs: only the heap matters. *)
LEMMA PendingsBusy ==
  ASSUME Pendings, eventQ' = eventQ, stepEvent' = stepEvent, pc # "idle", pc' # "idle",
         loading' = loading
  PROVE  Pendings'
BY DEF Pendings

(* No request moves. *)
LEMMA PlacesFrame ==
  ASSUME Places, SameTravel(eventQ, eventQ'), state' = state,
         SameMembers(waitQ, waitQ'), SameMembers(running, running')
  PROVE  Places'
BY DEF Places, SameTravel, SameMembers

(* No timeout is set or popped. *)
LEMMA DeadlinesFrame ==
  ASSUME Deadlines, SameTimeouts(eventQ, eventQ'), Due(eventQ', clock'), state' = state,
         SameMembers(waitQ, waitQ'), SameMembers(running, running'),
         arrivalTime' = arrivalTime
  PROVE  Deadlines'
<1>1. Due(eventQ, clock)' BY DEF Due, Deadline
<1> QED BY <1>1 DEF Deadlines, SameTimeouts, SameMembers

(* No counter moves. *)
LEMMA CountsFrame ==
  ASSUME Counts, SameTravel(eventQ, eventQ'), state' = state, metrics' = metrics,
         SameMembers(waitQ, waitQ'), SameMembers(running, running')
  PROVE  Counts'
BY DEF Counts, In, Present, SameTravel, SameMembers

(* No block is taken or given back. *)
LEMMA RoomFrame ==
  ASSUME Room, UNCHANGED kvVars, SameMembers(running, running')
  PROVE  Room'
BY DEF Room, kvVars, Held, Blocks, SameMembers

(* No adapter comes or goes. *)
LEMMA SlotsFrame ==
  ASSUME Slots, resident' = resident, loading' = loading
  PROVE  Slots'
BY DEF Slots

(* No pin is taken or given back, no adapter goes. *)
LEMMA PinsFrame ==
  ASSUME Pins, pinCount' = pinCount, adapterPinned' = adapterPinned,
         RangeOf(resident) \subseteq RangeOf(resident'),
         SameMembers(waitQ, waitQ'), SameMembers(running, running')
  PROVE  Pins'
BY DEF Pins, Holders, SameMembers

(* A handler's event has been popped, and time has moved to it. *)
LEMMA Dispatched ==
  ASSUME Shapes, Deadlines, NEW k, Dispatch(k)
  PROVE  /\ pc = "idle" /\ eventQ # <<>> /\ Head(eventQ).kind = k /\ Heap(eventQ)
         /\ Heap(Rest) /\ Due(Rest, Now) /\ Now \in 0 .. Late /\ Now \in Nat
         /\ arrivalTime \in [Requests -> ArrivalTimes]
<1>1. pc = "idle" /\ eventQ # <<>> /\ Head(eventQ).kind = k BY DEF Dispatch
<1>2. /\ Heap(eventQ) /\ clock \in 0 .. Late
      /\ arrivalTime \in [Requests -> ArrivalTimes] /\ Due(eventQ, clock)
  BY DEF Shapes, Deadlines
<1>3. Heap(Rest) /\ Due(Rest, Now) /\ Now \in 0 .. Late
  BY <1>1, <1>2, RestHeap, RestDue
<1>4. Now \in Nat BY <1>3, ConstantTypes
<1> QED BY <1>1, <1>2, <1>3, <1>4

------------------------------
(* The invariant holds initially. *)
LEMMA InitGood == Init => EngineInv
<1> SUFFICES ASSUME Init PROVE EngineInv OBVIOUS
<1>1. /\ clock = 0 /\ arrivalTime \in [Requests -> ArrivalTimes]
      /\ stepEvent = FALSE
      /\ state = [r \in Requests |-> "queued"]
      /\ progress = [r \in Requests |-> 0] /\ numNew = [r \in Requests |-> 0]
      /\ computed = [r \in Requests |-> 0] /\ carry = [r \in Requests |-> 0]
      /\ waitQ = <<>> /\ running = <<>>
      /\ kvTokens = [r \in Requests |-> 0] /\ freeBlocks = TotalBlocks
  BY DEF Init
<1>2. /\ resident = <<>> /\ pinCount = [a \in Adapters |-> 0]
      /\ adapterPinned = [r \in Requests |-> FALSE] /\ loading = NoAdapter
      /\ metrics = [completed |-> 0, timedOut |-> 0, dropped |-> 0,
                    kvAllocationFailures |-> 0]
      /\ pc = "idle" /\ cursor = 0 /\ want = 0 /\ budget = 0
      /\ preempted = FALSE /\ advance = 0
  BY DEF Init
<1> DEFINE n == Cardinality(Requests)
<1>3. PICK order \in Sortings(Requests, Older) :
        eventQ = [i \in 1 .. n |->
                    [in |-> arrivalTime[order[i]], kind |-> "arrival", arg |-> order[i]]]
  BY DEF Init
<1>4. n \in Nat /\ IsFiniteSet(Requests) BY ConstantTypes, FS_CardinalityType
<1>5. /\ order \in [1 .. n -> Requests]
      /\ \A i, j \in 1 .. n : i < j => Older(order[i], order[j])
  BY <1>3 DEF Sortings
<1>6. eventQ = [i \in 1 .. n |->
                  [in |-> arrivalTime[order[i]], kind |-> "arrival", arg |-> order[i]]]
  BY <1>3
<1> HIDE DEF n
<1>7. ASSUME NEW i \in 1 .. n
      PROVE  /\ eventQ[i].in = arrivalTime[order[i]] /\ eventQ[i].kind = "arrival"
             /\ eventQ[i].arg = order[i] /\ eventQ[i] \in GoodEvents
             /\ arrivalTime[order[i]] \in Nat /\ order[i] \in Requests
  <2>1. order[i] \in Requests /\ arrivalTime[order[i]] \in Nat
    BY <1>1, <1>5, ConstantTypes
  <2>2. eventQ[i] = [in |-> arrivalTime[order[i]], kind |-> "arrival", arg |-> order[i]]
    BY <1>6
  <2>3. "arrival" \in Kinds BY DEF Kinds, KindPriority
  <2>4. eventQ[i] \in Events BY <2>1, <2>2, <2>3 DEF Events
  <2> QED BY <2>1, <2>2, <2>4 DEF GoodEvents
<1>8. \A i, j \in 1 .. n : i < j => order[i] # order[j]
  BY <1>1, <1>5, OrdersStrict
<1>9. \A i, j \in 1 .. n : order[i] = order[j] => i = j
  <2>1. \A i, j \in 1 .. n : i < j \/ i = j \/ j < i BY <1>4
  <2> QED BY <1>8, <2>1
<1>10. eventQ \in Seq(GoodEvents) /\ Len(eventQ) = n /\ DOMAIN eventQ = 1 .. n
  <2>1. eventQ \in [1 .. n -> GoodEvents]
    <3>1. eventQ = [i \in 1 .. n |-> eventQ[i]] BY <1>6
    <3> QED BY <1>7, <3>1
  <2>2. eventQ \in Seq(GoodEvents) BY <1>4, <2>1, SeqDef
  <2> QED BY <1>4, <2>1, <2>2
<1>11. InOrder(eventQ)
  <2>1. ASSUME NEW i \in 1 .. n, NEW j \in 1 .. n, i < j
        PROVE  NotAfter(eventQ[i], eventQ[j])
    <3>1. Older(order[i], order[j]) BY <1>5, <2>1
    <3>4. /\ arrivalTime[order[i]] \in Nat /\ eventQ[i].kind = "arrival"
          /\ eventQ[i].in = arrivalTime[order[i]]
      BY <1>7
    <3>5. /\ arrivalTime[order[j]] \in Nat /\ eventQ[j].kind = "arrival"
          /\ eventQ[j].in = arrivalTime[order[j]]
      BY <1>7
    <3>2. arrivalTime[order[i]] <= arrivalTime[order[j]]
      <4>1. \/ arrivalTime[order[i]] < arrivalTime[order[j]]
            \/ arrivalTime[order[i]] = arrivalTime[order[j]]
        BY <3>1 DEF Older
      <4>2. arrivalTime[order[i]] \in Nat BY <3>4
      <4>3. arrivalTime[order[j]] \in Nat BY <3>5
      <4> QED BY <4>1, <4>2, <4>3
    <3>3. KindPriority["arrival"] <= KindPriority["arrival"]
      BY DEF KindPriority
    <3>6. eventQ[i].in < eventQ[j].in \/ eventQ[i].in = eventQ[j].in
      BY <3>2, <3>4, <3>5
    <3> QED BY <3>3, <3>4, <3>5, <3>6 DEF NotAfter
  <2> QED BY <1>10, <2>1 DEF InOrder
<1>12. Shapes
  <2>1. clock \in 0 .. Late /\ TotalBlocks \in Nat BY <1>1, ConstantTypes
  <2>2. Heap(eventQ) BY <1>10, <1>11 DEF Heap
  <2>3. metrics \in [completed : Nat, timedOut : Nat, dropped : Nat,
                     kvAllocationFailures : Nat]
    BY <1>2
  <2>7. stepEvent \in BOOLEAN BY <1>1
  <2>8. waitQ \in Seq(Requests) /\ running \in Seq(Requests) /\ resident \in Seq(Adapters)
    BY <1>1, <1>2, EmptySeq
  <2>9. pinCount \in [Adapters -> Int] /\ adapterPinned \in [Requests -> BOOLEAN]
    BY <1>2
  <2>10. state \in [Requests -> {"queued", "running", "completed", "timed_out"}]
    BY <1>1
  <2>4. /\ stepEvent \in BOOLEAN /\ waitQ \in Seq(Requests) /\ running \in Seq(Requests)
        /\ resident \in Seq(Adapters) /\ pinCount \in [Adapters -> Int]
        /\ adapterPinned \in [Requests -> BOOLEAN]
        /\ state \in [Requests -> {"queued", "running", "completed", "timed_out"}]
    BY <2>7, <2>8, <2>9, <2>10
  <2>5. /\ progress \in [Requests -> Nat] /\ numNew \in [Requests -> Nat]
        /\ computed \in [Requests -> Nat] /\ carry \in [Requests -> Nat]
        /\ kvTokens \in [Requests -> Nat]
    BY <1>1
  <2>6. /\ loading \in Adapters \cup {NoAdapter} /\ freeBlocks \in Nat
        /\ pc \in {"idle", "phase1", "preempt", "phase2", "complete"}
        /\ cursor \in Nat /\ want \in Nat /\ budget \in Nat
        /\ preempted \in BOOLEAN /\ advance \in Nat
    BY <1>1, <1>2, <2>1
  <2> QED BY <1>1, <2>1, <2>2, <2>3, <2>4, <2>5, <2>6 DEF Shapes
<1>13. Scan BY <1>2 DEF Scan
<1>14. RangeOf(waitQ) = {} /\ RangeOf(running) = {} /\ RangeOf(resident) = {}
       /\ Distinct(waitQ) /\ Distinct(running) /\ Distinct(resident)
       /\ Len(waitQ) = 0 /\ Len(running) = 0 /\ Len(resident) = 0
  BY <1>1, <1>2 DEF RangeOf, Distinct
<1>15. Pendings
  <2>1. Steps(eventQ) = 0 BY <1>7, <1>10, NumberType DEF Steps, About
  <2>2. ASSUME NEW a \in Adapters PROVE Loads(eventQ, a) = 0
    BY <1>7, <1>10, NumberType DEF Loads, About
  <2> QED BY <1>1, <1>2, <2>1, <2>2, ConstantTypes DEF Pendings, One
<1>16. Places
  <2>1. ASSUME NEW r \in Requests PROVE OnWay(eventQ, r) <= 1
    <3> DEFINE H == Holding(eventQ, {"arrival", "queued"}, {r})
    <3>1. H = {i \in 1 .. n : order[i] = r} BY <1>7, <1>10 DEF Holding, About
    <3> HIDE DEF H
    <3>2. CASE H = {} BY <3>2, FS_EmptySet DEF OnWay, Number, H
    <3>3. CASE H # {}
      <4>1. PICK i \in H : TRUE BY <3>3
      <4>2. H = {i} BY <1>9, <3>1, <4>1
      <4> QED BY <4>2, FS_Singleton DEF OnWay, Number, H
    <3> QED BY <3>2, <3>3
  <2> QED BY <1>1, <1>14, <2>1 DEF Places
<1>17. Deadlines
  <2>1. ASSUME NEW r \in Requests PROVE Timeouts(eventQ, r) = 0
    BY <1>7, <1>10, NumberType DEF Timeouts, About
  <2>2. Due(eventQ, clock) BY <1>7, <1>10 DEF Due
  <2> QED BY <1>14, <2>1, <2>2 DEF Deadlines
<1>18. Counts
  <2>1. In("completed") = {} /\ In("timed_out") = {} BY <1>1 DEF In
  <2>2. Travelling(eventQ) = n
    <3>1. Holding(eventQ, {"arrival", "queued"}, Requests) = 1 .. n
      BY <1>7, <1>10 DEF Holding, About
    <3> QED BY <1>4, <3>1, IntervalCount DEF Travelling, Number
  <2>3. metrics.completed = 0 /\ metrics.timedOut = 0 /\ metrics.dropped = 0
    BY <1>2
  <2>4. Cardinality({}) = 0 BY FS_EmptySet
  <2>5. Ended(metrics) = 0 /\ Present(waitQ, running, eventQ) = n
    BY <1>4, <1>14, <2>2, <2>3 DEF Ended, Present
  <2> QED BY <1>4, <2>1, <2>3, <2>4, <2>5 DEF Counts, n
<1>19. Room
  <2>1. \A r \in Requests : Held(kvTokens)[r] = 0 BY <1>1, BlocksType DEF Held
  <2>2. Units(Held(kvTokens)) = {}
    <3>1. DOMAIN Held(kvTokens) = Requests BY DEF Held
    <3>2. \A r \in Requests : 1 .. Held(kvTokens)[r] = {} BY <2>1
    <3> QED BY <3>1, <3>2 DEF Units
  <2>3. TotalBlocks \in Nat BY ConstantTypes
  <2>4. Cardinality({}) = 0 BY FS_EmptySet
  <2>5. \A r \in Requests : ~(kvTokens[r] > 0) BY <1>1
  <2>6. Cardinality(Units(Held(kvTokens))) = 0 BY <2>2, <2>4
  <2>7. freeBlocks = TotalBlocks BY <1>1
  <2>8. freeBlocks + Cardinality(Units(Held(kvTokens))) = TotalBlocks
    BY <2>3, <2>6, <2>7
  <2> QED BY <2>5, <2>8 DEF Room
<1>20. Slots BY <1>2, <1>14, ConstantTypes DEF Slots, One
<1>21. Pins
  <2>1. ASSUME NEW a \in Adapters PROVE Holders(adapterPinned, a) = {}
    BY <1>2 DEF Holders
  <2>2. Cardinality({}) = 0 BY FS_EmptySet
  <2>3. \A r \in Requests : ~adapterPinned[r] /\ r \notin RangeOf(running)
    BY <1>2, <1>14
  <2>4. ASSUME NEW a \in Adapters
        PROVE  pinCount[a] = Cardinality(Holders(adapterPinned, a)) /\ ~(pinCount[a] > 0)
    <3>1. pinCount[a] = 0 BY <1>2
    <3> QED BY <2>1, <2>2, <3>1
  <2> QED BY <2>3, <2>4 DEF Pins
<1> QED BY <1>12, <1>13, <1>15, <1>16, <1>17, <1>18, <1>19, <1>20, <1>21 DEF EngineInv

------------------------------
(* One action after the other keeps the invariant. *)

(* An arrival on its way becomes a queueing on its way. *)
LEMMA ArriveGood ==
  ASSUME EngineInv, Arrive
  PROVE  EngineInv'
<1>1. Shapes /\ Scan /\ Pendings /\ Places /\ Deadlines /\ Counts /\ Room /\ Slots /\ Pins
  BY DEF EngineInv
<1>2. Dispatch("arrival") /\ clock' = Now BY DEF Arrive, Tick, Now
<1>3. /\ pc = "idle" /\ eventQ # <<>> /\ Head(eventQ).kind = "arrival" /\ Heap(eventQ)
      /\ Heap(Rest) /\ Due(Rest, Now) /\ Now \in 0 .. Late
  BY <1>1, <1>2, Dispatched
<1> DEFINE r == Head(eventQ).arg
<1>4. PICK d \in QueueingTimes : eventQ' = Schedule(Rest, d, "queued", r)
  BY DEF Arrive
<1>5. /\ stepEvent' = stepEvent /\ arrivalTime' = arrivalTime /\ state' = state
      /\ progress' = progress /\ numNew' = numNew /\ computed' = computed
      /\ carry' = carry /\ waitQ' = waitQ /\ running' = running
      /\ kvTokens' = kvTokens /\ freeBlocks' = freeBlocks
      /\ resident' = resident /\ pinCount' = pinCount
      /\ adapterPinned' = adapterPinned /\ loading' = loading /\ metrics' = metrics
      /\ pc' = pc /\ cursor' = cursor /\ want' = want /\ budget' = budget
      /\ preempted' = preempted /\ advance' = advance
  BY DEF Arrive, reqVars, kvVars, loraVars, stepVars
<1>6. /\ r \in Requests /\ Travelling(eventQ) = Travelling(Rest) + 1
      /\ OnWay(eventQ, r) = OnWay(Rest, r) + 1
      /\ \A s \in Requests \ {r} : OnWay(eventQ, s) = OnWay(Rest, s)
      /\ SameSteps(eventQ, Rest) /\ SameLoads(eventQ, Rest) /\ SameTimeouts(eventQ, Rest)
  BY <1>3, PopTravel
<1>7. d \in Nat BY ConstantTypes
<1> HIDE DEF r
<1>8. /\ Heap(eventQ') /\ Travelling(eventQ') = Travelling(Rest) + 1
      /\ OnWay(eventQ', r) = OnWay(Rest, r) + 1
      /\ \A s \in Requests \ {r} : OnWay(eventQ', s) = OnWay(Rest, s)
      /\ SameSteps(Rest, eventQ') /\ SameLoads(Rest, eventQ') /\ SameTimeouts(Rest, eventQ')
      /\ \A now : Due(Rest, now) => Due(eventQ', now)
  BY <1>3, <1>4, <1>6, <1>7, ScheduleQueued
<1>9. SameTravel(eventQ, eventQ') BY <1>6, <1>8 DEF SameTravel
<1>10. SameSteps(eventQ, eventQ') /\ SameLoads(eventQ, eventQ') /\ SameTimeouts(eventQ, eventQ')
  BY <1>6, <1>8 DEF SameSteps, SameLoads, SameTimeouts
<1>11. Due(eventQ', clock') BY <1>2, <1>3, <1>8
<1>12. SameMembers(waitQ, waitQ') /\ SameMembers(running, running')
  BY <1>5, SameSelf
<1>13. Shapes' BY <1>1, <1>2, <1>3, <1>5, <1>8 DEF Shapes
<1>14. Scan' BY <1>1, <1>3, <1>5 DEF Scan
<1>15. Pendings' BY <1>1, <1>5, <1>10, PendingsFrame
<1>16. Places' BY <1>1, <1>5, <1>9, <1>12, PlacesFrame
<1>17. Deadlines' BY <1>1, <1>5, <1>10, <1>11, <1>12, DeadlinesFrame
<1>18. Counts' BY <1>1, <1>5, <1>9, <1>12, CountsFrame
<1>19. Room' BY <1>1, <1>5, <1>12, RoomFrame DEF kvVars
<1>20. Slots' /\ Pins' BY <1>1, <1>5, <1>12, SlotsFrame, PinsFrame
<1> QED BY <1>13, <1>14, <1>15, <1>16, <1>17, <1>18, <1>19, <1>20 DEF EngineInv

(* A handler that ends with ScheduleStepIfIdle leaves no work unattended. *)
LEMMA PendingsWake ==
  ASSUME Pendings, NEW q, NEW w, Heap(q), stepEvent \in BOOLEAN, ScheduleStepIfIdle(q, w),
         pc = "idle", pc' = "idle", SameSteps(eventQ, q),
         \A a \in Adapters : Loads(q, a) = One(loading' = a),
         running' # <<>> => running # <<>>,
         waitQ' # <<>> => w # <<>> \/ (waitQ # <<>> /\ loading' = loading)
  PROVE  Pendings'
<1>1. stepEvent' \in BOOLEAN /\ SameLoads(q, eventQ')
      /\ (stepEvent => stepEvent' /\ Steps(eventQ') = Steps(q))
      /\ (w # <<>> => stepEvent')
      /\ (~stepEvent /\ stepEvent' => Steps(eventQ') = Steps(q) + 1)
      /\ (~stepEvent' => Steps(eventQ') = Steps(q))
  BY StepIfIdle
<1>2. /\ Steps(eventQ) = One(pc = "idle" /\ stepEvent)
      /\ running # <<>> => stepEvent
      /\ waitQ # <<>> => stepEvent \/ loading # NoAdapter
  BY DEF Pendings
<1>3. Steps(q) = IF stepEvent THEN 1 ELSE 0 BY <1>2 DEF SameSteps, One
<1>4. Steps(eventQ') = IF stepEvent' THEN 1 ELSE 0 BY <1>1, <1>3
<1>5. \A a \in Adapters : Loads(eventQ', a) = One(loading' = a)
  BY <1>1 DEF SameLoads
<1>6. (running' # <<>> => stepEvent') /\ (waitQ' # <<>> => stepEvent' \/ loading' # NoAdapter)
  BY <1>1, <1>2
<1> QED BY <1>4, <1>5, <1>6 DEF Pendings, One

(* The terms of the count, and their sum when a step moves a request. *)
LEMMA CountTypes ==
  ASSUME Shapes
  PROVE  /\ metrics.completed \in Nat /\ metrics.timedOut \in Nat /\ metrics.dropped \in Nat
         /\ Len(waitQ) \in Nat /\ Len(running) \in Nat /\ Travelling(eventQ) \in Nat
         /\ Ended(metrics) \in Nat /\ Present(waitQ, running, eventQ) \in Nat
<1>1. /\ metrics \in [completed : Nat, timedOut : Nat, dropped : Nat,
                      kvAllocationFailures : Nat]
      /\ waitQ \in Seq(Requests) /\ running \in Seq(Requests) /\ Heap(eventQ)
  BY DEF Shapes
<1>2. Travelling(eventQ) \in Nat BY <1>1, NumbersType
<1>3. metrics.completed \in Nat /\ metrics.timedOut \in Nat /\ metrics.dropped \in Nat
  BY <1>1
<1>4. Len(waitQ) \in Nat /\ Len(running) \in Nat BY <1>1, LenProperties
<1>5. Ended(metrics) \in Nat BY <1>3 DEF Ended
<1>6. Present(waitQ, running, eventQ) \in Nat BY <1>2, <1>4 DEF Present
<1> QED BY <1>2, <1>3, <1>4, <1>5, <1>6

(* A request that leaves one place is counted at the next. *)
LEMMA CountsMove ==
  ASSUME Counts,
         metrics'.completed = Cardinality(In("completed")'),
         metrics'.timedOut = Cardinality(In("timed_out")'),
         Ended(metrics') + Present(waitQ', running', eventQ')
           = Ended(metrics) + Present(waitQ, running, eventQ)
  PROVE  Counts'
BY DEF Counts

(* EnqueueRequest: whichever guard decides, the request is dropped, timed  *)
(* out or waits, with its deadline armed.                                  *)
LEMMA EnqueueGood ==
  ASSUME EngineInv, Enqueue
  PROVE  EngineInv'
<1>1. Shapes /\ Scan /\ Pendings /\ Places /\ Deadlines /\ Counts /\ Room /\ Slots /\ Pins
  BY DEF EngineInv
<1>2. Dispatch("queued") /\ clock' = Now BY DEF Enqueue, Tick, Now
<1>3. /\ pc = "idle" /\ eventQ # <<>> /\ Head(eventQ).kind = "queued" /\ Heap(eventQ)
      /\ Heap(Rest) /\ Due(Rest, Now) /\ Now \in 0 .. Late /\ Now \in Nat
      /\ arrivalTime \in [Requests -> ArrivalTimes]
  BY <1>1, <1>2, Dispatched
<1> DEFINE r == Head(eventQ).arg
<1>4. /\ arrivalTime' = arrivalTime
      /\ progress' = progress /\ numNew' = numNew /\ computed' = computed
      /\ carry' = carry /\ running' = running
      /\ kvTokens' = kvTokens /\ freeBlocks' = freeBlocks
      /\ resident' = resident /\ pinCount' = pinCount
      /\ adapterPinned' = adapterPinned /\ loading' = loading
      /\ pc' = pc /\ cursor' = cursor /\ want' = want /\ budget' = budget
      /\ preempted' = preempted /\ advance' = advance
  BY DEF Enqueue, kvVars, loraVars, stepVars
<1>5. \/ /\ metrics' = [metrics EXCEPT !.dropped = @ + 1]
         /\ ScheduleStepIfIdle(Rest, waitQ) /\ state' = state /\ waitQ' = waitQ
      \/ /\ metrics' = [metrics EXCEPT !.timedOut = @ + 1]
         /\ state' = [state EXCEPT ![r] = "timed_out"]
         /\ ScheduleStepIfIdle(Rest, waitQ) /\ waitQ' = waitQ
      \/ /\ ~PastDue(r) /\ waitQ' = Append(waitQ, r)
         /\ ScheduleStepIfIdle(ArmTimeout(Rest, r), waitQ')
         /\ state' = state /\ metrics' = metrics
  BY DEF Enqueue
<1>6. /\ r \in Requests /\ Travelling(eventQ) = Travelling(Rest) + 1
      /\ OnWay(eventQ, r) = OnWay(Rest, r) + 1
      /\ \A s \in Requests \ {r} : OnWay(eventQ, s) = OnWay(Rest, s)
      /\ SameSteps(eventQ, Rest) /\ SameLoads(eventQ, Rest) /\ SameTimeouts(eventQ, Rest)
  BY <1>3, PopTravel
<1> HIDE DEF r
<1>7. /\ Travelling(Rest) \in Nat
      /\ \A s \in Requests : OnWay(Rest, s) \in Nat /\ Timeouts(Rest, s) \in Nat
  BY <1>3, NumbersType
<1>8. /\ stepEvent \in BOOLEAN
      /\ state \in [Requests -> {"queued", "running", "completed", "timed_out"}]
      /\ waitQ \in Seq(Requests) /\ running \in Seq(Requests)
      /\ metrics \in [completed : Nat, timedOut : Nat, dropped : Nat,
                      kvAllocationFailures : Nat]
  BY <1>1 DEF Shapes
<1>9. /\ OnWay(Rest, r) = 0 /\ state[r] = "queued" /\ r \notin RangeOf(waitQ)
      /\ r \notin RangeOf(running)
  <2>1. OnWay(eventQ, r) > 0 BY <1>6, <1>7
  <2>2. OnWay(eventQ, r) <= 1 /\ state[r] = "queued" /\ r \notin RangeOf(waitQ)
        /\ (r \in RangeOf(running) => state[r] = "running")
    BY <1>1, <1>6, <2>1 DEF Places
  <2> QED BY <1>6, <1>7, <2>2
<1>10. Timeouts(Rest, r) = 0
  <2>1. Timeouts(eventQ, r) = Timeouts(Rest, r) BY <1>6 DEF SameTimeouts
  <2>2. ~(Timeouts(eventQ, r) > 0) BY <1>1, <1>6, <1>9 DEF Deadlines
  <2> QED BY <1>6, <1>7, <2>1, <2>2
<1>11. \A a \in Adapters : Loads(Rest, a) = One(loading' = a)
  BY <1>1, <1>4, <1>6 DEF Pendings, SameLoads
<1>12. Distinct(waitQ) /\ Distinct(running) BY <1>1 DEF Places
<1>13. SameMembers(running, running') BY <1>4, SameSelf
<1>14. Scan' BY <1>1, <1>3, <1>4 DEF Scan
<1>15. Room' BY <1>1, <1>4, <1>13, RoomFrame DEF kvVars
<1>16. Slots' BY <1>1, <1>4, SlotsFrame
<1>21. /\ metrics.completed \in Nat /\ metrics.timedOut \in Nat /\ metrics.dropped \in Nat
       /\ Len(waitQ) \in Nat /\ Len(running) \in Nat /\ Travelling(eventQ) \in Nat
       /\ Ended(metrics) \in Nat
  BY <1>1, CountTypes
<1>22. Travelling(eventQ) = Travelling(Rest) + 1 /\ Travelling(Rest) \in Nat
  BY <1>6, <1>7
<1> DEFINE Ends == /\ metrics' \in [completed : Nat, timedOut : Nat, dropped : Nat,
                                    kvAllocationFailures : Nat]
                   /\ ScheduleStepIfIdle(Rest, waitQ) /\ waitQ' = waitQ
                   /\ state' \in [Requests -> {"queued", "running", "completed", "timed_out"}]
                   /\ \A s \in Requests \ {r} : state'[s] = state[s]
                   /\ state'[r] \in {"queued", "timed_out"}
<1>17. ASSUME Ends
       PROVE  /\ Shapes' /\ Pendings' /\ Places' /\ Deadlines' /\ Pins'
              /\ SameTravel(Rest, eventQ')
  <2>1. SameMembers(waitQ, waitQ') BY <1>17, SameSelf
  <2>2. /\ Heap(eventQ') /\ stepEvent' \in BOOLEAN /\ SameTravel(Rest, eventQ')
        /\ SameTimeouts(Rest, eventQ') /\ Due(eventQ', Now)
    BY SMTT(60), <1>3, <1>8, <1>17, StepIfIdle
  <2>3. Shapes' BY <1>1, <1>2, <1>3, <1>4, <1>17, <2>2 DEF Shapes
  <2>4. Pendings' BY <1>1, <1>3, <1>4, <1>6, <1>8, <1>11, <1>17, PendingsWake
  <2>5. Places'
    <3>1. ASSUME NEW s \in Requests, s # r
          PROVE  OnWay(eventQ', s) = OnWay(eventQ, s) /\ state'[s] = state[s]
      BY <1>6, <1>17, <2>2, <3>1 DEF SameTravel
    <3>2. OnWay(eventQ', r) = 0 BY <1>6, <1>9, <2>2 DEF SameTravel
    <3> QED BY <1>1, <1>4, <1>9, <1>17, <3>1, <3>2 DEF Places
  <2>6. Deadlines'
    <3>1. Due(eventQ', clock') BY <1>2, <2>2
    <3>2. Due(eventQ, clock)' BY <1>4, <3>1 DEF Due, Deadline
    <3>3. \A s \in Requests : Timeouts(eventQ', s) = Timeouts(eventQ, s)
      BY <1>6, <2>2 DEF SameTimeouts
    <3>4. \A s \in Requests \ {r} : state'[s] = state[s] BY <1>17
    <3>5. Timeouts(eventQ', r) = 0 BY <1>6, <1>10, <2>2 DEF SameTimeouts
    <3> QED BY <1>1, <1>4, <1>9, <1>17, <3>2, <3>3, <3>4, <3>5 DEF Deadlines
  <2>7. Pins' BY <1>1, <1>4, <1>13, <2>1, PinsFrame
  <2> QED BY <2>2, <2>3, <2>4, <2>5, <2>6, <2>7
<1>18. CASE /\ metrics' = [metrics EXCEPT !.dropped = @ + 1]
            /\ ScheduleStepIfIdle(Rest, waitQ) /\ state' = state /\ waitQ' = waitQ
  <2>1. /\ metrics'.completed = metrics.completed /\ metrics'.timedOut = metrics.timedOut
        /\ metrics'.dropped = metrics.dropped + 1
        /\ metrics.completed \in Nat /\ metrics.timedOut \in Nat /\ metrics.dropped \in Nat
        /\ metrics' \in [completed : Nat, timedOut : Nat, dropped : Nat,
                         kvAllocationFailures : Nat]
    BY <1>8, <1>18, SMTT(40)
  <2>2. Ends BY <1>8, <1>9, <1>18, <2>1
  <2>3. Travelling(eventQ') = Travelling(Rest) BY <1>17, <2>2 DEF SameTravel
  <2>4. metrics.completed = Cardinality(In("completed"))
        /\ metrics.timedOut = Cardinality(In("timed_out"))
    BY <1>1 DEF Counts
  <2>6. metrics'.completed = Cardinality(In("completed")')
        /\ metrics'.timedOut = Cardinality(In("timed_out")')
    BY <1>18, <2>1, <2>4 DEF In
  <2>7. Len(waitQ') = Len(waitQ) /\ Len(running') = Len(running) BY <1>4, <1>18
  <2>8. Ended(metrics') = Ended(metrics) + 1 BY <2>1 DEF Ended
  <2>9. Present(waitQ', running', eventQ') + 1 = Present(waitQ, running, eventQ)
    BY <1>21, <1>22, <2>3, <2>7 DEF Present
  <2>10. Present(waitQ', running', eventQ') \in Nat
    BY <1>21, <1>22, <2>3, <2>7 DEF Present
  <2>11. Ended(metrics') + Present(waitQ', running', eventQ')
           = Ended(metrics) + Present(waitQ, running, eventQ)
    BY <1>21, <2>8, <2>9, <2>10
  <2>5. Counts' BY <1>1, <2>6, <2>11, CountsMove
  <2> QED BY <1>14, <1>15, <1>16, <1>17, <2>2, <2>5 DEF EngineInv
<1>19. CASE /\ metrics' = [metrics EXCEPT !.timedOut = @ + 1]
            /\ state' = [state EXCEPT ![r] = "timed_out"]
            /\ ScheduleStepIfIdle(Rest, waitQ) /\ waitQ' = waitQ
  <2>1. /\ metrics'.completed = metrics.completed /\ metrics'.timedOut = metrics.timedOut + 1
        /\ metrics'.dropped = metrics.dropped
        /\ metrics.completed \in Nat /\ metrics.timedOut \in Nat /\ metrics.dropped \in Nat
        /\ metrics' \in [completed : Nat, timedOut : Nat, dropped : Nat,
                         kvAllocationFailures : Nat]
    BY SMTT(60), <1>8, <1>19
  <2>2. /\ state'[r] = "timed_out" /\ \A s \in Requests \ {r} : state'[s] = state[s]
        /\ state' \in [Requests -> {"queued", "running", "completed", "timed_out"}]
    BY <1>6, <1>8, <1>19
  <2>3. Ends BY <1>19, <2>1, <2>2
  <2>4. Travelling(eventQ') = Travelling(Rest) BY <1>17, <2>3 DEF SameTravel
  <2>5. Len(waitQ') = Len(waitQ) /\ Len(running') = Len(running) BY <1>4, <1>19
  <2>6. In("completed")' = In("completed") /\ In("timed_out")' = In("timed_out") \cup {r}
    BY <1>6, <1>9, <2>2 DEF In
  <2>7. In("timed_out") \in SUBSET Requests /\ r \notin In("timed_out")
    BY <1>9 DEF In
  <2>8. Cardinality(In("timed_out")') = Cardinality(In("timed_out")) + 1
    BY <1>6, <2>6, <2>7, RequestsAdd
  <2>10. metrics.completed = Cardinality(In("completed"))
         /\ metrics.timedOut = Cardinality(In("timed_out"))
    BY <1>1 DEF Counts
  <2>11. metrics'.completed = Cardinality(In("completed")')
         /\ metrics'.timedOut = Cardinality(In("timed_out")')
    BY <2>1, <2>6, <2>8, <2>10
  <2>13. Ended(metrics') = Ended(metrics) + 1 BY <2>1 DEF Ended
  <2>14. Present(waitQ', running', eventQ') + 1 = Present(waitQ, running, eventQ)
    BY <1>21, <1>22, <2>4, <2>5 DEF Present
  <2>15. Present(waitQ', running', eventQ') \in Nat
    BY <1>21, <1>22, <2>4, <2>5 DEF Present
  <2>12. Ended(metrics') + Present(waitQ', running', eventQ')
           = Ended(metrics) + Present(waitQ, running, eventQ)
    BY <1>21, <2>13, <2>14, <2>15
  <2>9. Counts' BY <1>1, <2>11, <2>12, CountsMove
  <2> QED BY <1>14, <1>15, <1>16, <1>17, <2>3, <2>9 DEF EngineInv
<1> HIDE DEF Ends
<1>20. CASE /\ ~PastDue(r) /\ waitQ' = Append(waitQ, r)
            /\ ScheduleStepIfIdle(ArmTimeout(Rest, r), waitQ')
            /\ state' = state /\ metrics' = metrics
  <2> DEFINE q == ArmTimeout(Rest, r)
  <2>1. /\ Heap(q) /\ Due(q, Now) /\ SameTravel(Rest, q)
        /\ SameSteps(Rest, q) /\ SameLoads(Rest, q)
    BY <1>3, <1>6, <1>20, ArmedTimeout
  <2>2. /\ \A s \in Requests \ {r} : Timeouts(q, s) = Timeouts(Rest, s)
        /\ Timeout[r] = 0 => Timeouts(q, r) = Timeouts(Rest, r)
        /\ Timeout[r] > 0 => Timeouts(q, r) = Timeouts(Rest, r) + 1
    BY <1>3, <1>6, <1>20, ArmedTimeout
  <2>3. ScheduleStepIfIdle(q, waitQ') BY <1>20
  <2> HIDE DEF q
  <2>4. /\ Heap(eventQ') /\ stepEvent' \in BOOLEAN /\ SameTravel(q, eventQ')
        /\ SameTimeouts(q, eventQ') /\ Due(eventQ', Now)
    BY <1>8, <2>1, <2>3, StepIfIdle
  <2>5. /\ waitQ' \in Seq(Requests) /\ Len(waitQ) \in Nat /\ Len(waitQ') = Len(waitQ) + 1
        /\ RangeOf(waitQ') = RangeOf(waitQ) \cup {r} /\ Distinct(waitQ')
    BY <1>6, <1>8, <1>9, <1>12, <1>20, AppendShape
  <2>6. /\ Travelling(eventQ') = Travelling(Rest)
        /\ \A s \in Requests : OnWay(eventQ', s) = OnWay(Rest, s)
    BY <2>1, <2>4 DEF SameTravel
  <2>7. Shapes' BY <1>1, <1>2, <1>3, <1>4, <1>20, <2>4, <2>5 DEF Shapes
  <2>8. Pendings'
    <3>1. SameSteps(eventQ, q) /\ \A a \in Adapters : Loads(q, a) = One(loading' = a)
      BY <1>6, <1>11, <2>1 DEF SameSteps, SameLoads
    <3> QED BY <1>1, <1>3, <1>4, <1>8, <2>1, <2>3, <3>1, PendingsWake
  <2>9. Places'
    <3>1. \A s \in Requests : OnWay(eventQ', s) <= 1
      BY <1>1, <1>6, <1>9, <2>6 DEF Places
    <3>2. \A s \in Requests \ {r} : OnWay(eventQ', s) = OnWay(eventQ, s)
      BY <1>6, <2>6
    <3>3. OnWay(eventQ', r) = 0 BY <1>6, <1>9, <2>6
    <3> QED BY <1>1, <1>4, <1>9, <1>20, <2>5, <3>1, <3>2, <3>3 DEF Places
  <2>10. Deadlines'
    <3>1. Due(eventQ', clock') BY <1>2, <2>4
    <3>2. Due(eventQ, clock)' BY <1>4, <3>1 DEF Due, Deadline
    <3>3. \A s \in Requests \ {r} : Timeouts(eventQ', s) = Timeouts(eventQ, s)
      BY <1>6, <2>2, <2>4 DEF SameTimeouts
    <3>4. Timeouts(eventQ', r) = Timeouts(q, r) BY <1>6, <2>4 DEF SameTimeouts
    <3>5. Timeouts(eventQ', r) <= 1 /\ (Timeout[r] > 0 => Timeouts(eventQ', r) > 0)
      BY <1>6, <1>10, <2>2, <3>4, ConstantTypes
    <3> QED BY <1>1, <1>4, <1>20, <2>5, <3>2, <3>3, <3>5 DEF Deadlines
  <2>11. Counts'
    <3>1. metrics.completed = Cardinality(In("completed"))
          /\ metrics.timedOut = Cardinality(In("timed_out"))
      BY <1>1 DEF Counts
    <3>2. metrics'.completed = Cardinality(In("completed")')
          /\ metrics'.timedOut = Cardinality(In("timed_out")')
      BY <1>20, <3>1 DEF In
    <3>3. Len(running') = Len(running) /\ metrics' = metrics BY <1>4, <1>20
    <3>4. Present(waitQ', running', eventQ') = Present(waitQ, running, eventQ)
      <4>1. Len(waitQ') = Len(waitQ) + 1 BY <2>5
      <4>2. Travelling(eventQ') = Travelling(Rest) BY <2>6
      <4> QED BY <1>21, <1>22, <3>3, <4>1, <4>2 DEF Present
    <3> QED BY <1>1, <3>2, <3>3, <3>4, CountsMove
  <2>12. Pins'
    <3>1. \A s \in RangeOf(waitQ) : s \in RangeOf(waitQ') BY <2>5
    <3> QED BY <1>1, <1>4, <3>1 DEF Pins, Holders
  <2> QED BY <1>14, <1>15, <1>16, <2>7, <2>8, <2>9, <2>10, <2>11, <2>12 DEF EngineInv
<1> QED BY <1>5, <1>18, <1>19, <1>20

(* EvictLRU frees a slot and never takes a pinned adapter's. *)
LEMMA EvictShape ==
  ASSUME resident \in Seq(Adapters), Distinct(resident)
  PROVE  /\ EvictLRU \in Seq(Adapters) /\ Distinct(EvictLRU)
         /\ RangeOf(EvictLRU) \subseteq RangeOf(resident)
         /\ Len(resident) \in Nat
         /\ Unpinned # {} => Len(EvictLRU) = Len(resident) - 1
         /\ Unpinned = {} => EvictLRU = resident
         /\ \A a \in RangeOf(resident) : pinCount[a] # 0 => a \in RangeOf(EvictLRU)
<1>1. CASE Unpinned = {} BY <1>1 DEF EvictLRU
<1>2. CASE Unpinned # {}
  <2> DEFINE k == Min(Unpinned)
  <2>1. Unpinned \subseteq Nat /\ Unpinned \subseteq 1 .. Len(resident)
    BY DEF Unpinned
  <2>2. k \in Unpinned BY <1>2, <2>1, MinIsLeast
  <2>3. k \in 1 .. Len(resident) /\ pinCount[resident[k]] = 0
    BY <2>2 DEF Unpinned
  <2>4. EvictLRU = RemoveIndex(resident, k) BY <1>2 DEF EvictLRU
  <2> HIDE DEF k
  <2>5. /\ EvictLRU \in Seq(Adapters) /\ Len(EvictLRU) = Len(resident) - 1
        /\ Distinct(EvictLRU) /\ RangeOf(EvictLRU) = RangeOf(resident) \ {resident[k]}
    BY <2>3, <2>4, RemoveIndexShape, SMTT(40)
  <2> QED BY <1>2, <2>3, <2>5
<1> QED BY <1>1, <1>2

(* maybeStartAdapterLoad(q, queue): if a load starts its event is pending  *)
(* and its slot is free, and no pinned adapter has gone for it.            *)
LEMMA LoadStarts ==
  ASSUME Shapes, Slots, NEW q, Heap(q), NEW queue \in Seq(Requests),
         \A a \in Adapters : Loads(q, a) = One(loading = a),
         MaybeStartAdapterLoad(q, queue)
  PROVE  /\ Heap(eventQ') /\ SameTravel(q, eventQ') /\ SameSteps(q, eventQ')
         /\ SameTimeouts(q, eventQ') /\ \A now : Due(q, now) => Due(eventQ', now)
         /\ resident' \in Seq(Adapters) /\ loading' \in Adapters \cup {NoAdapter}
         /\ Slots'
         /\ \A a \in Adapters : Loads(eventQ', a) = One(loading' = a)
         /\ \A a \in RangeOf(resident) : pinCount[a] # 0 => a \in RangeOf(resident')
<1>1. /\ resident \in Seq(Adapters) /\ loading \in Adapters \cup {NoAdapter}
      /\ Len(resident) \in Nat
  BY DEF Shapes
<1>2. /\ Distinct(resident) /\ loading \notin RangeOf(resident)
      /\ Len(resident) + One(loading # NoAdapter) <= AdapterCapacity
      /\ AdapterCapacity \in Nat
  BY ConstantTypes DEF Slots
<1> DEFINE a == IF queue = <<>> THEN NoAdapter ELSE Adapter[Head(queue)]
<1>3. a \in Adapters \cup {NoAdapter}
  <2>1. queue # <<>> => Head(queue) \in Requests BY TailShape
  <2> QED BY <2>1, ConstantTypes
<1>4. CASE /\ loading = NoAdapter /\ a # NoAdapter /\ ~IsResident(a)
           /\ Len(resident) >= AdapterCapacity => Unpinned # {}
  <2>1. /\ loading' = a
        /\ resident' = IF Len(resident) >= AdapterCapacity THEN EvictLRU ELSE resident
        /\ \E d \in LoadTimes : eventQ' = Schedule(q, d, "load", a)
    BY <1>4 DEF MaybeStartAdapterLoad
  <2>2. a \in Adapters /\ loading' \in Adapters BY <1>3, <1>4, <2>1
  <2>3. PICK d \in LoadTimes : eventQ' = Schedule(q, d, "load", a) BY <2>1
  <2>4. ~IsResident(a) /\ loading' = a
        /\ resident' = IF Len(resident) >= AdapterCapacity THEN EvictLRU ELSE resident
    BY <1>4, <2>1
  <2>5. Len(resident) >= AdapterCapacity => Unpinned # {} BY <1>4
  <2> HIDE DEF a
  <2>6. d \in Nat BY ConstantTypes
  <2>7. Heap(eventQ') /\ SameTravel(q, eventQ') /\ SameSteps(q, eventQ')
    BY <2>2, <2>3, <2>6, ScheduleLoad
  <2>8. SameTimeouts(q, eventQ') /\ \A now : Due(q, now) => Due(eventQ', now)
    BY <2>2, <2>3, <2>6, ScheduleLoad
  <2>9. /\ Loads(eventQ', a) = Loads(q, a) + 1
        /\ \A b \in Adapters \ {a} : Loads(eventQ', b) = Loads(q, b)
    BY <2>2, <2>3, <2>6, ScheduleLoad
  <2>10. /\ resident' \in Seq(Adapters) /\ Distinct(resident')
         /\ RangeOf(resident') \subseteq RangeOf(resident)
         /\ \A b \in RangeOf(resident) : pinCount[b] # 0 => b \in RangeOf(resident')
    BY <1>1, <1>2, <2>4, EvictShape
  <2>11. Len(resident') + 1 <= AdapterCapacity
    <3>1. CASE Len(resident) >= AdapterCapacity
      <4>1. Len(resident') = Len(resident) - 1
        BY <1>1, <1>2, <2>4, <2>5, <3>1, EvictShape
      <4>2. Len(resident) <= AdapterCapacity BY <1>1, <1>2, <1>4 DEF One
      <4> QED BY <1>1, <1>2, <4>1, <4>2
    <3>2. CASE ~(Len(resident) >= AdapterCapacity) BY <1>1, <1>2, <2>4, <3>2
    <3> QED BY <3>1, <3>2
  <2>12. loading' \notin RangeOf(resident') BY <2>4, <2>10 DEF IsResident
  <2>13. Slots' BY <2>2, <2>10, <2>11, <2>12, ConstantTypes DEF Slots, One
  <2>14. ASSUME NEW b \in Adapters PROVE Loads(eventQ', b) = One(loading' = b)
    <3>1. Loads(q, b) = One(loading = b) OBVIOUS
    <3>2. loading # b BY <1>4, ConstantTypes
    <3>3. Loads(q, b) = 0 BY <3>1, <3>2 DEF One
    <3>4. CASE b = a BY <2>4, <2>9, <3>3, <3>4 DEF One
    <3>5. CASE b # a BY <2>4, <2>9, <3>3, <3>5 DEF One
    <3> QED BY <3>4, <3>5
  <2> QED BY <2>2, <2>7, <2>8, <2>10, <2>13, <2>14
<1>5. CASE ~(/\ loading = NoAdapter /\ a # NoAdapter /\ ~IsResident(a)
             /\ Len(resident) >= AdapterCapacity => Unpinned # {})
  <2>1. loading' = loading /\ resident' = resident /\ eventQ' = q
    BY <1>5 DEF MaybeStartAdapterLoad
  <2>2. Slots' BY <2>1, SlotsFrame
  <2>3. SameTravel(q, eventQ') /\ SameSteps(q, eventQ') /\ SameTimeouts(q, eventQ')
    BY <2>1, SameSelf
  <2> QED BY <1>1, <2>1, <2>2, <2>3
<1> QED BY <1>4, <1>5

(* A step begins, or finds nothing to do and leaves the instance asleep. *)
LEMMA StartStepGood ==
  ASSUME EngineInv, StartStep
  PROVE  EngineInv'
<1>1. Shapes /\ Scan /\ Pendings /\ Places /\ Deadlines /\ Counts /\ Room /\ Slots /\ Pins
  BY DEF EngineInv
<1>2. Dispatch("step") /\ clock' = Now BY DEF StartStep, Tick, Now
<1>3. /\ pc = "idle" /\ eventQ # <<>> /\ Head(eventQ).kind = "step" /\ Heap(eventQ)
      /\ Heap(Rest) /\ Due(Rest, Now) /\ Now \in 0 .. Late /\ Now \in Nat
      /\ arrivalTime \in [Requests -> ArrivalTimes]
  BY <1>1, <1>2, Dispatched
<1>4. /\ arrivalTime' = arrivalTime /\ state' = state
      /\ progress' = progress /\ computed' = computed
      /\ carry' = carry /\ running' = running
      /\ kvTokens' = kvTokens /\ freeBlocks' = freeBlocks /\ pinCount' = pinCount
      /\ adapterPinned' = adapterPinned /\ metrics' = metrics
  BY DEF StartStep, kvVars
<1>5. /\ Steps(eventQ) = Steps(Rest) + 1 /\ SameTravel(eventQ, Rest)
      /\ SameLoads(eventQ, Rest) /\ SameTimeouts(eventQ, Rest)
  BY <1>3, PopStep
<1>6. stepEvent = TRUE /\ Steps(Rest) = 0
  <2>1. Steps(Rest) \in Nat /\ stepEvent \in BOOLEAN
    BY <1>1, <1>3, NumbersType DEF Shapes
  <2>2. Steps(eventQ) = One(pc = "idle" /\ stepEvent) BY <1>1 DEF Pendings
  <2> QED BY <1>3, <1>5, <2>1, <2>2 DEF One
<1>7. \A a \in Adapters : Loads(Rest, a) = One(loading = a)
  BY <1>1, <1>5 DEF Pendings, SameLoads
<1>8. SameMembers(running, running') /\ Distinct(waitQ) /\ waitQ \in Seq(Requests)
  BY <1>1, <1>4, SameSelf DEF Places, Shapes
<1>9. Room' BY <1>1, <1>4, <1>8, RoomFrame DEF kvVars
<1>10. CASE running = <<>> /\ waitQ = <<>>
  <2>1. /\ stepEvent' = FALSE /\ eventQ' = Rest
        /\ waitQ' = waitQ /\ numNew' = numNew /\ loading' = loading /\ resident' = resident
        /\ pc' = pc /\ cursor' = cursor /\ want' = want /\ budget' = budget
        /\ preempted' = preempted /\ advance' = advance
    BY <1>10 DEF StartStep, stepVars
  <2>2. SameMembers(waitQ, waitQ') BY <2>1, SameSelf
  <2>3. SameTravel(eventQ, eventQ') /\ SameTimeouts(eventQ, eventQ') /\ Due(eventQ', clock')
    BY <1>2, <1>3, <1>5, <2>1
  <2>4. Shapes' BY <1>1, <1>2, <1>3, <1>4, <2>1 DEF Shapes
  <2>5. Scan' BY <1>1, <1>3, <2>1 DEF Scan
  <2>6. Pendings' BY <1>3, <1>4, <1>6, <1>7, <1>10, <2>1 DEF Pendings, One
  <2>7. Places' /\ Deadlines' /\ Counts'
    BY <1>1, <1>4, <1>8, <2>2, <2>3, PlacesFrame, DeadlinesFrame, CountsFrame
  <2>8. Slots' BY <1>1, <2>1, SlotsFrame
  <2>9. RangeOf(resident) \subseteq RangeOf(resident') BY <2>1
  <2>10. Pins' BY <1>1, <1>4, <1>8, <2>2, <2>9, PinsFrame
  <2> QED BY <1>9, <2>4, <2>5, <2>6, <2>7, <2>8, <2>10 DEF EngineInv
<1>11. CASE ~(running = <<>> /\ waitQ = <<>>)
  <2>1. /\ waitQ' \in OrderQueue(waitQ) /\ MaybeStartAdapterLoad(Rest, waitQ')
        /\ numNew' = [r \in Requests |-> IF r \in RangeOf(running) THEN 0 ELSE numNew[r]]
        /\ pc' = "phase1" /\ cursor' = 1 /\ budget' = MaxNumBatchedTokens
        /\ preempted' = FALSE /\ stepEvent' = stepEvent /\ want' = want
        /\ advance' = advance
    BY <1>11 DEF StartStep
  <2>2. /\ waitQ' \in Seq(Requests) /\ Len(waitQ') = Len(waitQ)
        /\ Distinct(waitQ') /\ RangeOf(waitQ') = RangeOf(waitQ)
        /\ waitQ' = <<>> <=> waitQ = <<>>
    BY <1>3, <1>8, <2>1, OrderQueueShape
  <2>3. SameMembers(waitQ, waitQ') BY <2>2 DEF SameMembers
  <2>4. /\ Heap(eventQ') /\ SameTravel(Rest, eventQ') /\ SameSteps(Rest, eventQ')
        /\ SameTimeouts(Rest, eventQ') /\ Due(eventQ', Now)
    BY <1>1, <1>3, <1>7, <2>1, <2>2, LoadStarts
  <2>5. /\ resident' \in Seq(Adapters) /\ loading' \in Adapters \cup {NoAdapter} /\ Slots'
    BY <1>1, <1>3, <1>7, <2>1, <2>2, LoadStarts
  <2>6. \A a \in Adapters : Loads(eventQ', a) = One(loading' = a)
    BY <1>1, <1>3, <1>7, <2>1, <2>2, LoadStarts
  <2>7. \A a \in RangeOf(resident) : pinCount[a] # 0 => a \in RangeOf(resident')
    BY <1>1, <1>3, <1>7, <2>1, <2>2, LoadStarts
  <2>8. SameTravel(eventQ, eventQ') /\ SameTimeouts(eventQ, eventQ') /\ Due(eventQ', clock')
    BY <1>2, <1>5, <2>4 DEF SameTravel, SameTimeouts
  <2>9. Shapes'
    <3>1. numNew' \in [Requests -> Nat] BY <1>1, <2>1 DEF Shapes
    <3>2. budget' \in Nat BY <2>1, ConstantTypes
    <3> QED BY <1>1, <1>2, <1>3, <1>4, <2>1, <2>2, <2>4, <2>5, <3>1, <3>2 DEF Shapes
  <2>10. Scan' BY <2>1 DEF Scan
  <2>11. Pendings'
    <3>1. Steps(eventQ') = 0 BY <1>6, <2>4 DEF SameSteps
    <3> QED BY <1>6, <2>1, <2>6, <3>1 DEF Pendings, One
  <2>12. Places' /\ Deadlines' /\ Counts'
    BY <1>1, <1>4, <1>8, <2>3, <2>8, PlacesFrame, DeadlinesFrame, CountsFrame
  <2>13. Pins'
    <3>1. \A a \in Adapters : pinCount[a] > 0 => a \in RangeOf(resident')
      <4>1. ASSUME NEW a \in Adapters, pinCount[a] > 0 PROVE a \in RangeOf(resident')
        <5>1. a \in RangeOf(resident) BY <1>1, <4>1 DEF Pins
        <5>2. pinCount[a] # 0 BY <4>1
        <5> QED BY <2>7, <5>1, <5>2
      <4> QED BY <4>1
    <3> QED BY <1>1, <1>4, <2>2, <3>1 DEF Pins, Holders
  <2> QED BY <1>9, <2>5, <2>9, <2>10, <2>11, <2>12, <2>13 DEF EngineInv
<1> QED BY <1>10, <1>11

(* One request's blocks change: the units of all the others stay. *)
LEMMA HeldChange ==
  ASSUME kvTokens \in [Requests -> Nat], NEW r \in Requests, NEW t \in [Requests -> Nat],
         \A s \in Requests \ {r} : t[s] = kvTokens[s]
  PROVE  /\ Cardinality(Units(Held(kvTokens))) \in Nat
         /\ Cardinality(Units(Held(t))) \in Nat
         /\ Blocks(kvTokens[r]) \in Nat /\ Blocks(t[r]) \in Nat
         /\ Blocks(kvTokens[r]) <= Cardinality(Units(Held(kvTokens)))
         /\ Cardinality(Units(Held(t)))
              = (Cardinality(Units(Held(kvTokens))) - Blocks(kvTokens[r])) + Blocks(t[r])
<1> DEFINE f == Held(kvTokens)
           g == Held(t)
<1>1. /\ f \in [Requests -> Nat] /\ g \in [Requests -> Nat]
      /\ f[r] = Blocks(kvTokens[r]) /\ g[r] = Blocks(t[r])
      /\ \A s \in Requests \ {r} : g[s] = f[s]
  BY BlocksType DEF Held
<1>2. IsFiniteSet(Requests) BY ConstantTypes
<1>3. f[r] \in Nat /\ g[r] \in Nat BY <1>1
<1> HIDE DEF f, g
<1>4. f \in [Requests -> Nat] /\ g \in [Requests -> Nat] /\ \A s \in Requests \ {r} : g[s] = f[s]
  BY <1>1
<1>5. Cardinality(Units(f)) \in Nat /\ Cardinality(Units(g)) \in Nat
  BY <1>2, <1>4, UnitsChange
<1>6. f[r] <= Cardinality(Units(f)) BY <1>2, <1>4, UnitsChange
<1>7. Cardinality(Units(g)) = (Cardinality(Units(f)) - f[r]) + g[r]
  BY <1>2, <1>4, UnitsChange
<1> QED BY <1>1, <1>3, <1>5, <1>6, <1>7 DEF f, g

(* AllocateKVBlocks takes what it was checked for. *)
LEMMA AllocateRoom ==
  ASSUME Shapes, Room, NEW r \in Requests, NEW n \in Nat, CanAllocate(r, n), Allocate(r, n),
         r \in RangeOf(running'), RangeOf(running) \subseteq RangeOf(running')
  PROVE  /\ Room' /\ kvTokens' \in [Requests -> Nat] /\ freeBlocks' \in Nat
<1>1. kvTokens \in [Requests -> Nat] /\ freeBlocks \in Nat BY DEF Shapes
<1>2. Stored(r, n) \in Nat BY DEF Stored, Least
<1>3. kvTokens' = [kvTokens EXCEPT ![r] = @ + Stored(r, n)] BY DEF Allocate
<1>4. /\ kvTokens' \in [Requests -> Nat] /\ kvTokens'[r] = kvTokens[r] + Stored(r, n)
      /\ \A s \in Requests \ {r} : kvTokens'[s] = kvTokens[s]
  BY <1>1, <1>2, <1>3
<1> DEFINE c == Cardinality(Units(Held(kvTokens)))
           d == Cardinality(Units(Held(kvTokens')))
           x == Blocks(kvTokens[r])
           y == Blocks(kvTokens'[r])
<1>5. c \in Nat /\ d \in Nat /\ x \in Nat /\ y \in Nat /\ d = (c - x) + y
  BY <1>1, <1>4, HeldChange
<1>6. y - x <= freeBlocks /\ freeBlocks' = freeBlocks - (y - x)
  BY <1>4 DEF CanAllocate, Allocate, NewBlocks
<1>7. freeBlocks + c = TotalBlocks BY DEF Room
<1> HIDE DEF x, y
<1>8. freeBlocks' \in Nat /\ freeBlocks' + d = TotalBlocks
  <2> HIDE DEF c, d
  <2>1. freeBlocks' \in Nat BY <1>1, <1>5, <1>6
  <2>2. freeBlocks' + d = freeBlocks + c BY <1>1, <1>5, <1>6
  <2> QED BY <1>7, <2>1, <2>2
<1>9. \A s \in Requests : kvTokens'[s] > 0 => s \in RangeOf(running')
  BY <1>4 DEF Room
<1>10. d = Cardinality(Units(Held(kvTokens)))' BY DEF Held, Blocks, Units
<1> QED BY <1>4, <1>8, <1>9, <1>10 DEF Room

(* ReleaseKVBlocks gives back what the request holds. *)
LEMMA ReleaseRoom ==
  ASSUME Shapes, Room, NEW r \in Requests, ReleaseKVBlocks(r),
         RangeOf(running) \ {r} \subseteq RangeOf(running')
  PROVE  /\ Room' /\ kvTokens' \in [Requests -> Nat] /\ freeBlocks' \in Nat
<1>1. kvTokens \in [Requests -> Nat] /\ freeBlocks \in Nat BY DEF Shapes
<1>2. kvTokens' = [kvTokens EXCEPT ![r] = 0] BY DEF ReleaseKVBlocks
<1>3. /\ kvTokens' \in [Requests -> Nat] /\ kvTokens'[r] = 0
      /\ \A s \in Requests \ {r} : kvTokens'[s] = kvTokens[s]
  BY <1>1, <1>2
<1> DEFINE c == Cardinality(Units(Held(kvTokens)))
           d == Cardinality(Units(Held(kvTokens')))
           x == Blocks(kvTokens[r])
           y == Blocks(kvTokens'[r])
<1>4. c \in Nat /\ d \in Nat /\ x \in Nat /\ y \in Nat /\ d = (c - x) + y
  BY <1>1, <1>3, HeldChange
<1>5. freeBlocks' = freeBlocks + x /\ y = 0
  BY <1>3, BlocksType DEF ReleaseKVBlocks
<1>6. freeBlocks + c = TotalBlocks BY DEF Room
<1>7. freeBlocks' \in Nat /\ freeBlocks' + d = TotalBlocks
  <2> HIDE DEF c, d, x, y
  <2>1. freeBlocks' \in Nat BY <1>1, <1>4, <1>5
  <2>2. freeBlocks' + d = freeBlocks + c BY <1>1, <1>4, <1>5
  <2> QED BY <1>6, <2>1, <2>2
<1>8. \A s \in Requests : kvTokens'[s] > 0 => s \in RangeOf(running')
  <2>1. ASSUME NEW s \in Requests, kvTokens'[s] > 0 PROVE s \in RangeOf(running')
    <3>1. s # r BY <1>3, <2>1
    <3>2. kvTokens[s] > 0 BY <1>3, <2>1, <3>1
    <3> QED BY <3>1, <3>2 DEF Room
  <2> QED BY <2>1
<1>9. d = Cardinality(Units(Held(kvTokens)))' BY DEF Held, Blocks, Units
<1> QED BY <1>3, <1>7, <1>8, <1>9 DEF Room

(* The request at the cursor gets its tokens. *)
LEMMA ScheduleRunningGood ==
  ASSUME EngineInv, ScheduleRunning
  PROVE  EngineInv'
<1>1. Shapes /\ Scan /\ Pendings /\ Places /\ Deadlines /\ Counts /\ Room /\ Slots /\ Pins
  BY DEF EngineInv
<1>2. InPhase1Loop /\ CanAllocate(Current, Wanted) /\ Allocate(Current, Wanted)
  BY DEF ScheduleRunning
<1>3. /\ numNew' = [numNew EXCEPT ![Current] = Wanted]
      /\ computed' = [computed EXCEPT ![Current] = @ + Wanted]
      /\ budget' = budget - Wanted /\ cursor' = cursor + 1
      /\ pc' = "phase1" /\ want' = 0
  BY DEF ScheduleRunning
<1>4. /\ clock' = clock /\ eventQ' = eventQ /\ stepEvent' = stepEvent
      /\ arrivalTime' = arrivalTime /\ state' = state /\ progress' = progress
      /\ carry' = carry /\ waitQ' = waitQ /\ running' = running
      /\ resident' = resident /\ pinCount' = pinCount
      /\ adapterPinned' = adapterPinned /\ loading' = loading /\ metrics' = metrics
      /\ preempted' = preempted /\ advance' = advance
  BY DEF ScheduleRunning, eventVars, loraVars
<1>5. /\ pc \in {"phase1", "preempt"} /\ cursor \in 1 .. Len(running)
      /\ Current \in Requests /\ Current \in RangeOf(running)
      /\ Wanted \in Nat /\ Wanted <= budget
  BY <1>1, <1>2, WantedType
<1>6. SameMembers(waitQ, waitQ') /\ SameMembers(running, running')
  BY <1>4, SameSelf
<1>7. /\ SameTravel(eventQ, eventQ') /\ SameTimeouts(eventQ, eventQ')
      /\ Due(eventQ', clock')
  BY <1>1, <1>4, SameSelf DEF Deadlines
<1>8. Room' /\ kvTokens' \in [Requests -> Nat] /\ freeBlocks' \in Nat
  <2>1. Current \in RangeOf(running') /\ RangeOf(running) \subseteq RangeOf(running')
    BY <1>4, <1>5
  <2> QED BY <1>1, <1>2, <1>5, <2>1, AllocateRoom
<1>9. Shapes'
  <2>3. numNew \in [Requests -> Nat] /\ computed \in [Requests -> Nat]
    BY <1>1 DEF Shapes
  <2>4. computed[Current] + Wanted \in Nat BY <1>5, <2>3
  <2>1. numNew' \in [Requests -> Nat] /\ computed' \in [Requests -> Nat]
    BY <1>3, <1>5, <2>3, <2>4
  <2>2. budget' \in Nat /\ cursor' \in Nat /\ want' \in Nat
    BY <1>1, <1>3, <1>5 DEF Shapes
  <2> QED BY <1>1, <1>3, <1>4, <1>8, <2>1, <2>2 DEF Shapes
<1>10. Scan' BY <1>3, <1>5 DEF Scan
<1>11. Pendings'
  <2>1. pc # "idle" /\ pc' # "idle" BY <1>3, <1>5
  <2> QED BY <1>1, <1>4, <2>1, PendingsBusy
<1>12. Places' /\ Deadlines' /\ Counts'
  BY <1>1, <1>4, <1>6, <1>7, PlacesFrame, DeadlinesFrame, CountsFrame
<1>13. Slots' BY <1>1, <1>4, SlotsFrame
<1>14. Pins' BY <1>1, <1>4, <1>6, PinsFrame
<1> QED BY <1>8, <1>9, <1>10, <1>11, <1>12, <1>13, <1>14 DEF EngineInv

(* Phase 1 ends. *)
LEMMA EndPhase1Good ==
  ASSUME EngineInv, EndPhase1
  PROVE  EngineInv'
<1>1. Shapes /\ Scan /\ Pendings /\ Places /\ Deadlines /\ Counts /\ Room /\ Slots /\ Pins
  BY DEF EngineInv
<1>2. /\ clock' = clock /\ eventQ' = eventQ /\ stepEvent' = stepEvent
      /\ arrivalTime' = arrivalTime /\ state' = state /\ progress' = progress
      /\ numNew' = numNew /\ computed' = computed
      /\ carry' = carry /\ waitQ' = waitQ /\ running' = running
      /\ kvTokens' = kvTokens /\ freeBlocks' = freeBlocks
      /\ resident' = resident /\ pinCount' = pinCount
      /\ adapterPinned' = adapterPinned /\ loading' = loading /\ metrics' = metrics
      /\ cursor' = cursor /\ want' = want /\ budget' = budget
      /\ preempted' = preempted /\ advance' = advance /\ pc = "phase1" /\ pc' = "phase2"
  BY DEF EndPhase1, eventVars, reqVars, kvVars, loraVars
<1>3. SameMembers(waitQ, waitQ') /\ SameMembers(running, running')
  BY <1>2, SameSelf
<1>4. /\ SameTravel(eventQ, eventQ') /\ SameTimeouts(eventQ, eventQ')
      /\ Due(eventQ', clock')
  BY <1>1, <1>2, SameSelf DEF Deadlines
<1>5. Shapes' BY <1>1, <1>2 DEF Shapes
<1>6. Scan' BY <1>1, <1>2 DEF Scan
<1>7. Pendings' BY <1>1, <1>2, PendingsBusy
<1>8. Places' /\ Deadlines' /\ Counts'
  BY <1>1, <1>2, <1>3, <1>4, PlacesFrame, DeadlinesFrame, CountsFrame
<1>9. Room' BY <1>1, <1>2, <1>3, RoomFrame DEF kvVars
<1>10. Slots' /\ Pins' BY <1>1, <1>2, <1>3, SlotsFrame, PinsFrame
<1> QED BY <1>5, <1>6, <1>7, <1>8, <1>9, <1>10 DEF EngineInv

(* A victim goes from the batch to the head of the wait queue; the cursor  *)
(* still points at the request that asked for room.                        *)
LEMMA PreemptVictimGood ==
  ASSUME EngineInv, PreemptVictim
  PROVE  EngineInv'
<1>1. Shapes /\ Scan /\ Pendings /\ Places /\ Deadlines /\ Counts /\ Room /\ Slots /\ Pins
  BY DEF EngineInv
<1> DEFINE k == VictimIndex
           v == running[k]
<1>2. InPhase1Loop BY DEF PreemptVictim
<1>3. /\ running' = RemoveIndex(running, k) /\ cursor' = CursorAfter(k)
      /\ budget' = BudgetAfter(v) /\ StartOver(v) /\ ReleaseKVBlocks(v)
      /\ waitQ' = <<v>> \o waitQ
      /\ v = Current => pc' = "phase2" /\ want' = 0
      /\ v # Current => pc' = "preempt" /\ want' = Wanted
      /\ preempted' = TRUE
  BY DEF PreemptVictim
<1>4. /\ clock' = clock /\ eventQ' = eventQ /\ stepEvent' = stepEvent
      /\ arrivalTime' = arrivalTime
      /\ resident' = resident /\ pinCount' = pinCount
      /\ adapterPinned' = adapterPinned /\ loading' = loading /\ metrics' = metrics
      /\ advance' = advance
  BY DEF PreemptVictim, eventVars, loraVars
<1>5. /\ state' = [state EXCEPT ![v] = "queued"]
      /\ progress' = [progress EXCEPT ![v] = 0]
      /\ numNew' = [numNew EXCEPT ![v] = 0]
      /\ carry' = [carry EXCEPT ![v] = 0]
      /\ computed' = [computed EXCEPT ![v] = 0]
  BY <1>3 DEF StartOver
<1>6. /\ pc \in {"phase1", "preempt"} /\ cursor \in 1 .. Len(running)
      /\ Wanted \in Nat /\ Wanted <= budget
  BY <1>1, <1>2, WantedType
<1>7. /\ running \in Seq(Requests) /\ waitQ \in Seq(Requests)
      /\ state \in [Requests -> {"queued", "running", "completed", "timed_out"}]
      /\ arrivalTime \in [Requests -> ArrivalTimes]
      /\ numNew \in [Requests -> Nat] /\ budget \in Nat
  BY <1>1 DEF Shapes
<1>8. Distinct(waitQ) /\ Distinct(running) BY <1>1 DEF Places
<1>9. k \in 1 .. Len(running)
  <2>1. running # <<>> BY <1>6, <1>7
  <2> QED BY <1>7, <2>1, VictimType
<1> HIDE DEF k
<1>10. /\ running' \in Seq(Requests) /\ Len(running') = Len(running) - 1
       /\ Len(running) \in Nat \ {0}
       /\ v \in Requests /\ v \in RangeOf(running) /\ Distinct(running')
       /\ RangeOf(running') = RangeOf(running) \ {v}
  BY <1>3, <1>7, <1>8, <1>9, RemoveIndexShape, SMTT(40)
<1>11. state[v] = "running" /\ v \notin RangeOf(waitQ)
  BY <1>1, <1>10 DEF Places
<1>12. /\ waitQ' \in Seq(Requests) /\ Len(waitQ) \in Nat /\ Len(waitQ') = Len(waitQ) + 1
       /\ RangeOf(waitQ') = RangeOf(waitQ) \cup {v} /\ Distinct(waitQ')
  BY SMTT(60), <1>3, <1>7, <1>8, <1>10, <1>11, PrependShape
<1>13. Room' /\ kvTokens' \in [Requests -> Nat] /\ freeBlocks' \in Nat
  <2>1. RangeOf(running) \ {v} \subseteq RangeOf(running') BY <1>10
  <2> QED BY <1>1, <1>3, <1>10, <2>1, ReleaseRoom
<1>14. /\ v = Current => pc' = "phase2" /\ want' = 0
       /\ v # Current => pc' = "preempt" /\ want' = Wanted
  BY <1>3
<1>15. v # Current => k # cursor BY DEF Current
<1>16. cursor' = (IF k < cursor THEN cursor - 1 ELSE cursor) /\ budget' = budget + numNew[v]
  BY <1>3 DEF CursorAfter, BudgetAfter
<1>17. numNew[v] \in Nat BY <1>7, <1>10
<1> HIDE DEF v
<1>18. cursor' \in Nat /\ cursor' >= 1 /\ (v # Current => cursor' <= Len(running'))
  BY <1>6, <1>9, <1>10, <1>15, <1>16
<1>19. budget' \in Nat /\ want' \in Nat /\ (v # Current => want' <= budget')
  BY <1>6, <1>7, <1>14, <1>16, <1>17, SMTT(40)
<1>20. Shapes'
  <2>1. state' \in [Requests -> {"queued", "running", "completed", "timed_out"}]
    BY <1>5, <1>7, <1>10
  <2>2. /\ progress' \in [Requests -> Nat] /\ numNew' \in [Requests -> Nat]
        /\ carry' \in [Requests -> Nat] /\ computed' \in [Requests -> Nat]
    BY <1>1, <1>5 DEF Shapes
  <2>3. /\ pc' \in {"idle", "phase1", "preempt", "phase2", "complete"}
        /\ preempted' \in BOOLEAN
    BY <1>3, <1>14
  <2> QED BY <1>1, <1>4, <1>10, <1>12, <1>13, <1>18, <1>19, <2>1, <2>2, <2>3 DEF Shapes
<1>21. Scan' BY <1>14, <1>18, <1>19 DEF Scan
<1>22. Pendings'
  <2>1. pc # "idle" /\ pc' # "idle" BY <1>6, <1>14
  <2> QED BY <1>1, <1>4, <2>1, PendingsBusy
<1>23. state'[v] = "queued" /\ \A s \in Requests \ {v} : state'[s] = state[s]
  BY <1>5, <1>7, <1>10
<1>24. Places'
  <2>1. \A s \in Requests : OnWay(eventQ', s) = OnWay(eventQ, s) BY <1>4
  <2>2. ~(OnWay(eventQ, v) > 0) BY <1>1, <1>10, <1>11 DEF Places
  <2> QED BY <1>1, <1>10, <1>11, <1>12, <1>23, <2>1, <2>2 DEF Places
<1>25. Deadlines'
  <2>1. Due(eventQ, clock)' BY <1>1, <1>4 DEF Deadlines, Due, Deadline
  <2>2. \A s \in Requests : Timeouts(eventQ', s) = Timeouts(eventQ, s) BY <1>4
  <2>3. \A s \in Requests : s \in RangeOf(waitQ') \/ s \in RangeOf(running')
          <=> s \in RangeOf(waitQ) \/ s \in RangeOf(running)
    BY <1>10, <1>12
  <2>4. \A s \in Requests : state[s] = "completed" => state'[s] = "completed"
    BY <1>11, <1>23
  <2> QED BY <1>1, <2>1, <2>2, <2>3, <2>4 DEF Deadlines
<1>26. Counts'
  <2>1. In("completed")' = In("completed") /\ In("timed_out")' = In("timed_out")
    BY <1>10, <1>11, <1>23 DEF In
  <2>2. /\ metrics'.completed = Cardinality(In("completed")')
        /\ metrics'.timedOut = Cardinality(In("timed_out")')
    BY <1>1, <1>4, <2>1 DEF Counts
  <2>3. Travelling(eventQ') = Travelling(eventQ) /\ Travelling(eventQ) \in Nat
    BY <1>1, <1>4, CountTypes
  <2>4. Present(waitQ', running', eventQ') = Present(waitQ, running, eventQ)
    BY <1>10, <1>12, <2>3 DEF Present
  <2>5. Ended(metrics') = Ended(metrics) BY <1>4
  <2> QED BY <1>1, <2>2, <2>4, <2>5, CountsMove
<1>27. Slots' BY <1>1, <1>4, SlotsFrame
<1>28. Pins' BY <1>1, <1>4, <1>10, <1>12 DEF Pins, Holders
<1> QED BY <1>13, <1>20, <1>21, <1>22, <1>24, <1>25, <1>26, <1>27, <1>28 DEF EngineInv

(* One request more, or one fewer, has a pin. *)
LEMMA HoldersChange ==
  ASSUME NEW f \in [Requests -> BOOLEAN], NEW g \in [Requests -> BOOLEAN], NEW r \in Requests,
         ~f[r], g[r], \A s \in Requests \ {r} : g[s] <=> f[s]
  PROVE  \A a : /\ Cardinality(Holders(f, a)) \in Nat
                /\ a = Adapter[r] => Cardinality(Holders(g, a)) = Cardinality(Holders(f, a)) + 1
                /\ a # Adapter[r] => Holders(g, a) = Holders(f, a)
<1> TAKE a
<1>1. Holders(f, a) \in SUBSET Requests /\ r \notin Holders(f, a)
  BY DEF Holders
<1>2. a = Adapter[r] => Holders(g, a) = Holders(f, a) \cup {r} BY DEF Holders
<1>3. a # Adapter[r] => Holders(g, a) = Holders(f, a) BY DEF Holders
<1>4. /\ Cardinality(Holders(f, a)) \in Nat
      /\ Cardinality(Holders(f, a) \cup {r}) = Cardinality(Holders(f, a)) + 1
  BY <1>1, RequestsAdd
<1> QED BY <1>2, <1>3, <1>4

(* ReleaseAdapterPin: a request that ends gives its pin back, once. *)
LEMMA ReleasePins ==
  ASSUME Shapes, Pins, NEW r \in Requests, ReleaseAdapterPin(r), resident' = resident,
         RangeOf(running') \subseteq RangeOf(running) \ {r},
         \A s \in Requests \ {r} : s \in RangeOf(waitQ) \/ s \in RangeOf(running)
                                     => s \in RangeOf(waitQ') \/ s \in RangeOf(running')
  PROVE  /\ Pins' /\ pinCount' \in [Adapters -> Int]
         /\ adapterPinned' \in [Requests -> BOOLEAN]
<1>1. pinCount \in [Adapters -> Int] /\ adapterPinned \in [Requests -> BOOLEAN]
  BY DEF Shapes
<1>2. CASE ~adapterPinned[r]
  <2>1. pinCount' = pinCount /\ adapterPinned' = adapterPinned
    BY <1>2 DEF ReleaseAdapterPin
  <2> QED BY <1>1, <1>2, <2>1 DEF Pins, Holders
<1>3. CASE adapterPinned[r]
  <2> DEFINE b == Adapter[r]
  <2>1. /\ pinCount' = [pinCount EXCEPT ![b] = @ - 1]
        /\ adapterPinned' = [adapterPinned EXCEPT ![r] = FALSE]
    BY <1>3 DEF ReleaseAdapterPin
  <2>2. b \in Adapters BY <1>3 DEF Pins
  <2>3. /\ adapterPinned' \in [Requests -> BOOLEAN] /\ ~adapterPinned'[r]
        /\ \A s \in Requests \ {r} : adapterPinned[s] <=> adapterPinned'[s]
    BY <1>1, <2>1
  <2>4. /\ pinCount' \in [Adapters -> Int] /\ pinCount'[b] = pinCount[b] - 1
        /\ \A a \in Adapters \ {b} : pinCount'[a] = pinCount[a]
    BY <1>1, <2>1, <2>2
  <2>5. \A a : /\ Cardinality(Holders(adapterPinned', a)) \in Nat
               /\ a = b => Cardinality(Holders(adapterPinned, a))
                             = Cardinality(Holders(adapterPinned', a)) + 1
               /\ a # b => Holders(adapterPinned, a) = Holders(adapterPinned', a)
    BY <1>1, <1>3, <2>3, HoldersChange
  <2> HIDE DEF b
  <2>6. ASSUME NEW a \in Adapters
        PROVE  /\ pinCount'[a] = Cardinality(Holders(adapterPinned', a))
               /\ pinCount'[a] > 0 => a \in RangeOf(resident')
    <3>1. pinCount[a] = Cardinality(Holders(adapterPinned, a)) /\ pinCount[a] \in Int
          /\ (pinCount[a] > 0 => a \in RangeOf(resident))
      BY <1>1 DEF Pins
    <3>2. CASE a = b BY <2>4, <2>5, <3>1, <3>2
    <3>3. CASE a # b BY <2>4, <2>5, <3>1, <3>3
    <3> QED BY <3>2, <3>3
  <2>7. ASSUME NEW s \in Requests
        PROVE  /\ adapterPinned'[s] => /\ Adapter[s] \in Adapters
                                       /\ s \in RangeOf(waitQ') \/ s \in RangeOf(running')
               /\ s \in RangeOf(running') /\ Adapter[s] # NoAdapter => adapterPinned'[s]
    <3>1. CASE s = r BY <2>3, <3>1
    <3>2. CASE s # r BY <2>3, <3>2 DEF Pins
    <3> QED BY <3>1, <3>2
  <2>8. \A a \in Adapters : Holders(adapterPinned, a)' = Holders(adapterPinned', a)
    BY DEF Holders
  <2> QED BY <2>3, <2>4, <2>6, <2>7, <2>8 DEF Pins
<1> QED BY <1>2, <1>3

(* recordAdapterResidency: the adapter of an admitted request moves to the *)
(* end of the resident set and is pinned, once.                            *)
LEMMA RecordPins ==
  ASSUME Shapes, Slots, Pins, NEW r \in Requests, RecordAdapterResidency(r),
         Adapter[r] = NoAdapter \/ IsResident(Adapter[r]),
         RangeOf(running') = RangeOf(running) \cup {r},
         \A s \in Requests : s \in RangeOf(waitQ) => s \in RangeOf(waitQ') \/ s = r
  PROVE  /\ Pins' /\ Slots' /\ pinCount' \in [Adapters -> Int]
         /\ adapterPinned' \in [Requests -> BOOLEAN] /\ resident' \in Seq(Adapters)
         /\ loading' = loading
<1>1. /\ pinCount \in [Adapters -> Int] /\ adapterPinned \in [Requests -> BOOLEAN]
      /\ resident \in Seq(Adapters)
  BY DEF Shapes
<1> DEFINE b == Adapter[r]
<1>2. CASE b = NoAdapter
  <2>1. /\ resident' = resident /\ loading' = loading
        /\ pinCount' = pinCount /\ adapterPinned' = adapterPinned
    BY <1>2 DEF RecordAdapterResidency, loraVars
  <2>2. Slots' BY <2>1, SlotsFrame
  <2> QED BY <1>1, <1>2, <2>1, <2>2 DEF Pins, Holders
<1>3. CASE b # NoAdapter
  <2>1. /\ resident' = Append(Without(resident, b), b) /\ loading' = loading
        /\ adapterPinned[r] => pinCount' = pinCount /\ adapterPinned' = adapterPinned
        /\ ~adapterPinned[r] => /\ pinCount' = [pinCount EXCEPT ![b] = @ + 1]
                                /\ adapterPinned' = [adapterPinned EXCEPT ![r] = TRUE]
    BY <1>3 DEF RecordAdapterResidency
  <2>2. b \in Adapters /\ b \in RangeOf(resident)
    BY <1>3, ConstantTypes DEF IsResident
  <2>3. Distinct(resident) BY DEF Slots
  <2> DEFINE w == Without(resident, b)
  <2>4. /\ w \in Seq(Adapters) /\ Len(resident) \in Nat /\ Len(w) = Len(resident) - 1
        /\ Distinct(w) /\ RangeOf(w) = RangeOf(resident) \ {b}
    BY <1>1, <2>2, <2>3, WithoutShape
  <2>5. resident' = Append(w, b) BY <2>1
  <2> HIDE DEF w
  <2>6. b \notin RangeOf(w) BY <2>4
  <2>7. /\ resident' \in Seq(Adapters) /\ Len(w) \in Nat /\ Len(resident') = Len(w) + 1
        /\ RangeOf(resident') = RangeOf(w) \cup {b} /\ Distinct(resident')
    BY <2>2, <2>4, <2>5, <2>6, AppendShape
  <2>8. Len(resident') = Len(resident) BY <2>4, <2>7
  <2>9. RangeOf(resident') = RangeOf(resident) BY <2>2, <2>4, <2>7
  <2>10. Slots' BY <2>1, <2>7, <2>8, <2>9 DEF Slots
  <2>11. /\ pinCount' \in [Adapters -> Int] /\ adapterPinned' \in [Requests -> BOOLEAN]
         /\ Pins'
    <3>1. CASE adapterPinned[r]
      <4>1. pinCount' = pinCount /\ adapterPinned' = adapterPinned
        BY <2>1, <3>1
      <4> QED BY <1>1, <2>9, <3>1, <4>1 DEF Pins, Holders
    <3>2. CASE ~adapterPinned[r]
      <4>1. /\ pinCount' = [pinCount EXCEPT ![b] = @ + 1]
            /\ adapterPinned' = [adapterPinned EXCEPT ![r] = TRUE]
        BY <2>1, <3>2
      <4>2. /\ adapterPinned' \in [Requests -> BOOLEAN] /\ adapterPinned'[r]
            /\ \A s \in Requests \ {r} : adapterPinned'[s] <=> adapterPinned[s]
        BY <1>1, <4>1
      <4>3. /\ pinCount' \in [Adapters -> Int] /\ pinCount'[b] = pinCount[b] + 1
            /\ \A a \in Adapters \ {b} : pinCount'[a] = pinCount[a]
        BY <1>1, <2>2, <4>1
      <4>4. \A a : /\ Cardinality(Holders(adapterPinned, a)) \in Nat
                   /\ a = b => Cardinality(Holders(adapterPinned', a))
                                 = Cardinality(Holders(adapterPinned, a)) + 1
                   /\ a # b => Holders(adapterPinned', a) = Holders(adapterPinned, a)
        BY <1>1, <3>2, <4>2, HoldersChange
      <4>5. ASSUME NEW a \in Adapters
            PROVE  /\ pinCount'[a] = Cardinality(Holders(adapterPinned', a))
                   /\ pinCount'[a] > 0 => a \in RangeOf(resident')
        <5>1. pinCount[a] = Cardinality(Holders(adapterPinned, a)) /\ pinCount[a] \in Int
              /\ (pinCount[a] > 0 => a \in RangeOf(resident))
          BY <1>1 DEF Pins
        <5>2. CASE a = b BY <2>2, <2>9, <4>3, <4>4, <5>1, <5>2
        <5>3. CASE a # b BY <2>9, <4>3, <4>4, <5>1, <5>3
        <5> QED BY <5>2, <5>3
      <4>6. ASSUME NEW s \in Requests
            PROVE  /\ adapterPinned'[s] => /\ Adapter[s] \in Adapters
                                           /\ s \in RangeOf(waitQ') \/ s \in RangeOf(running')
                   /\ s \in RangeOf(running') /\ Adapter[s] # NoAdapter => adapterPinned'[s]
        <5>1. CASE s = r BY <2>2, <4>2, <5>1
        <5>2. CASE s # r BY <4>2, <5>2 DEF Pins
        <5> QED BY <5>1, <5>2
      <4>7. \A a \in Adapters : Holders(adapterPinned, a)' = Holders(adapterPinned', a)
        BY DEF Holders
      <4> QED BY <4>2, <4>3, <4>5, <4>6, <4>7 DEF Pins
    <3> QED BY <3>1, <3>2
  <2> QED BY <2>1, <2>7, <2>10, <2>11
<1> QED BY <1>2, <1>3

(* The head of the wait queue joins the batch. *)
LEMMA AdmitGood ==
  ASSUME EngineInv, Admit
  PROVE  EngineInv'
<1>1. Shapes /\ Scan /\ Pendings /\ Places /\ Deadlines /\ Counts /\ Room /\ Slots /\ Pins
  BY DEF EngineInv
<1> DEFINE r == Head(waitQ)
           n == PrefillChunk(r, 0)
<1>2. /\ pc = "phase2" /\ waitQ # <<>> /\ CanAllocate(r, n)
      /\ Adapter[r] = NoAdapter \/ IsResident(Adapter[r])
  BY DEF Admit, CanAdmit
<1>3. /\ Allocate(r, n) /\ running' = Append(running, r)
      /\ state' = [state EXCEPT ![r] = "running"]
      /\ numNew' = [numNew EXCEPT ![r] = n]
      /\ computed' = [computed EXCEPT ![r] = n]
      /\ budget' = budget - n /\ RecordAdapterResidency(r) /\ waitQ' = Tail(waitQ)
  BY DEF Admit
<1>4. /\ clock' = clock /\ eventQ' = eventQ /\ stepEvent' = stepEvent
      /\ arrivalTime' = arrivalTime /\ progress' = progress /\ carry' = carry
      /\ metrics' = metrics /\ pc' = pc /\ cursor' = cursor /\ want' = want
      /\ preempted' = preempted /\ advance' = advance
  BY DEF Admit, eventVars
<1>5. /\ running \in Seq(Requests) /\ waitQ \in Seq(Requests) /\ budget \in Nat
      /\ state \in [Requests -> {"queued", "running", "completed", "timed_out"}]
      /\ numNew \in [Requests -> Nat] /\ computed \in [Requests -> Nat]
  BY <1>1 DEF Shapes
<1>6. Distinct(waitQ) /\ Distinct(running) BY <1>1 DEF Places
<1>7. /\ r \in Requests /\ r \in RangeOf(waitQ) /\ Len(waitQ) \in Nat \ {0}
      /\ waitQ' \in Seq(Requests) /\ Len(waitQ') = Len(waitQ) - 1
      /\ Distinct(waitQ') /\ RangeOf(waitQ') = RangeOf(waitQ) \ {r}
  BY <1>2, <1>3, <1>5, <1>6, TailShape
<1>8. state[r] = "queued" /\ r \notin RangeOf(running) BY <1>1, <1>7 DEF Places
<1>9. /\ running' \in Seq(Requests) /\ Len(running) \in Nat
      /\ Len(running') = Len(running) + 1 /\ Distinct(running')
      /\ RangeOf(running') = RangeOf(running) \cup {r}
  BY <1>3, <1>5, <1>6, <1>7, <1>8, AppendShape
<1>10. n \in Nat /\ n <= budget
  <2>1. 0 <= InputLen[r] BY <1>7, ConstantTypes
  <2> QED BY <1>5, <1>7, <2>1, PrefillChunkType
<1> HIDE DEF n, r
<1>11. Room' /\ kvTokens' \in [Requests -> Nat] /\ freeBlocks' \in Nat
  <2>1. r \in RangeOf(running') /\ RangeOf(running) \subseteq RangeOf(running')
    BY <1>9
  <2> QED BY <1>1, <1>2, <1>3, <1>7, <1>10, <2>1, AllocateRoom
<1>12. \A s \in Requests : s \in RangeOf(waitQ) => s \in RangeOf(waitQ') \/ s = r
  BY <1>7
<1>13. Pins' /\ Slots' BY <1>1, <1>2, <1>3, <1>7, <1>9, <1>12, RecordPins
<1>14. /\ pinCount' \in [Adapters -> Int] /\ loading' = loading
       /\ adapterPinned' \in [Requests -> BOOLEAN] /\ resident' \in Seq(Adapters)
  BY <1>1, <1>2, <1>3, <1>7, <1>9, <1>12, RecordPins
<1>15. state'[r] = "running" /\ \A s \in Requests \ {r} : state'[s] = state[s]
  BY <1>3, <1>5, <1>7
<1>16. Shapes'
  <2>1. state' \in [Requests -> {"queued", "running", "completed", "timed_out"}]
    BY <1>3, <1>5, <1>7
  <2>2. numNew' \in [Requests -> Nat] /\ computed' \in [Requests -> Nat]
    BY <1>3, <1>5, <1>10
  <2>3. budget' \in Nat BY <1>3, <1>5, <1>10
  <2> QED BY <1>1, <1>4, <1>7, <1>9, <1>11, <1>14, <2>1, <2>2, <2>3 DEF Shapes
<1>17. Scan' BY <1>1, <1>2, <1>4 DEF Scan
<1>18. Pendings' BY <1>1, <1>2, <1>4, <1>14, PendingsBusy
<1>19. Places'
  <2>1. \A s \in Requests : OnWay(eventQ', s) = OnWay(eventQ, s) BY <1>4
  <2>2. ~(OnWay(eventQ, r) > 0) BY <1>1, <1>7 DEF Places
  <2> QED BY <1>1, <1>7, <1>8, <1>9, <1>15, <2>1, <2>2 DEF Places
<1>20. Deadlines'
  <2>1. Due(eventQ, clock)' BY <1>1, <1>4 DEF Deadlines, Due, Deadline
  <2>2. \A s \in Requests : Timeouts(eventQ', s) = Timeouts(eventQ, s) BY <1>4
  <2>3. \A s \in Requests : s \in RangeOf(waitQ') \/ s \in RangeOf(running')
          <=> s \in RangeOf(waitQ) \/ s \in RangeOf(running)
    BY <1>7, <1>9
  <2>4. \A s \in Requests : state[s] = "completed" => state'[s] = "completed"
    BY <1>8, <1>15
  <2> QED BY <1>1, <2>1, <2>2, <2>3, <2>4 DEF Deadlines
<1>21. Counts'
  <2>1. In("completed")' = In("completed") /\ In("timed_out")' = In("timed_out")
    BY <1>7, <1>8, <1>15 DEF In
  <2>2. /\ metrics'.completed = Cardinality(In("completed")')
        /\ metrics'.timedOut = Cardinality(In("timed_out")')
    BY <1>1, <1>4, <2>1 DEF Counts
  <2>3. Travelling(eventQ') = Travelling(eventQ) /\ Travelling(eventQ) \in Nat
    BY <1>1, <1>4, CountTypes
  <2>4. Present(waitQ', running', eventQ') = Present(waitQ, running, eventQ)
    BY <1>7, <1>9, <2>3 DEF Present
  <2>5. Ended(metrics') = Ended(metrics) BY <1>4
  <2> QED BY <1>1, <2>2, <2>4, <2>5, CountsMove
<1> QED BY <1>11, <1>13, <1>16, <1>17, <1>18, <1>19, <1>20, <1>21 DEF EngineInv

(* The batch executes. *)
LEMMA ExecuteGood ==
  ASSUME EngineInv, Execute
  PROVE  EngineInv'
<1>1. Shapes /\ Scan /\ Pendings /\ Places /\ Deadlines /\ Counts /\ Room /\ Slots /\ Pins
  BY DEF EngineInv
<1> DEFINE decoding == {r \in RangeOf(running) :
                          progress[r] >= InputLen[r] /\ numNew[r] > 0}
<1>2. /\ pc = "phase2" /\ pc' = "complete" /\ cursor' = 1
      /\ \E t \in StepTimes : advance' = t
  BY DEF Execute
<1>3. /\ progress' = [r \in Requests |->
              IF r \in decoding THEN progress[r] + numNew[r]
              ELSE IF r \in RangeOf(running) /\ progress[r] < InputLen[r]
              THEN computed[r] ELSE progress[r]]
      /\ carry' = [r \in Requests |->
              IF SpecEnabled /\ r \in decoding
              THEN Max({0, carry[r] + SpecRate - SpecScale * numNew[r]})
              ELSE carry[r]]
  BY DEF Execute
<1>4. /\ clock' = clock /\ eventQ' = eventQ /\ stepEvent' = stepEvent
      /\ arrivalTime' = arrivalTime /\ state' = state
      /\ numNew' = numNew /\ computed' = computed
      /\ waitQ' = waitQ /\ running' = running
      /\ kvTokens' = kvTokens /\ freeBlocks' = freeBlocks
      /\ resident' = resident /\ pinCount' = pinCount
      /\ adapterPinned' = adapterPinned /\ loading' = loading /\ metrics' = metrics
      /\ want' = want /\ budget' = budget
      /\ preempted' = preempted
  BY DEF Execute, eventVars, kvVars, loraVars
<1>5. SameMembers(waitQ, waitQ') /\ SameMembers(running, running')
  BY <1>4, SameSelf
<1>6. /\ SameTravel(eventQ, eventQ') /\ SameTimeouts(eventQ, eventQ')
      /\ Due(eventQ', clock')
  BY <1>1, <1>4, SameSelf DEF Deadlines
<1>7. /\ progress \in [Requests -> Nat] /\ numNew \in [Requests -> Nat]
      /\ computed \in [Requests -> Nat] /\ carry \in [Requests -> Nat]
  BY <1>1 DEF Shapes
<1> HIDE DEF decoding
<1>8. progress' \in [Requests -> Nat]
  <2>1. \A r \in Requests : progress[r] + numNew[r] \in Nat /\ computed[r] \in Nat
          /\ progress[r] \in Nat
    BY <1>7
  <2> QED BY <1>3, <2>1
<1>9. carry' \in [Requests -> Nat]
  <2>1. ASSUME NEW r \in Requests
        PROVE  Max({0, carry[r] + SpecRate - SpecScale * numNew[r]}) \in Nat /\ carry[r] \in Nat
    <3> DEFINE x == carry[r] + SpecRate - SpecScale * numNew[r]
    <3>1. SpecScale \in Int /\ SpecRate \in Int /\ numNew[r] \in Int /\ carry[r] \in Nat
      BY <1>7, ConstantTypes
    <3>2. SpecScale * numNew[r] \in Int BY <3>1
    <3>3. x \in Int BY <3>1, <3>2
    <3> HIDE DEF x
    <3>4. Max({0, x}) \in Nat BY <3>3, MaxZero
    <3> QED BY <3>1, <3>4 DEF x
  <2> QED BY <1>3, <2>1
<1>10. Shapes'
  <2>1. advance' \in Nat BY <1>2, ConstantTypes
  <2> QED BY <1>1, <1>2, <1>4, <1>8, <1>9, <2>1 DEF Shapes
<1>11. Scan' BY <1>2 DEF Scan
<1>12. Pendings' BY <1>1, <1>2, <1>4, PendingsBusy
<1>13. Places' /\ Deadlines' /\ Counts'
  BY <1>1, <1>4, <1>5, <1>6, PlacesFrame, DeadlinesFrame, CountsFrame
<1>14. Room' BY <1>1, <1>4, <1>5, RoomFrame DEF kvVars
<1>15. Slots' /\ Pins' BY <1>1, <1>4, <1>5, SlotsFrame, PinsFrame
<1> QED BY <1>10, <1>11, <1>12, <1>13, <1>14, <1>15 DEF EngineInv

(* A request completes: it leaves the batch and is counted. *)
LEMMA CompleteRequestGood ==
  ASSUME EngineInv, CompleteRequest
  PROVE  EngineInv'
<1>1. Shapes /\ Scan /\ Pendings /\ Places /\ Deadlines /\ Counts /\ Room /\ Slots /\ Pins
  BY DEF EngineInv
<1> DEFINE r == running[cursor]
           refused == /\ Finished(r)
                      /\ progress[r] < InputLen[r] + OutputLen[r]
                      /\ ~CanAllocate(r, 1)
<1>2. /\ pc = "complete" /\ cursor <= Len(running)
      /\ state' = [state EXCEPT ![r] = "completed"]
      /\ ReleaseKVBlocks(r) /\ ReleaseAdapterPin(r)
      /\ carry' = [carry EXCEPT ![r] = 0]
      /\ running' = RemoveIndex(running, cursor)
  BY DEF CompleteRequest, Current
<1>3. metrics' = [metrics EXCEPT !.completed = @ + 1,
                    !.kvAllocationFailures = @ + IF refused THEN 1 ELSE 0]
  BY DEF CompleteRequest, Current
<1>4. /\ clock' = clock /\ eventQ' = eventQ /\ stepEvent' = stepEvent
      /\ arrivalTime' = arrivalTime /\ progress' = progress /\ numNew' = numNew
      /\ computed' = computed /\ waitQ' = waitQ /\ resident' = resident
      /\ loading' = loading /\ pc' = pc /\ cursor' = cursor /\ want' = want
      /\ budget' = budget /\ preempted' = preempted /\ advance' = advance
  BY DEF CompleteRequest, eventVars, stepVars
<1>5. /\ running \in Seq(Requests) /\ waitQ \in Seq(Requests) /\ carry \in [Requests -> Nat]
      /\ state \in [Requests -> {"queued", "running", "completed", "timed_out"}]
      /\ metrics \in [completed : Nat, timedOut : Nat, dropped : Nat,
                      kvAllocationFailures : Nat]
  BY <1>1 DEF Shapes
<1>6. Distinct(waitQ) /\ Distinct(running) BY <1>1 DEF Places
<1>7. cursor \in 1 .. Len(running)
  BY <1>1, <1>2, <1>5, LenProperties DEF Shapes, Scan
<1>8. /\ running' \in Seq(Requests) /\ Len(running') = Len(running) - 1
      /\ Len(running) \in Nat \ {0}
      /\ r \in Requests /\ r \in RangeOf(running) /\ Distinct(running')
      /\ RangeOf(running') = RangeOf(running) \ {r}
  BY <1>2, <1>5, <1>6, <1>7, RemoveIndexShape
<1> HIDE DEF r, refused
<1>9. state[r] = "running" /\ r \notin RangeOf(waitQ) BY <1>1, <1>8 DEF Places
<1>10. Room' /\ kvTokens' \in [Requests -> Nat] /\ freeBlocks' \in Nat
  <2>1. RangeOf(running) \ {r} \subseteq RangeOf(running') BY <1>8
  <2> QED BY <1>1, <1>2, <1>8, <2>1, ReleaseRoom
<1>11. /\ Pins' /\ pinCount' \in [Adapters -> Int] /\ adapterPinned' \in [Requests -> BOOLEAN]
  <2>1. RangeOf(running') \subseteq RangeOf(running) \ {r} BY <1>8
  <2>2. \A s \in Requests \ {r} : s \in RangeOf(waitQ) \/ s \in RangeOf(running)
                                    => s \in RangeOf(waitQ') \/ s \in RangeOf(running')
    BY <1>4, <1>8
  <2> QED BY <1>1, <1>2, <1>4, <1>8, <2>1, <2>2, ReleasePins
<1>12. state'[r] = "completed" /\ \A s \in Requests \ {r} : state'[s] = state[s]
  BY <1>2, <1>5, <1>8
<1>13. /\ metrics'.completed = metrics.completed + 1
       /\ metrics'.timedOut = metrics.timedOut /\ metrics'.dropped = metrics.dropped
       /\ metrics' \in [completed : Nat, timedOut : Nat, dropped : Nat,
                        kvAllocationFailures : Nat]
  <2>1. PICK z \in Nat : metrics' = [metrics EXCEPT !.completed = @ + 1,
                                                    !.kvAllocationFailures = @ + z]
    <3>1. (IF refused THEN 1 ELSE 0) \in Nat OBVIOUS
    <3> QED BY <1>3, <3>1
  <2>2. /\ metrics.completed \in Nat /\ metrics.kvAllocationFailures \in Nat
        /\ DOMAIN metrics = {"completed", "timedOut", "dropped", "kvAllocationFailures"}
    BY <1>5
  <2>3. metrics.completed + 1 \in Nat /\ metrics.kvAllocationFailures + z \in Nat
    BY <2>1, <2>2
  <2>4. /\ metrics'.completed = metrics.completed + 1
        /\ metrics'.timedOut = metrics.timedOut /\ metrics'.dropped = metrics.dropped
    BY <2>1, <2>2
  <2>5. metrics' \in [completed : Nat, timedOut : Nat, dropped : Nat,
                      kvAllocationFailures : Nat]
    BY <1>5, <2>1, <2>3
  <2> QED BY <2>4, <2>5
<1>14. Shapes'
  <2>1. state' \in [Requests -> {"queued", "running", "completed", "timed_out"}]
    BY <1>2, <1>5, <1>8
  <2>2. carry' \in [Requests -> Nat] BY <1>2, <1>5
  <2> QED BY <1>1, <1>4, <1>8, <1>10, <1>11, <1>13, <2>1, <2>2 DEF Shapes
<1>15. Scan' BY <1>1, <1>2, <1>4 DEF Scan
<1>16. Pendings' BY <1>1, <1>2, <1>4, PendingsBusy
<1>17. Places'
  <2>1. \A s \in Requests : OnWay(eventQ', s) = OnWay(eventQ, s) BY <1>4
  <2>2. ~(OnWay(eventQ, r) > 0) BY <1>1, <1>8, <1>9 DEF Places
  <2> QED BY <1>1, <1>4, <1>8, <1>9, <1>12, <2>1, <2>2 DEF Places
<1>18. Deadlines'
  <2>1. Due(eventQ, clock)' BY <1>1, <1>4 DEF Deadlines, Due, Deadline
  <2>2. \A s \in Requests : Timeouts(eventQ', s) = Timeouts(eventQ, s) BY <1>4
  <2>3. \A s \in Requests \ {r} : state[s] = "completed" => state'[s] = "completed"
    BY <1>12
  <2> QED BY <1>1, <1>4, <1>8, <1>12, <2>1, <2>2, <2>3 DEF Deadlines
<1>19. Counts'
  <2>1. /\ metrics.completed \in Nat /\ metrics.timedOut \in Nat /\ metrics.dropped \in Nat
        /\ Len(waitQ) \in Nat /\ Len(running) \in Nat /\ Travelling(eventQ) \in Nat
        /\ Ended(metrics) \in Nat
    BY <1>1, CountTypes
  <2>2. In("completed")' = In("completed") \cup {r} /\ In("timed_out")' = In("timed_out")
    BY <1>8, <1>9, <1>12 DEF In
  <2>3. In("completed") \in SUBSET Requests /\ r \notin In("completed")
    BY <1>9 DEF In
  <2>4. Cardinality(In("completed")') = Cardinality(In("completed")) + 1
    BY <1>8, <2>2, <2>3, RequestsAdd
  <2>5. /\ metrics.completed = Cardinality(In("completed"))
        /\ metrics.timedOut = Cardinality(In("timed_out"))
    BY <1>1 DEF Counts
  <2>6. metrics'.completed = Cardinality(In("completed")')
        /\ metrics'.timedOut = Cardinality(In("timed_out")')
    BY <1>13, <2>2, <2>4, <2>5
  <2>12. /\ metrics'.completed = metrics.completed + 1
         /\ metrics'.timedOut = metrics.timedOut /\ metrics'.dropped = metrics.dropped
    BY <1>13
  <2>13. metrics'.completed + metrics'.timedOut + metrics'.dropped
           = (metrics.completed + metrics.timedOut + metrics.dropped) + 1
    <3>1. metrics.completed \in Nat /\ metrics.timedOut \in Nat /\ metrics.dropped \in Nat
      BY <2>1
    <3> QED BY <2>12, <3>1
  <2>7. Ended(metrics') = Ended(metrics) + 1 BY <2>13 DEF Ended
  <2>8. Travelling(eventQ') = Travelling(eventQ) /\ Len(waitQ') = Len(waitQ)
        /\ Len(running') = Len(running) - 1
    BY <1>4, <1>8
  <2>9. Present(waitQ', running', eventQ') + 1 = Present(waitQ, running, eventQ)
    BY <1>8, <2>1, <2>8 DEF Present
  <2>10. Present(waitQ', running', eventQ') \in Nat
    BY SMTT(60), <1>8, <2>1, <2>8 DEF Present
  <2>11. Ended(metrics') + Present(waitQ', running', eventQ')
           = Ended(metrics) + Present(waitQ, running, eventQ)
    BY <2>1, <2>7, <2>9, <2>10
  <2> QED BY <1>1, <2>6, <2>11, CountsMove
<1>20. Slots' BY <1>1, <1>4, SlotsFrame
<1> QED BY <1>10, <1>11, <1>14, <1>15, <1>16, <1>17, <1>18, <1>19, <1>20 DEF EngineInv

(* A request that is not finished stays. *)
LEMMA KeepRequestGood ==
  ASSUME EngineInv, KeepRequest
  PROVE  EngineInv'
<1>1. Shapes /\ Scan /\ Pendings /\ Places /\ Deadlines /\ Counts /\ Room /\ Slots /\ Pins
  BY DEF EngineInv
<1>2. /\ clock' = clock /\ eventQ' = eventQ /\ stepEvent' = stepEvent
      /\ arrivalTime' = arrivalTime /\ state' = state /\ progress' = progress
      /\ numNew' = numNew /\ computed' = computed
      /\ carry' = carry /\ waitQ' = waitQ /\ running' = running
      /\ kvTokens' = kvTokens /\ freeBlocks' = freeBlocks
      /\ resident' = resident /\ pinCount' = pinCount
      /\ adapterPinned' = adapterPinned /\ loading' = loading /\ metrics' = metrics
      /\ cursor' = cursor + 1 /\ want' = want /\ budget' = budget
      /\ preempted' = preempted /\ advance' = advance /\ pc = "complete" /\ pc' = pc
  BY DEF KeepRequest, eventVars, reqVars, kvVars, loraVars
<1>3. SameMembers(waitQ, waitQ') /\ SameMembers(running, running')
  BY <1>2, SameSelf
<1>4. /\ SameTravel(eventQ, eventQ') /\ SameTimeouts(eventQ, eventQ')
      /\ Due(eventQ', clock')
  BY <1>1, <1>2, SameSelf DEF Deadlines
<1>5. cursor' \in Nat /\ cursor' >= 1 BY <1>1, <1>2 DEF Shapes, Scan
<1>6. Shapes' BY <1>1, <1>2, <1>5 DEF Shapes
<1>7. Scan' BY <1>2, <1>5 DEF Scan
<1>8. Pendings' BY <1>1, <1>2, PendingsBusy
<1>9. Places' /\ Deadlines' /\ Counts'
  BY <1>1, <1>2, <1>3, <1>4, PlacesFrame, DeadlinesFrame, CountsFrame
<1>10. Room' BY <1>1, <1>2, <1>3, RoomFrame DEF kvVars
<1>11. Slots' /\ Pins' BY <1>1, <1>2, <1>3, SlotsFrame, PinsFrame
<1> QED BY <1>5, <1>6, <1>7, <1>8, <1>9, <1>10, <1>11 DEF EngineInv

(* The step ends: the next is pending, or there is nothing to do but to    *)
(* wait for an adapter.                                                    *)
LEMMA ScheduleNextStepGood ==
  ASSUME EngineInv, ScheduleNextStep
  PROVE  EngineInv'
<1>1. Shapes /\ Scan /\ Pendings /\ Places /\ Deadlines /\ Counts /\ Room /\ Slots /\ Pins
  BY DEF EngineInv
<1>2. /\ pc = "complete" /\ pc' = "idle" /\ cursor' = 0 /\ budget' = 0 /\ advance' = 0
      /\ preempted' = FALSE
      /\ NextStepNeeded => eventQ' = Schedule(eventQ, advance, "step", 0) /\ stepEvent' = TRUE
      /\ ~NextStepNeeded => eventQ' = eventQ /\ stepEvent' = FALSE
  BY DEF ScheduleNextStep
<1>3. /\ clock' = clock /\ arrivalTime' = arrivalTime /\ state' = state
      /\ progress' = progress /\ numNew' = numNew /\ computed' = computed
      /\ carry' = carry /\ waitQ' = waitQ /\ running' = running
      /\ kvTokens' = kvTokens /\ freeBlocks' = freeBlocks
      /\ resident' = resident /\ pinCount' = pinCount
      /\ adapterPinned' = adapterPinned /\ loading' = loading /\ metrics' = metrics
      /\ want' = want
  BY DEF ScheduleNextStep, reqVars, kvVars, loraVars
<1>4. Heap(eventQ) /\ advance \in Nat BY <1>1 DEF Shapes
<1>5. Steps(eventQ) = 0 BY <1>1, <1>2 DEF Pendings, One
<1>6. Due(eventQ, clock) BY <1>1 DEF Deadlines
<1>7. /\ Heap(eventQ') /\ Due(eventQ', clock') /\ stepEvent' \in BOOLEAN
      /\ SameTravel(eventQ, eventQ') /\ SameLoads(eventQ, eventQ')
      /\ SameTimeouts(eventQ, eventQ')
  <2>1. CASE NextStepNeeded
    <3>1. eventQ' = Schedule(eventQ, advance, "step", 0) BY <1>2, <2>1
    <3>2. Heap(eventQ') /\ SameTravel(eventQ, eventQ') /\ SameLoads(eventQ, eventQ')
      BY <1>4, <3>1, ScheduleStep
    <3>3. SameTimeouts(eventQ, eventQ') /\ Due(eventQ', clock)
      BY <1>4, <1>6, <3>1, ScheduleStep
    <3> QED BY <1>2, <1>3, <2>1, <3>2, <3>3
  <2>2. CASE ~NextStepNeeded
    <3>1. eventQ' = eventQ /\ stepEvent' = FALSE BY <1>2, <2>2
    <3> QED BY <1>3, <1>4, <1>6, <3>1, SameSelf
  <2> QED BY <2>1, <2>2
<1>8. Steps(eventQ') = IF stepEvent' THEN 1 ELSE 0
  <2>1. CASE NextStepNeeded
    <3>1. eventQ' = Schedule(eventQ, advance, "step", 0) /\ stepEvent'
      BY <1>2, <2>1
    <3>2. Steps(eventQ') = Steps(eventQ) + 1 BY <1>4, <3>1, ScheduleStep
    <3> QED BY <1>5, <3>1, <3>2
  <2>2. CASE ~NextStepNeeded BY <1>2, <1>5, <2>2
  <2> QED BY <2>1, <2>2
<1>9. SameMembers(waitQ, waitQ') /\ SameMembers(running, running')
  BY <1>3, SameSelf
<1>10. Shapes'
  <2>1. cursor' \in Nat /\ budget' \in Nat /\ advance' \in Nat /\ preempted' \in BOOLEAN
    BY <1>2
  <2> QED BY <1>1, <1>2, <1>3, <1>7, <2>1 DEF Shapes
<1>11. Scan' BY <1>2 DEF Scan
<1>12. Pendings'
  <2>1. \A a \in Adapters : Loads(eventQ', a) = One(loading' = a)
    BY <1>1, <1>3, <1>7 DEF Pendings, SameLoads
  <2>2. (running' # <<>> => stepEvent') /\ (waitQ' # <<>> => stepEvent' \/ loading' # NoAdapter)
    BY <1>2, <1>3 DEF NextStepNeeded
  <2> QED BY <1>2, <1>8, <2>1, <2>2 DEF Pendings, One
<1>13. Places' /\ Deadlines' /\ Counts'
  BY <1>1, <1>3, <1>7, <1>9, PlacesFrame, DeadlinesFrame, CountsFrame
<1>14. Room' BY <1>1, <1>3, <1>9, RoomFrame DEF kvVars
<1>15. Slots' /\ Pins' BY <1>1, <1>3, <1>9, SlotsFrame, PinsFrame
<1> QED BY <1>10, <1>11, <1>12, <1>13, <1>14, <1>15 DEF EngineInv

(* The load in flight is the one that completes: it takes the slot kept    *)
(* for it, and whoever waits gets a step.                                  *)
LEMMA CompleteAdapterLoadGood ==
  ASSUME EngineInv, CompleteAdapterLoad
  PROVE  EngineInv'
<1>1. Shapes /\ Scan /\ Pendings /\ Places /\ Deadlines /\ Counts /\ Room /\ Slots /\ Pins
  BY DEF EngineInv
<1>2. Dispatch("load") /\ clock' = Now BY DEF CompleteAdapterLoad, Tick, Now
<1>3. /\ pc = "idle" /\ eventQ # <<>> /\ Head(eventQ).kind = "load" /\ Heap(eventQ)
      /\ Heap(Rest) /\ Due(Rest, Now) /\ Now \in 0 .. Late /\ Now \in Nat
      /\ arrivalTime \in [Requests -> ArrivalTimes]
  BY <1>1, <1>2, Dispatched
<1> DEFINE a == Head(eventQ).arg
<1>4. /\ arrivalTime' = arrivalTime /\ state' = state /\ progress' = progress
      /\ numNew' = numNew /\ computed' = computed /\ carry' = carry
      /\ waitQ' = waitQ /\ running' = running
      /\ kvTokens' = kvTokens /\ freeBlocks' = freeBlocks
      /\ adapterPinned' = adapterPinned /\ metrics' = metrics
      /\ pc' = pc /\ cursor' = cursor /\ want' = want /\ budget' = budget
      /\ preempted' = preempted /\ advance' = advance
      /\ loading' = NoAdapter /\ ScheduleStepIfIdle(Rest, waitQ)
  BY DEF CompleteAdapterLoad, WakeAfterLoad, reqVars, kvVars, stepVars
<1>5. /\ a \in Adapters /\ Loads(eventQ, a) = Loads(Rest, a) + 1
      /\ \A b \in Adapters \ {a} : Loads(eventQ, b) = Loads(Rest, b)
  BY <1>3, PopLoad
<1>6. SameTravel(eventQ, Rest) /\ SameSteps(eventQ, Rest) /\ SameTimeouts(eventQ, Rest)
  BY <1>3, PopLoad
<1>7. /\ resident \in Seq(Adapters) /\ pinCount \in [Adapters -> Int]
      /\ stepEvent \in BOOLEAN /\ Len(resident) \in Nat
  BY <1>1 DEF Shapes
<1>8. a # NoAdapter BY <1>5, ConstantTypes
<1>9. a \notin RangeOf(resident) /\ Len(resident) < AdapterCapacity /\ Distinct(resident)
      /\ \A b \in Adapters : Loads(Rest, b) = 0
  <2>1. \A b \in Adapters : Loads(Rest, b) \in Nat BY <1>3, NumbersType
  <2>2. \A b \in Adapters : Loads(eventQ, b) = One(loading = b)
    BY <1>1 DEF Pendings
  <2>3. loading = a /\ Loads(Rest, a) = 0 BY <1>5, <2>1, <2>2 DEF One
  <2>4. \A b \in Adapters \ {a} : Loads(Rest, b) = 0
    BY <1>5, <2>2, <2>3 DEF One
  <2>5. /\ Distinct(resident) /\ loading \notin RangeOf(resident)
        /\ Len(resident) + One(loading # NoAdapter) <= AdapterCapacity
    BY <1>1 DEF Slots
  <2>6. AdapterCapacity \in Nat BY ConstantTypes
  <2> QED BY <1>5, <1>7, <1>8, <2>3, <2>4, <2>5, <2>6 DEF One
<1>10. resident' = Append(resident, a) /\ pinCount' = [pinCount EXCEPT ![a] = 0]
  <2>1. ~IsResident(a) /\ ~(Len(resident) >= AdapterCapacity)
    BY <1>7, <1>9, ConstantTypes DEF IsResident
  <2> QED BY <1>9, <2>1 DEF CompleteAdapterLoad
<1> HIDE DEF a
<1>11. /\ resident' \in Seq(Adapters) /\ Len(resident') = Len(resident) + 1
       /\ RangeOf(resident') = RangeOf(resident) \cup {a} /\ Distinct(resident')
  BY <1>5, <1>7, <1>9, <1>10, AppendShape
<1>12. pinCount' = pinCount
  <2>1. Holders(adapterPinned, a) \in SUBSET Requests BY DEF Holders
  <2>2. Cardinality(Holders(adapterPinned, a)) \in Nat
    BY <2>1, FS_Subset, FS_CardinalityType, ConstantTypes
  <2>3. /\ pinCount[a] = Cardinality(Holders(adapterPinned, a))
        /\ pinCount[a] > 0 => a \in RangeOf(resident)
    BY <1>1, <1>5 DEF Pins
  <2>4. pinCount[a] = 0 BY <1>9, <2>2, <2>3
  <2> QED BY <1>5, <1>7, <1>10, <2>4
<1>13. /\ Heap(eventQ') /\ stepEvent' \in BOOLEAN /\ SameTravel(Rest, eventQ')
       /\ SameTimeouts(Rest, eventQ') /\ Due(eventQ', Now)
  BY <1>3, <1>4, <1>7, StepIfIdle
<1>14. SameTravel(eventQ, eventQ') /\ SameTimeouts(eventQ, eventQ') /\ Due(eventQ', clock')
  BY <1>2, <1>6, <1>13 DEF SameTravel, SameTimeouts
<1>15. SameMembers(waitQ, waitQ') /\ SameMembers(running, running')
  BY <1>4, SameSelf
<1>16. Shapes' BY <1>1, <1>2, <1>3, <1>4, <1>11, <1>12, <1>13 DEF Shapes
<1>17. Scan' BY <1>1, <1>3, <1>4 DEF Scan
<1>18. Pendings'
  <2>1. \A b \in Adapters : Loads(Rest, b) = One(loading' = b)
    BY <1>4, <1>9, ConstantTypes DEF One
  <2> QED BY <1>1, <1>3, <1>4, <1>6, <1>7, <2>1, PendingsWake
<1>19. Places' /\ Deadlines' /\ Counts'
  BY <1>1, <1>4, <1>14, <1>15, PlacesFrame, DeadlinesFrame, CountsFrame
<1>20. Room' BY <1>1, <1>4, <1>15, RoomFrame DEF kvVars
<1>21. Slots'
  <2>1. loading' \notin RangeOf(resident')
    <3>1. RangeOf(resident') \subseteq Adapters BY <1>11 DEF RangeOf
    <3> QED BY <1>4, <3>1, ConstantTypes
  <2>2. Len(resident') + One(loading' # NoAdapter) <= AdapterCapacity
    BY <1>4, <1>7, <1>9, <1>11, ConstantTypes DEF One
  <2> QED BY <1>11, <2>1, <2>2 DEF Slots
<1>22. Pins'
  <2>1. RangeOf(resident) \subseteq RangeOf(resident') BY <1>11
  <2> QED BY <1>1, <1>4, <1>12, <1>15, <2>1, PinsFrame
<1> QED BY <1>16, <1>17, <1>18, <1>19, <1>20, <1>21, <1>22 DEF EngineInv

(* The timeout of a completed request is dropped. *)
LEMMA SkipTimeoutGood ==
  ASSUME EngineInv, SkipTimeout
  PROVE  EngineInv'
<1>1. Shapes /\ Scan /\ Pendings /\ Places /\ Deadlines /\ Counts /\ Room /\ Slots /\ Pins
  BY DEF EngineInv
<1> DEFINE r == Head(eventQ).arg
<1>2. Dispatch("timeout") /\ state[r] = "completed" /\ eventQ' = Tail(eventQ)
  BY DEF SkipTimeout
<1>3. /\ clock' = clock /\ stepEvent' = stepEvent
      /\ arrivalTime' = arrivalTime /\ state' = state /\ progress' = progress
      /\ numNew' = numNew /\ computed' = computed
      /\ carry' = carry /\ waitQ' = waitQ /\ running' = running
      /\ kvTokens' = kvTokens /\ freeBlocks' = freeBlocks
      /\ resident' = resident /\ pinCount' = pinCount
      /\ adapterPinned' = adapterPinned /\ loading' = loading /\ metrics' = metrics
      /\ cursor' = cursor /\ want' = want /\ budget' = budget
      /\ preempted' = preempted /\ advance' = advance /\ pc' = pc
  BY DEF SkipTimeout, reqVars, kvVars, loraVars, stepVars
<1>4. pc = "idle" /\ eventQ # <<>> /\ Head(eventQ).kind = "timeout" /\ Heap(eventQ)
      /\ Heap(Rest)
  BY <1>1, <1>2, Dispatched
<1>5. /\ r \in Requests /\ Timeouts(eventQ, r) = Timeouts(Rest, r) + 1
      /\ \A s \in Requests \ {r} : Timeouts(eventQ, s) = Timeouts(Rest, s)
      /\ SameTravel(eventQ, Rest) /\ SameSteps(eventQ, Rest) /\ SameLoads(eventQ, Rest)
  BY <1>4, PopTimeout
<1>6. /\ SameTravel(Rest, eventQ') /\ SameSteps(Rest, eventQ')
      /\ SameLoads(Rest, eventQ') /\ SameTimeouts(Rest, eventQ')
  BY <1>2, <1>4, TailNumbers
<1> HIDE DEF r
<1>7. Heap(eventQ') BY <1>2, <1>4, RestHeap
<1>8. Due(eventQ', clock)
  <2>1. clock \in 0 .. Late /\ arrivalTime \in [Requests -> ArrivalTimes] /\ Due(eventQ, clock)
    BY <1>1 DEF Shapes, Deadlines
  <2> QED BY <1>2, <1>4, <2>1, RestDue
<1>9. SameTravel(eventQ, eventQ') /\ SameSteps(eventQ, eventQ') /\ SameLoads(eventQ, eventQ')
  BY <1>5, <1>6 DEF SameTravel, SameSteps, SameLoads
<1>10. SameMembers(waitQ, waitQ') /\ SameMembers(running, running')
  BY <1>3, SameSelf
<1>11. Shapes' BY <1>1, <1>3, <1>7 DEF Shapes
<1>12. Scan' BY <1>1, <1>3 DEF Scan
<1>13. Pendings' BY <1>1, <1>3, <1>9, PendingsFrame
<1>14. Places' /\ Counts' BY <1>1, <1>3, <1>9, <1>10, PlacesFrame, CountsFrame
<1>15. Deadlines'
  <2>1. Due(eventQ, clock)' BY <1>3, <1>8 DEF Due, Deadline
  <2>2. \A s \in Requests \ {r} : Timeouts(eventQ', s) = Timeouts(eventQ, s)
    BY <1>5, <1>6 DEF SameTimeouts
  <2>3. Timeouts(eventQ', r) <= 1
    <3>1. Timeouts(eventQ, r) <= 1 BY <1>1, <1>5 DEF Deadlines
    <3>2. Timeouts(Rest, r) \in Nat BY <1>4, <1>5, NumbersType
    <3>3. Timeouts(eventQ', r) = Timeouts(Rest, r)
      BY <1>5, <1>6 DEF SameTimeouts
    <3> QED BY <1>5, <3>1, <3>2, <3>3
  <2>4. r \notin RangeOf(waitQ) /\ r \notin RangeOf(running)
    BY <1>1, <1>2, <1>5 DEF Places
  <2> QED BY <1>1, <1>2, <1>3, <2>1, <2>2, <2>3, <2>4 DEF Deadlines
<1>16. Room' BY <1>1, <1>3, <1>10, RoomFrame DEF kvVars
<1>17. Slots' /\ Pins' BY <1>1, <1>3, <1>10, SlotsFrame, PinsFrame
<1> QED BY <1>11, <1>12, <1>13, <1>14, <1>15, <1>16, <1>17 DEF EngineInv

(* The deadline of a request that waits or runs: it gives back its blocks  *)
(* and its pin, and the instance wakes if others wait.                     *)
LEMMA TimeOutGood ==
  ASSUME EngineInv, TimeOut
  PROVE  EngineInv'
<1>1. Shapes /\ Scan /\ Pendings /\ Places /\ Deadlines /\ Counts /\ Room /\ Slots /\ Pins
  BY DEF EngineInv
<1> DEFINE r == Head(eventQ).arg
           w == IF running' = <<>> THEN waitQ' ELSE <<>>
<1>2. /\ Dispatch("timeout") /\ state[r] \in {"queued", "running"} /\ clock' = Now
      /\ state' = [state EXCEPT ![r] = "timed_out"]
      /\ metrics' = [metrics EXCEPT !.timedOut = @ + 1]
      /\ ReleaseAdapterPin(r) /\ ReleaseKVBlocks(r)
      /\ computed' = [computed EXCEPT ![r] = 0]
      /\ state[r] = "running" => running' = Without(running, r) /\ waitQ' = waitQ
      /\ state[r] # "running" => running' = running /\ waitQ' = Without(waitQ, r)
      /\ ScheduleStepIfIdle(Rest, w)
  BY DEF TimeOut, Tick, Now
<1>3. /\ arrivalTime' = arrivalTime /\ progress' = progress /\ numNew' = numNew
      /\ carry' = carry /\ resident' = resident /\ loading' = loading
      /\ pc' = pc /\ cursor' = cursor /\ want' = want /\ budget' = budget
      /\ preempted' = preempted /\ advance' = advance
  BY DEF TimeOut, stepVars
<1>4. /\ pc = "idle" /\ eventQ # <<>> /\ Head(eventQ).kind = "timeout" /\ Heap(eventQ)
      /\ Heap(Rest) /\ Due(Rest, Now) /\ Now \in 0 .. Late /\ Now \in Nat
      /\ arrivalTime \in [Requests -> ArrivalTimes]
  BY <1>1, <1>2, Dispatched
<1>5. /\ r \in Requests /\ Timeouts(eventQ, r) = Timeouts(Rest, r) + 1
      /\ \A s \in Requests \ {r} : Timeouts(eventQ, s) = Timeouts(Rest, s)
      /\ SameTravel(eventQ, Rest) /\ SameSteps(eventQ, Rest) /\ SameLoads(eventQ, Rest)
  BY <1>4, PopTimeout
<1>6. /\ running \in Seq(Requests) /\ waitQ \in Seq(Requests) /\ stepEvent \in BOOLEAN
      /\ computed \in [Requests -> Nat]
      /\ state \in [Requests -> {"queued", "running", "completed", "timed_out"}]
      /\ metrics \in [completed : Nat, timedOut : Nat, dropped : Nat,
                      kvAllocationFailures : Nat]
  BY <1>1 DEF Shapes
<1>7. Distinct(waitQ) /\ Distinct(running) BY <1>1 DEF Places
<1> HIDE DEF r
<1>8. Timeouts(Rest, r) = 0 /\ Timeouts(eventQ, r) > 0
  <2>1. Timeouts(eventQ, r) <= 1 BY <1>1, <1>5 DEF Deadlines
  <2>2. Timeouts(Rest, r) \in Nat BY <1>4, <1>5, NumbersType
  <2> QED BY <1>5, <2>1, <2>2
<1>9. /\ state[r] = "running" => r \in RangeOf(running) /\ r \notin RangeOf(waitQ)
      /\ state[r] # "running" => r \in RangeOf(waitQ) /\ r \notin RangeOf(running)
  <2>1. r \in RangeOf(waitQ) \/ r \in RangeOf(running) \/ state[r] = "completed"
    BY <1>1, <1>5, <1>8 DEF Deadlines
  <2> QED BY <1>1, <1>2, <1>5, <2>1 DEF Places
<1>10. /\ running' \in Seq(Requests) /\ waitQ' \in Seq(Requests)
       /\ Distinct(running') /\ Distinct(waitQ')
       /\ RangeOf(running') = RangeOf(running) \ {r}
       /\ RangeOf(waitQ') = RangeOf(waitQ) \ {r}
       /\ Len(running') \in Nat /\ Len(waitQ') \in Nat
       /\ Len(waitQ') + Len(running') + 1 = Len(waitQ) + Len(running)
       /\ running' # <<>> => running # <<>>
       /\ waitQ' # <<>> => waitQ # <<>>
  <2>1. Len(running) \in Nat /\ Len(waitQ) \in Nat BY <1>1, CountTypes
  <2>2. CASE state[r] = "running"
    <3>1. running' = Without(running, r) /\ waitQ' = waitQ BY <1>2, <2>2
    <3>2. /\ running' \in Seq(Requests) /\ Len(running) > 0
          /\ Len(running') = Len(running) - 1 /\ Distinct(running')
          /\ RangeOf(running') = RangeOf(running) \ {r}
      BY <1>6, <1>7, <1>9, <2>2, <3>1, WithoutShape, SMTT(40)
    <3>3. running # <<>> BY <3>2
    <3> QED BY SMTT(60), <1>6, <1>7, <1>9, <2>1, <2>2, <3>1, <3>2, <3>3
  <2>3. CASE state[r] # "running"
    <3>1. running' = running /\ waitQ' = Without(waitQ, r) BY <1>2, <2>3
    <3>2. /\ waitQ' \in Seq(Requests) /\ Len(waitQ) > 0
          /\ Len(waitQ') = Len(waitQ) - 1 /\ Distinct(waitQ')
          /\ RangeOf(waitQ') = RangeOf(waitQ) \ {r}
      BY SMTT(60), <1>6, <1>7, <1>9, <2>3, <3>1, WithoutShape
    <3>3. waitQ # <<>> BY <3>2
    <3> QED BY SMTT(60), <1>6, <1>7, <1>9, <2>1, <2>3, <3>1, <3>2, <3>3
  <2> QED BY <2>2, <2>3
<1>11. Room' /\ kvTokens' \in [Requests -> Nat] /\ freeBlocks' \in Nat
  <2>1. RangeOf(running) \ {r} \subseteq RangeOf(running') BY <1>10
  <2> QED BY <1>1, <1>2, <1>5, <2>1, ReleaseRoom
<1>12. /\ Pins' /\ pinCount' \in [Adapters -> Int] /\ adapterPinned' \in [Requests -> BOOLEAN]
  <2>1. RangeOf(running') \subseteq RangeOf(running) \ {r} BY <1>10
  <2>2. \A s \in Requests \ {r} : s \in RangeOf(waitQ) \/ s \in RangeOf(running)
                                    => s \in RangeOf(waitQ') \/ s \in RangeOf(running')
    BY <1>10
  <2> QED BY <1>1, <1>2, <1>3, <1>5, <2>1, <2>2, ReleasePins
<1>13. /\ Heap(eventQ') /\ stepEvent' \in BOOLEAN /\ SameTravel(Rest, eventQ')
       /\ SameTimeouts(Rest, eventQ') /\ Due(eventQ', Now)
  BY <1>2, <1>4, <1>6, StepIfIdle
<1>14. state'[r] = "timed_out" /\ \A s \in Requests \ {r} : state'[s] = state[s]
  BY <1>2, <1>5, <1>6
<1>15. /\ metrics'.completed = metrics.completed /\ metrics'.timedOut = metrics.timedOut + 1
       /\ metrics'.dropped = metrics.dropped
       /\ metrics.completed \in Nat /\ metrics.timedOut \in Nat /\ metrics.dropped \in Nat
       /\ metrics' \in [completed : Nat, timedOut : Nat, dropped : Nat,
                        kvAllocationFailures : Nat]
  BY <1>2, <1>6, SMTT(40)
<1>16. Shapes'
  <2>1. state' \in [Requests -> {"queued", "running", "completed", "timed_out"}]
    BY <1>2, <1>5, <1>6
  <2>2. computed' \in [Requests -> Nat] BY <1>2, <1>6
  <2> QED BY <1>1, <1>2, <1>3, <1>4, <1>10, <1>11, <1>12, <1>13, <1>15, <2>1, <2>2 DEF Shapes
<1>17. Scan' BY <1>1, <1>3, <1>4 DEF Scan
<1>18. Pendings'
  <2>1. \A b \in Adapters : Loads(Rest, b) = One(loading' = b)
    BY <1>1, <1>3, <1>5 DEF Pendings, SameLoads
  <2>2. waitQ' # <<>> => w # <<>> \/ (waitQ # <<>> /\ loading' = loading)
    BY <1>3, <1>10
  <2>3. ScheduleStepIfIdle(Rest, w) /\ pc' = "idle" /\ (running' # <<>> => running # <<>>)
    BY <1>2, <1>3, <1>4, <1>10
  <2> HIDE DEF w
  <2> QED BY <1>1, <1>4, <1>5, <1>6, <2>1, <2>2, <2>3, PendingsWake
<1>19. Places'
  <2>1. \A s \in Requests : OnWay(eventQ', s) = OnWay(eventQ, s)
    BY <1>5, <1>13 DEF SameTravel
  <2>2. ~(OnWay(eventQ, r) > 0) BY <1>1, <1>5, <1>9 DEF Places
  <2> QED BY <1>1, <1>9, <1>10, <1>14, <2>1, <2>2 DEF Places
<1>20. Deadlines'
  <2>1. Due(eventQ, clock)' BY <1>2, <1>3, <1>13 DEF Due, Deadline
  <2>2. \A s \in Requests \ {r} : Timeouts(eventQ', s) = Timeouts(eventQ, s)
    BY <1>5, <1>13 DEF SameTimeouts
  <2>3. Timeouts(eventQ', r) = 0 BY <1>5, <1>8, <1>13 DEF SameTimeouts
  <2>4. \A s \in Requests \ {r} : state[s] = "completed" => state'[s] = "completed"
    BY <1>14
  <2> QED BY <1>1, <1>10, <2>1, <2>2, <2>3, <2>4 DEF Deadlines
<1>21. Counts'
  <2>1. /\ Len(waitQ) \in Nat /\ Len(running) \in Nat /\ Travelling(eventQ) \in Nat
        /\ Ended(metrics) \in Nat
    BY <1>1, CountTypes
  <2>2. In("timed_out")' = In("timed_out") \cup {r} /\ In("completed")' = In("completed")
    BY <1>2, <1>5, <1>14 DEF In
  <2>3. In("timed_out") \in SUBSET Requests /\ r \notin In("timed_out")
    BY <1>2 DEF In
  <2>4. Cardinality(In("timed_out")') = Cardinality(In("timed_out")) + 1
    BY <1>5, <2>2, <2>3, RequestsAdd
  <2>5. /\ metrics.completed = Cardinality(In("completed"))
        /\ metrics.timedOut = Cardinality(In("timed_out"))
    BY <1>1 DEF Counts
  <2>6. metrics'.completed = Cardinality(In("completed")')
        /\ metrics'.timedOut = Cardinality(In("timed_out")')
    BY <1>15, <2>2, <2>4, <2>5
  <2>7. Ended(metrics') = Ended(metrics) + 1 BY <1>15 DEF Ended
  <2>8. Travelling(eventQ') = Travelling(eventQ) BY <1>5, <1>13 DEF SameTravel
  <2>9. /\ Len(running') \in Nat /\ Len(waitQ') \in Nat
        /\ Len(waitQ') + Len(running') + 1 = Len(waitQ) + Len(running)
    BY <1>10
  <2>10. Present(waitQ', running', eventQ') + 1 = Present(waitQ, running, eventQ)
    BY <2>1, <2>8, <2>9 DEF Present
  <2>11. Present(waitQ', running', eventQ') \in Nat
    BY <2>1, <2>8, <2>9 DEF Present
  <2>12. Ended(metrics') + Present(waitQ', running', eventQ')
           = Ended(metrics) + Present(waitQ, running, eventQ)
    BY <2>1, <2>7, <2>10, <2>11
  <2> QED BY <1>1, <2>6, <2>12, CountsMove
<1>22. Slots' BY <1>1, <1>3, SlotsFrame
<1> QED BY <1>11, <1>12, <1>16, <1>17, <1>18, <1>19, <1>20, <1>21, <1>22 DEF EngineInv

(* A stuttering step. *)
LEMMA StutterGood ==
  ASSUME EngineInv, UNCHANGED vars
  PROVE  EngineInv'
<1>1. Shapes /\ Scan /\ Pendings /\ Places /\ Deadlines /\ Counts /\ Room /\ Slots /\ Pins
  BY DEF EngineInv
<1>2. /\ clock' = clock /\ eventQ' = eventQ /\ stepEvent' = stepEvent
      /\ arrivalTime' = arrivalTime /\ state' = state /\ progress' = progress
      /\ numNew' = numNew /\ computed' = computed
      /\ carry' = carry /\ waitQ' = waitQ /\ running' = running
      /\ kvTokens' = kvTokens /\ freeBlocks' = freeBlocks
      /\ resident' = resident /\ pinCount' = pinCount
      /\ adapterPinned' = adapterPinned /\ loading' = loading /\ metrics' = metrics
      /\ cursor' = cursor /\ want' = want /\ budget' = budget
      /\ preempted' = preempted /\ advance' = advance /\ pc' = pc
  BY DEF vars, eventVars, reqVars, kvVars, loraVars, stepVars
<1>3. SameMembers(waitQ, waitQ') /\ SameMembers(running, running')
  BY <1>2, SameSelf
<1>4. /\ SameTravel(eventQ, eventQ') /\ SameTimeouts(eventQ, eventQ')
      /\ SameSteps(eventQ, eventQ') /\ SameLoads(eventQ, eventQ')
      /\ Due(eventQ', clock')
  BY <1>1, <1>2, SameSelf DEF Deadlines
<1>5. Shapes' /\ Scan' BY ZenonT(60), <1>1, <1>2 DEF Shapes, Scan
<1>6. Pendings' BY <1>1, <1>2, <1>4, PendingsFrame
<1>7. Places' /\ Deadlines' /\ Counts'
  BY <1>1, <1>2, <1>3, <1>4, PlacesFrame, DeadlinesFrame, CountsFrame
<1>8. Room' BY <1>1, <1>2, <1>3, RoomFrame DEF kvVars
<1>9. Slots' /\ Pins' BY <1>1, <1>2, <1>3, SlotsFrame, PinsFrame
<1> QED BY <1>5, <1>6, <1>7, <1>8, <1>9 DEF EngineInv

------------------------------
(* Every step of the instance, whatever the order of events, the victims   *)
(* and the latencies, keeps the invariant.                                 *)
THEOREM EngineInvariant == Spec => []EngineInv
<1>1. Init => EngineInv BY InitGood
<1>2. EngineInv /\ [Next]_vars => EngineInv'
  <2> SUFFICES ASSUME EngineInv, [Next]_vars PROVE EngineInv' OBVIOUS
  <2>1. CASE Arrive BY <2>1, ArriveGood
  <2>2. CASE Enqueue BY <2>2, EnqueueGood
  <2>3. CASE StartStep BY <2>3, StartStepGood
  <2>4. CASE ScheduleRunning BY <2>4, ScheduleRunningGood
  <2>5. CASE PreemptVictim BY <2>5, PreemptVictimGood
  <2>6. CASE EndPhase1 BY <2>6, EndPhase1Good
  <2>7. CASE Admit BY <2>7, AdmitGood
  <2>8. CASE Execute BY <2>8, ExecuteGood
  <2>9. CASE CompleteRequest BY <2>9, CompleteRequestGood
  <2>10. CASE KeepRequest BY <2>10, KeepRequestGood
  <2>11. CASE ScheduleNextStep BY <2>11, ScheduleNextStepGood
  <2>12. CASE CompleteAdapterLoad BY <2>12, CompleteAdapterLoadGood
  <2>13. CASE SkipTimeout BY <2>13, SkipTimeoutGood
  <2>14. CASE TimeOut BY <2>14, TimeOutGood
  <2>15. CASE UNCHANGED vars BY <2>15, StutterGood
  <2> QED BY <2>1, <2>2, <2>3, <2>4, <2>5, <2>6, <2>7, <2>8, <2>9, <2>10, <2>11, <2>12,
             <2>13, <2>14, <2>15 DEF Next
<1> QED BY <1>1, <1>2, PTL DEF Spec

(* The events of a kind in a heap are those about anybody it may concern. *)
LEMMA PendingEvents ==
  ASSUME Heap(eventQ)
  PROVE  /\ Pending("step") = Holding(eventQ, {"step"}, {0})
         /\ Pending("arrival") \cup Pending("queued")
              = Holding(eventQ, {"arrival", "queued"}, Requests)
         /\ \A i \in DOMAIN eventQ : i \in 1 .. Len(eventQ)
         /\ IsFiniteSet(Pending("step"))
<1>1. eventQ \in Seq(GoodEvents) /\ DOMAIN eventQ = 1 .. Len(eventQ)
  BY DEF Heap
<1>2. \A i \in DOMAIN eventQ : eventQ[i] \in GoodEvents BY HeapEvents
<1>3. \A i \in DOMAIN eventQ :
        /\ eventQ[i].kind \in {"arrival", "queued"} => eventQ[i].arg \in Requests
        /\ eventQ[i].kind = "step" => eventQ[i].arg = 0
  BY <1>2 DEF GoodEvents
<1>4. Pending("step") = Holding(eventQ, {"step"}, {0})
  BY <1>1, <1>3 DEF Pending, Holding, About
<1>5. Pending("arrival") \cup Pending("queued")
        = Holding(eventQ, {"arrival", "queued"}, Requests)
  BY <1>1, <1>3 DEF Pending, Holding, About
<1>6. IsFiniteSet(Holding(eventQ, {"step"}, {0})) BY <1>1, NumberType
<1> QED BY <1>1, <1>4, <1>5, <1>6

(* What the invariant says of places and counts is INV-1 and INV-2. *)
LEMMA EngineRequests ==
  ASSUME EngineInv
  PROVE  RequestConservation
<1>1. Shapes /\ Places /\ Counts BY DEF EngineInv
<1>2. /\ waitQ \in Seq(Requests) /\ running \in Seq(Requests) /\ Heap(eventQ)
  BY <1>1 DEF Shapes
<1>3. Distinct(waitQ) /\ Distinct(running) BY <1>1 DEF Places
<1>4. RangeOf(waitQ) \subseteq Requests /\ RangeOf(running) \subseteq Requests
  BY <1>2 DEF RangeOf
<1>5. Cardinality(Alive) = Len(waitQ) + Len(running)
  <2>1. /\ IsFiniteSet(RangeOf(waitQ)) /\ Cardinality(RangeOf(waitQ)) = Len(waitQ)
        /\ IsFiniteSet(RangeOf(running)) /\ Cardinality(RangeOf(running)) = Len(running)
    BY <1>2, <1>3, DistinctCount
  <2>2. RangeOf(waitQ) \cap RangeOf(running) = {} BY <1>1, <1>4 DEF Places
  <2>3. Cardinality(RangeOf(waitQ) \cup RangeOf(running))
          = Cardinality(RangeOf(waitQ)) + Cardinality(RangeOf(running))
              - Cardinality(RangeOf(waitQ) \cap RangeOf(running))
    BY <2>1, FS_Union
  <2>4. Cardinality(RangeOf(waitQ) \cap RangeOf(running)) = 0
    BY <2>2, FS_EmptySet
  <2>5. Len(waitQ) \in Nat /\ Len(running) \in Nat BY <1>2, LenProperties
  <2> QED BY <2>1, <2>3, <2>4, <2>5 DEF Alive
<1>6. Cardinality(Pending("arrival") \cup Pending("queued")) = Travelling(eventQ)
  BY <1>2, PendingEvents DEF Travelling, Number
<1>7. /\ metrics.completed = Cardinality({r \in Requests : state[r] = "completed"})
      /\ metrics.timedOut = Cardinality({r \in Requests : state[r] = "timed_out"})
  BY <1>1 DEF Counts, In
<1>8. Cardinality(Requests) = metrics.completed + metrics.timedOut + metrics.dropped
        + Len(waitQ) + Len(running) + Travelling(eventQ)
  <2>1. Ended(metrics) + Present(waitQ, running, eventQ) = Cardinality(Requests)
    BY <1>1 DEF Counts
  <2>2. /\ Len(waitQ) \in Nat /\ Len(running) \in Nat /\ Travelling(eventQ) \in Nat
        /\ Ended(metrics) \in Nat
    BY <1>1, CountTypes
  <2>3. Ended(metrics) + Len(waitQ) + Len(running) + Travelling(eventQ) = Cardinality(Requests)
    BY <2>1, <2>2 DEF Present
  <2> QED BY <2>3 DEF Ended
<1>9. \A r \in Requests : r \in RangeOf(running) <=> state[r] = "running"
  BY <1>1 DEF Places
<1>10. \A r \in RangeOf(waitQ) : state[r] = "queued" BY <1>1, <1>4 DEF Places
<1> QED BY <1>5, <1>6, <1>7, <1>8, <1>9, <1>10 DEF RequestConservation

(* Blocks, pins and slots. *)
LEMMA EngineHoldings ==
  ASSUME EngineInv
  PROVE  /\ TypeOK /\ BlocksConserved /\ PinsExact /\ SlotReserved
<1>1. Shapes /\ Places /\ Room /\ Slots /\ Pins BY DEF EngineInv
<1>2. \A a \in Adapters : pinCount[a] \in Nat
  <2>1. ASSUME NEW a \in Adapters PROVE pinCount[a] \in Nat
    <3>1. Holders(adapterPinned, a) \in SUBSET Requests BY DEF Holders
    <3>2. Cardinality(Holders(adapterPinned, a)) \in Nat
      BY <3>1, FS_Subset, FS_CardinalityType, ConstantTypes
    <3> QED BY <1>1, <3>2 DEF Pins
  <2> QED BY <2>1
<1>3. TypeOK
  <2>1. pinCount \in [Adapters -> Nat] BY <1>1, <1>2 DEF Shapes
  <2>2. eventQ \in Seq(Events) BY <1>1, HeapEvents DEF Shapes
  <2> QED BY <1>1, <2>1, <2>2 DEF Shapes, TypeOK
<1>4. BlocksConserved BY <1>1 DEF Room, Held, BlocksConserved
<1>5. PinsExact
  <2>1. \A r \in Requests : state[r] \in {"completed", "timed_out"} => ~adapterPinned[r]
    <3>1. ASSUME NEW r \in Requests, state[r] \in {"completed", "timed_out"}
          PROVE  ~adapterPinned[r]
      <4>1. r \notin RangeOf(waitQ) /\ r \notin RangeOf(running)
        BY <1>1, <3>1 DEF Places
      <4> QED BY <1>1, <4>1 DEF Pins
    <3> QED BY <3>1
  <2>2. \A a \in Adapters :
          /\ pinCount[a] = Cardinality({r \in Requests : adapterPinned[r] /\ Adapter[r] = a})
          /\ pinCount[a] > 0 => IsResident(a)
    BY <1>1 DEF Pins, Holders, IsResident
  <2>3. \A r \in Requests : r \in RangeOf(running) /\ Adapter[r] # NoAdapter => adapterPinned[r]
    BY <1>1 DEF Pins
  <2> QED BY <2>1, <2>2, <2>3 DEF PinsExact
<1>6. SlotReserved
  <2>1. resident \in Seq(Adapters) /\ Distinct(resident)
    BY <1>1 DEF Shapes, Slots
  <2>2. Cardinality(RangeOf(resident)) = Len(resident) BY <2>1, DistinctCount
  <2>3. Len(resident) + (IF loading = NoAdapter THEN 0 ELSE 1) <= AdapterCapacity
    BY <1>1 DEF Slots, One
  <2>4. loading # NoAdapter => ~IsResident(loading)
    BY <1>1 DEF Slots, IsResident
  <2> QED BY <2>2, <2>3, <2>4 DEF SlotReserved
<1> QED BY <1>3, <1>4, <1>5, <1>6

(* INV-1, INV-2, INV-4, INV-L2 and INV-L5 at the instance: through every   *)
(* order of arrivals, steps, preemptions, timeouts and adapter loads, each *)
(* request is in one place and its blocks, pin and slot are given back     *)
(* exactly once.                                                           *)
THEOREM EngineNothingLeaks == Spec => []NothingLeaks
<1>1. EngineInv => NothingLeaks
  <2> SUFFICES ASSUME EngineInv PROVE NothingLeaks OBVIOUS
  <2> QED BY EngineRequests, EngineHoldings DEF NothingLeaks
<1> QED BY <1>1, EngineInvariant, PTL

(* INV-8 at the instance: its stepEvent pointer says whether a StepEvent   *)
(* is scheduled, there are never two, the instance never sleeps on work    *)
(* without an event to wake it, and no deadline is lost.                   *)
THEOREM EngineEventsArmed == Spec => []EventsArmed
<1>1. EngineInv => EventsArmed
  <2> SUFFICES ASSUME EngineInv PROVE EventsArmed OBVIOUS
  <2>1. Shapes /\ Pendings /\ Places /\ Deadlines BY DEF EngineInv
  <2>2. Heap(eventQ) /\ eventQ \in Seq(GoodEvents) /\ stepEvent \in BOOLEAN
    BY <2>1 DEF Shapes, Heap
  <2>3. /\ Pending("step") = Holding(eventQ, {"step"}, {0}) /\ IsFiniteSet(Pending("step"))
        /\ \A i \in DOMAIN eventQ : i \in 1 .. Len(eventQ)
    BY <2>2, PendingEvents
  <2>4. Cardinality(Pending("step")) = Steps(eventQ) BY <2>3 DEF Steps, Number
  <2>5. Pending("step") = {} <=> Steps(eventQ) = 0 BY <2>3, <2>4, FS_EmptySet
  <2>6. pc = "idle" => Steps(eventQ) = IF stepEvent THEN 1 ELSE 0
    BY <2>1 DEF Pendings, One
  <2>7. OneStepPending BY <2>2, <2>4, <2>5, <2>6 DEF OneStepPending
  <2>8. loading # NoAdapter => Pending("load") # {}
    <3> SUFFICES ASSUME loading # NoAdapter PROVE Pending("load") # {} OBVIOUS
    <3>1. loading \in Adapters BY <2>1 DEF Shapes
    <3>2. Loads(eventQ, loading) = 1 BY <2>1, <3>1 DEF Pendings, One
    <3>3. PICK i \in DOMAIN eventQ : About(eventQ[i], {"load"}, {loading})
      BY <2>2, <3>2, NumberType DEF Loads
    <3> QED BY <2>3, <3>3 DEF Pending, About
  <2>9. WorkConserving BY <2>1, <2>5, <2>6, <2>8 DEF Pendings, WorkConserving
  <2>10. DeadlineArmed
    <3> SUFFICES ASSUME NEW r \in Alive, Timeout[r] > 0
                 PROVE  \E i \in Pending("timeout") :
                          eventQ[i].arg = r /\ clock + eventQ[i].in = Deadline(r)
      BY DEF DeadlineArmed
    <3>1. r \in Requests /\ (r \in RangeOf(waitQ) \/ r \in RangeOf(running))
      <4>1. waitQ \in Seq(Requests) /\ running \in Seq(Requests)
        BY <2>1 DEF Shapes
      <4>2. RangeOf(waitQ) \subseteq Requests /\ RangeOf(running) \subseteq Requests
        BY <4>1 DEF RangeOf
      <4> QED BY <4>2 DEF Alive
    <3>2. Timeouts(eventQ, r) > 0 BY <2>1, <3>1 DEF Deadlines
    <3>3. PICK i \in DOMAIN eventQ : About(eventQ[i], {"timeout"}, {r})
      BY <2>2, <3>2, NumberType DEF Timeouts
    <3>4. clock + eventQ[i].in = Deadline(eventQ[i].arg)
      BY <2>1, <3>3 DEF Deadlines, Due, About
    <3>5. eventQ[i].kind = "timeout" /\ eventQ[i].arg = r BY <3>3 DEF About
    <3> QED BY <2>3, <3>4, <3>5 DEF Pending
  <2> QED BY <2>7, <2>9, <2>10 DEF EventsArmed
<1> QED BY <1>1, EngineInvariant, PTL

------------------------------
(* What batch formation keeps, on top of EngineInv: how far each request   *)
(* is, and what was granted to it in the step being formed.                *)

(* FormBatch is at work, or its batch has not been executed yet. *)
Forming == pc \in {"phase1", "preempt", "phase2"}

Capped(r) == MaxModelLen > 0 /\ progress[r] >= MaxModelLen - 1
Unfinished(r) == progress[r] < CompletionProgress(r)
Served(r) == progress[r] >= InputLen[r] => numNew[r] > 0 \/ Capped(r)

(* n tokens more take r neither past its completion nor past the model     *)
(* length.                                                                 *)
Fits(r, n) ==
  /\ progress[r] + n <= CompletionProgress(r)
  /\ MaxModelLen > 0 => progress[r] + n <= MaxModelLen - 1

(* n is what phase 1 may ask for on behalf of r. *)
Asked(r, n) ==
  /\ Fits(r, n)
  /\ progress[r] >= InputLen[r] => n > 0 \/ Capped(r)
  /\ progress[r] >= InputLen[r] /\ ~SpecEnabled => n <= 1

(* The progress of each request, before and after its tokens are computed. *)
Advancing ==
  \A r \in Requests :
    /\ Fits(r, 0)
    /\ state[r] = "queued" => progress[r] = 0 /\ computed[r] = 0 /\ numNew[r] = 0
    /\ state[r] = "running" =>
         /\ ~Forming => computed[r] = progress[r]
         /\ Forming => computed[r] = progress[r] + numNew[r] /\ Fits(r, numNew[r])
         /\ pc # "complete" => Unfinished(r)

(* processCompletions has taken out who is done, as far as it got. *)
Sifted ==
  pc = "complete" => \A i \in 1 .. Len(running) : i < cursor => Unfinished(running[i])

(* The budget and what was granted out of it. *)
Granted == [r \in Requests |-> IF state[r] = "running" THEN numNew[r] ELSE 0]
Shared == Forming => budget + Cardinality(Units(Granted)) = MaxNumBatchedTokens

(* Whom phase 1 has served: everyone before the cursor, nobody after it,   *)
(* and in the end everyone, if tokens are left.                            *)
Swept ==
  /\ pc \in {"phase1", "preempt"} =>
       \A i \in 1 .. Len(running) : /\ i >= cursor => numNew[running[i]] = 0
                                    /\ i < cursor => Served(running[i])
  /\ pc = "preempt" => Asked(Current, want)
  /\ pc = "phase2" /\ budget > 0 /\ PreemptionPolicy = "fcfs" =>
       \A r \in Requests : state[r] = "running" => Served(r)

(* What is computed is stored. *)
Backed ==
  ~SpecEnabled =>
    \A r \in Requests : state[r] = "running" => kvTokens[r] >= computed[r]

BatchInv == Advancing /\ Sifted /\ Shared /\ Swept /\ Backed

------------------------------
(* What is left to compute, and what is granted. *)

(* A request ends no earlier than its prompt, and there if it has no       *)
(* output.                                                                 *)
LEMMA CompletionType ==
  ASSUME NEW r \in Requests
  PROVE  /\ CompletionProgress(r) \in Nat
         /\ InputLen[r] \in Nat \ {0} /\ InputLen[r] <= CompletionProgress(r)
         /\ OutputLen[r] = 0 => CompletionProgress(r) = InputLen[r]
<1>1. InputLen[r] \in Nat \ {0} /\ OutputLen[r] \in Nat BY ConstantTypes
<1>2. CASE OutputLen[r] = 0 BY <1>1, <1>2 DEF CompletionProgress
<1>3. CASE OutputLen[r] # 0 BY <1>1, <1>3 DEF CompletionProgress
<1> QED BY <1>1, <1>2, <1>3

(* The cap on a request that has computed n tokens, as a set of at most    *)
(* one number.                                                             *)
LEMMA LengthRoomShape ==
  ASSUME NEW n \in Nat, MaxModelLen > 0 => n <= MaxModelLen - 1
  PROVE  /\ LengthRoom(n) \subseteq Nat
         /\ \A y \in LengthRoom(n) : MaxModelLen > 0 /\ y = MaxModelLen - 1 - n
         /\ MaxModelLen > 0 => MaxModelLen - 1 - n \in LengthRoom(n)
<1>1. MaxModelLen \in Nat BY ConstantTypes
<1>2. CASE MaxModelLen = 0 BY <1>2 DEF LengthRoom
<1>3. CASE MaxModelLen > 0
  <2>1. ~(MaxModelLen - 1 < n) BY <1>1, <1>3
  <2>2. LengthRoom(n) = {MaxModelLen - 1 - n} BY <1>3, <2>1 DEF LengthRoom
  <2> QED BY <1>1, <1>3, <2>1, <2>2
<1> QED BY <1>1, <1>2, <1>3

(* A chunk of a prompt fits. *)
LEMMA PrefillChunkFits ==
  ASSUME budget \in Nat, NEW r \in Requests, NEW n \in Nat, n <= InputLen[r],
         MaxModelLen > 0 => n <= MaxModelLen - 1
  PROVE  /\ PrefillChunk(r, n) \in Nat
         /\ n + PrefillChunk(r, n) <= CompletionProgress(r)
         /\ MaxModelLen > 0 => n + PrefillChunk(r, n) <= MaxModelLen - 1
<1> DEFINE S == {InputLen[r] - n, budget} \cup LengthRoom(n)
                  \cup (IF PrefillTokenThreshold = 0 THEN {} ELSE {PrefillTokenThreshold})
           c == PrefillChunk(r, n)
<1>1. c \in Nat /\ c <= InputLen[r] - n BY PrefillChunkType
<1>2. InputLen[r] \in Nat /\ PrefillTokenThreshold \in Nat /\ MaxModelLen \in Nat
      /\ InputLen[r] <= CompletionProgress(r) /\ CompletionProgress(r) \in Nat
  BY ConstantTypes, CompletionType
<1>3. S \subseteq Nat /\ (MaxModelLen > 0 => MaxModelLen - 1 - n \in S)
  BY <1>2, LengthRoomShape
<1>4. c = Min(S) BY DEF PrefillChunk
<1>5. S # {} OBVIOUS
<1> HIDE DEF S, c
<1>6. \A y \in S : c <= y BY <1>3, <1>4, <1>5, MinIsLeast
<1>7. MaxModelLen > 0 => n + c <= MaxModelLen - 1 BY <1>1, <1>2, <1>3, <1>6
<1>8. n + c <= CompletionProgress(r) BY <1>1, <1>2
<1> QED BY <1>1, <1>7, <1>8 DEF c

(* What phase 1 asks for on behalf of a request that is not finished. *)
LEMMA NewTokensAsked ==
  ASSUME budget \in Nat, budget > 0, NEW r \in Requests, progress[r] \in Nat,
         carry[r] \in Nat, Fits(r, 0), Unfinished(r)
  PROVE  Asked(r, NewTokens(r))
<1> DEFINE p == progress[r]
           c == CompletionProgress(r)
           n == NewTokens(r)
<1>1. /\ c \in Nat /\ InputLen[r] \in Nat \ {0} /\ InputLen[r] <= c
      /\ OutputLen[r] = 0 => c = InputLen[r]
      /\ p < c /\ p \in Nat /\ MaxModelLen \in Nat
  BY ConstantTypes, CompletionType DEF Unfinished
<1>2. MaxModelLen > 0 => p <= MaxModelLen - 1 BY <1>1 DEF Fits
<1>3. CASE p < InputLen[r]
  <2>1. n = PrefillChunk(r, p) /\ p <= InputLen[r] BY <1>1, <1>3 DEF NewTokens
  <2>2. p + n <= c /\ (MaxModelLen > 0 => p + n <= MaxModelLen - 1)
    BY <1>1, <1>2, <2>1, PrefillChunkFits
  <2> QED BY <1>1, <1>3, <2>2 DEF Asked, Fits
<1>4. CASE ~(p < InputLen[r])
  <2> DEFINE T == IF SpecEnabled
                  THEN {DecodeTokensPerStep(r), budget, TokensToCompletion(r)}
                  ELSE {1}
             S == LengthRoom(p) \cup T
  <2>1. OutputLen[r] # 0 BY <1>1, <1>4
  <2>2. n = Min(S) BY <1>4, <2>1 DEF NewTokens
  <2>3. /\ LengthRoom(p) \subseteq Nat
        /\ \A y \in LengthRoom(p) : MaxModelLen > 0 /\ y = MaxModelLen - 1 - p
        /\ MaxModelLen > 0 => MaxModelLen - 1 - p \in LengthRoom(p)
    BY <1>1, <1>2, LengthRoomShape
  <2>4. DecodeTokensPerStep(r) \in Nat \ {0}
    <3>1. (carry[r] + SpecRate) \div SpecScale \in Int BY ConstantTypes
    <3> QED BY <3>1 DEF DecodeTokensPerStep
  <2>5. TokensToCompletion(r) = c - p
    <3>1. c - p \in Int /\ c - p > 0 BY <1>1
    <3>2. Max({c - p, 0}) \in {c - p, 0} /\ c - p <= Max({c - p, 0})
      BY <3>1, MaxZero
    <3> QED BY <3>1, <3>2 DEF TokensToCompletion
  <2>6. /\ T \subseteq Nat \ {0} /\ T # {} /\ (\E y \in T : y <= c - p)
        /\ (~SpecEnabled => 1 \in T)
    <3>1. CASE SpecEnabled BY <1>1, <2>4, <2>5, <3>1
    <3>2. CASE ~SpecEnabled BY <1>1, <3>2
    <3> QED BY <3>1, <3>2
  <2> HIDE DEF T
  <2>7. S \subseteq Nat /\ S # {} BY <2>3, <2>6
  <2>8. Min(S) \in S /\ \A y \in S : Min(S) <= y BY <2>7, MinIsLeast
  <2>9. n \in S /\ n \in Nat /\ \A y \in S : n <= y BY <2>2, <2>7, <2>8
  <2>10. \A y \in LengthRoom(p) \cup T : n <= y BY <2>9
  <2>11. n \in LengthRoom(p) \/ n \in T BY <2>9
  <2> HIDE DEF S, n
  <2>12. p + n <= c
    <3>1. PICK y \in T : y <= c - p BY <2>6
    <3>2. n <= y /\ y \in Nat BY <2>6, <2>10
    <3> QED BY <1>1, <2>9, <3>1, <3>2
  <2>13. MaxModelLen > 0 => p + n <= MaxModelLen - 1 BY <1>1, <2>3, <2>9, <2>10
  <2>14. n > 0 \/ (MaxModelLen > 0 /\ p >= MaxModelLen - 1)
    BY <1>1, <2>3, <2>6, <2>9, <2>11
  <2>15. ~SpecEnabled => n <= 1 BY <2>6, <2>10
  <2> QED BY <2>12, <2>13, <2>14, <2>15 DEF Asked, Fits, Capped, n
<1> QED BY <1>3, <1>4

(* The request at the cursor, and what is about to be granted to it. *)
LEMMA WantedAsked ==
  ASSUME EngineInv, BatchInv, InPhase1Loop
  PROVE  /\ pc \in {"phase1", "preempt"} /\ cursor \in 1 .. Len(running)
         /\ Current \in Requests /\ Current \in RangeOf(running)
         /\ state[Current] = "running" /\ numNew[Current] = 0
         /\ Wanted \in Nat /\ Wanted <= budget /\ Asked(Current, Wanted)
<1>1. Shapes /\ Scan /\ Places /\ Advancing /\ Swept BY DEF EngineInv, BatchInv
<1>2. /\ pc \in {"phase1", "preempt"} /\ cursor \in 1 .. Len(running)
      /\ Current \in Requests /\ Current \in RangeOf(running)
      /\ Wanted \in Nat /\ Wanted <= budget
  BY <1>1, WantedType
<1>3. state[Current] = "running" BY <1>1, <1>2 DEF Places
<1>4. numNew[Current] = 0 BY <1>1, <1>2 DEF Swept, Current
<1>5. /\ budget \in Nat /\ progress \in [Requests -> Nat] /\ carry \in [Requests -> Nat]
  BY <1>1 DEF Shapes
<1>6. Asked(Current, Wanted)
  <2>1. CASE pc = "preempt" BY <1>1, <2>1 DEF Swept, Wanted
  <2>2. CASE pc = "phase1"
    <3>1. Wanted = NewTokens(Current) /\ budget > 0
      BY <2>2 DEF Wanted, InPhase1Loop
    <3>2. Fits(Current, 0) /\ Unfinished(Current)
      BY <1>1, <1>2, <1>3, <2>2 DEF Advancing
    <3>3. progress[Current] \in Nat /\ carry[Current] \in Nat BY <1>2, <1>5
    <3> QED BY <1>2, <1>5, <3>1, <3>2, <3>3, NewTokensAsked
  <2> QED BY <1>2, <2>1, <2>2
<1> QED BY <1>2, <1>3, <1>4, <1>6

(* Taking out a request keeps the others on their side of the cursor. *)
LEMMA SidesKept ==
  ASSUME NEW S, NEW s \in Seq(S), NEW k \in 1 .. Len(s), NEW c \in Nat, NEW d \in Nat,
         k < c => d = c - 1, ~(k < c) => d = c
  PROVE  \A i \in 1 .. Len(RemoveIndex(s, k)) :
           \E j \in 1 .. Len(s) : /\ RemoveIndex(s, k)[i] = s[j] /\ j # k
                                  /\ i >= d => j >= c
                                  /\ i < d => j < c
<1> DEFINE t == RemoveIndex(s, k)
           n == Len(s)
<1>1. n \in Nat /\ k \in 1 .. n BY LenProperties
<1>2. Len(t) = n - 1 BY RemoveIndexShape
<1>3. \A i \in 1 .. n - 1 : t[i] = IF i < k THEN s[i] ELSE s[i + 1]
  BY DEF RemoveIndex
<1> HIDE DEF t, n
<1>4. ASSUME NEW i \in 1 .. n - 1
      PROVE  \E j \in 1 .. n : t[i] = s[j] /\ j # k /\ (i >= d => j >= c) /\ (i < d => j < c)
  <2>1. CASE i < k
    <3>1. i \in 1 .. n /\ t[i] = s[i] /\ i # k /\ (i >= d => i >= c) /\ (i < d => i < c)
      BY <1>1, <1>3, <2>1
    <3> QED BY <3>1
  <2>2. CASE ~(i < k)
    <3>1. /\ i + 1 \in 1 .. n /\ t[i] = s[i + 1] /\ i + 1 # k
          /\ i >= d => i + 1 >= c
          /\ i < d => i + 1 < c
      BY <1>1, <1>3, <2>2
    <3> QED BY <3>1
  <2> QED BY <2>1, <2>2
<1> QED BY <1>2, <1>4 DEF t, n

(* The cursor moves with the request it points at. *)
LEMMA CursorKept ==
  ASSUME NEW S, NEW s \in Seq(S), NEW k \in 1 .. Len(s), NEW c \in 1 .. Len(s), NEW d \in Nat,
         k # c, k < c => d = c - 1, ~(k < c) => d = c
  PROVE  RemoveIndex(s, k)[d] = s[c]
<1>1. Len(s) \in Nat /\ k \in 1 .. Len(s) /\ c \in 1 .. Len(s) BY LenProperties
<1>2. \A i \in 1 .. Len(s) - 1 : RemoveIndex(s, k)[i] = IF i < k THEN s[i] ELSE s[i + 1]
  BY DEF RemoveIndex
<1>3. CASE k < c
  <2>1. d \in 1 .. Len(s) - 1 /\ ~(d < k) /\ d + 1 = c BY <1>1, <1>3
  <2> QED BY <1>2, <2>1
<1>4. CASE ~(k < c)
  <2>1. d \in 1 .. Len(s) - 1 /\ d < k /\ d = c BY <1>1, <1>4
  <2> QED BY <1>2, <2>1
<1> QED BY <1>3, <1>4

(* What is granted in all, when the grant of one request changes. *)
LEMMA GrantedChange ==
  ASSUME numNew \in [Requests -> Nat], numNew' \in [Requests -> Nat], NEW r \in Requests,
         \A s \in Requests \ {r} : state'[s] = state[s] /\ numNew'[s] = numNew[s]
  PROVE  /\ Cardinality(Units(Granted)) \in Nat /\ Granted[r] \in Nat /\ Granted'[r] \in Nat
         /\ Cardinality(Units(Granted))'
              = (Cardinality(Units(Granted)) - Granted[r]) + Granted'[r]
<1> DEFINE f == Granted
           g == Granted'
<1>1. /\ f \in [Requests -> Nat] /\ g \in [Requests -> Nat]
      /\ \A s \in Requests \ {r} : g[s] = f[s]
  BY DEF Granted
<1>2. IsFiniteSet(Requests) BY ConstantTypes
<1>3. Cardinality(Units(Granted))' = Cardinality(Units(g)) BY DEF Units
<1> HIDE DEF f, g
<1>4. f[r] \in Nat /\ g[r] \in Nat BY <1>1
<1>5. Cardinality(Units(f)) \in Nat BY <1>1, <1>2, UnitsChange
<1>6. Cardinality(Units(g)) = (Cardinality(Units(f)) - f[r]) + g[r]
  BY <1>1, <1>2, UnitsChange
<1> QED BY <1>3, <1>4, <1>5, <1>6 DEF f, g

------------------------------
(* Each action keeps the invariant. *)

(* At first nothing is computed or granted. *)
LEMMA InitBatch == Init => BatchInv
<1> SUFFICES ASSUME Init PROVE BatchInv OBVIOUS
<1>1. /\ state = [r \in Requests |-> "queued"]
      /\ progress = [r \in Requests |-> 0] /\ numNew = [r \in Requests |-> 0]
      /\ computed = [r \in Requests |-> 0] /\ pc = "idle"
  BY DEF Init
<1>2. ASSUME NEW r \in Requests PROVE Fits(r, 0)
  <2>1. progress[r] = 0 /\ CompletionProgress(r) \in Nat /\ MaxModelLen \in Nat
    BY <1>1, CompletionType, ConstantTypes
  <2> QED BY <2>1 DEF Fits
<1>3. Advancing BY <1>1, <1>2 DEF Advancing
<1> QED BY <1>1, <1>3 DEF BatchInv, Sifted, Shared, Swept, Backed, Forming

(* Between steps a handler leaves the progress of requests alone, but for  *)
(* those that it ends.                                                     *)
LEMMA IdleFrame ==
  ASSUME Advancing, Backed, pc = "idle", pc' = "idle", progress' = progress, numNew' = numNew,
         \A r \in Requests :
           \/ state'[r] = state[r] /\ computed'[r] = computed[r] /\ kvTokens'[r] = kvTokens[r]
           \/ state'[r] = "timed_out"
  PROVE  BatchInv'
<1>1. \A r \in Requests : Fits(r, 0)'
  BY DEF Advancing, Fits, CompletionProgress
<1>2. ASSUME NEW r \in Requests, state'[r] = "running" PROVE Unfinished(r)'
  BY <1>2 DEF Advancing, Unfinished, CompletionProgress
<1>3. ASSUME NEW r \in Requests, state'[r] = "running" PROVE computed'[r] = progress'[r]
  BY <1>3 DEF Advancing, Forming
<1>4. ASSUME NEW r \in Requests, state'[r] = "queued"
      PROVE  progress'[r] = 0 /\ computed'[r] = 0 /\ numNew'[r] = 0
  BY <1>4 DEF Advancing
<1>5. Advancing' BY <1>1, <1>2, <1>3, <1>4 DEF Advancing, Forming
<1>6. Backed' BY DEF Backed
<1> QED BY <1>5, <1>6 DEF BatchInv, Sifted, Shared, Swept, Forming

(* The handlers that form no batch. *)
LEMMA HandlersBatch ==
  ASSUME EngineInv, BatchInv, Arrive \/ Enqueue \/ CompleteAdapterLoad \/ SkipTimeout \/ TimeOut
  PROVE  BatchInv'
<1>1. Advancing /\ Backed BY DEF BatchInv
<1>2. /\ state \in [Requests -> {"queued", "running", "completed", "timed_out"}]
      /\ computed \in [Requests -> Nat] /\ kvTokens \in [Requests -> Nat]
  BY DEF EngineInv, Shapes
<1>3. pc = "idle" /\ pc' = "idle" /\ progress' = progress /\ numNew' = numNew
  <2>1. CASE Arrive BY <2>1 DEF Arrive, Dispatch, reqVars, stepVars
  <2>2. CASE Enqueue BY <2>2 DEF Enqueue, Dispatch, stepVars
  <2>3. CASE CompleteAdapterLoad
    BY <2>3 DEF CompleteAdapterLoad, Dispatch, reqVars, stepVars
  <2>4. CASE SkipTimeout BY <2>4 DEF SkipTimeout, Dispatch, reqVars, stepVars
  <2>5. CASE TimeOut BY <2>5 DEF TimeOut, Dispatch, stepVars
  <2> QED BY <2>1, <2>2, <2>3, <2>4, <2>5
<1>4. ASSUME NEW r \in Requests
      PROVE  \/ state'[r] = state[r] /\ computed'[r] = computed[r] /\ kvTokens'[r] = kvTokens[r]
             \/ state'[r] = "timed_out"
  <2>1. CASE Arrive BY <2>1 DEF Arrive, reqVars, kvVars
  <2>2. CASE Enqueue
    <3>1. \/ state' = state
          \/ state' = [state EXCEPT ![Head(eventQ).arg] = "timed_out"]
      BY <2>2 DEF Enqueue
    <3>2. computed' = computed /\ kvTokens' = kvTokens
      BY <2>2 DEF Enqueue, kvVars
    <3> QED BY <1>2, <3>1, <3>2
  <2>3. CASE CompleteAdapterLoad
    BY <2>3 DEF CompleteAdapterLoad, reqVars, kvVars
  <2>4. CASE SkipTimeout BY <2>4 DEF SkipTimeout, reqVars, kvVars
  <2>5. CASE TimeOut
    <3> DEFINE t == Head(eventQ).arg
    <3>1. /\ state' = [state EXCEPT ![t] = "timed_out"]
          /\ computed' = [computed EXCEPT ![t] = 0]
          /\ kvTokens' = [kvTokens EXCEPT ![t] = 0]
      BY <2>5 DEF TimeOut, ReleaseKVBlocks
    <3> HIDE DEF t
    <3> QED BY <1>2, <3>1
  <2> QED BY <2>1, <2>2, <2>3, <2>4, <2>5
<1> QED BY <1>1, <1>3, <1>4, IdleFrame

(* A step begins with nothing granted. *)
LEMMA StartStepBatch ==
  ASSUME EngineInv, BatchInv, StartStep
  PROVE  BatchInv'
<1>1. Shapes /\ Places /\ Advancing /\ Backed BY DEF EngineInv, BatchInv
<1>2. pc = "idle" BY DEF StartStep, Dispatch
<1>3. /\ state' = state /\ progress' = progress /\ computed' = computed
      /\ running' = running /\ kvTokens' = kvTokens
  BY DEF StartStep, kvVars
<1>4. CASE running = <<>> /\ waitQ = <<>>
  <2>1. pc' = "idle" /\ numNew' = numNew BY <1>2, <1>4 DEF StartStep, stepVars
  <2> QED BY <1>1, <1>2, <1>3, <2>1, IdleFrame
<1>5. CASE ~(running = <<>> /\ waitQ = <<>>)
  <2>1. /\ numNew' = [r \in Requests |-> IF r \in RangeOf(running) THEN 0 ELSE numNew[r]]
        /\ pc' = "phase1" /\ cursor' = 1 /\ budget' = MaxNumBatchedTokens
    BY <1>5 DEF StartStep
  <2>2. /\ running \in Seq(Requests) /\ numNew \in [Requests -> Nat]
        /\ progress \in [Requests -> Nat]
    BY <1>1 DEF Shapes
  <2>3. \A r \in Requests : state[r] = "running" => numNew'[r] = 0
    BY <1>1, <2>1 DEF Places
  <2>4. \A r \in Requests : state[r] = "queued" => numNew'[r] = 0
    BY <1>1, <2>1 DEF Advancing
  <2>5. \A r \in Requests : Fits(r, 0)'
    BY <1>1, <1>3 DEF Advancing, Fits, CompletionProgress
  <2>6. ASSUME NEW r \in Requests, state[r] = "running"
        PROVE  computed[r] = progress[r] + 0 /\ Unfinished(r)'
    <3>1. computed[r] = progress[r] /\ Unfinished(r) /\ progress[r] \in Nat
      BY <1>1, <1>2, <2>2, <2>6 DEF Advancing, Forming
    <3> QED BY <1>3, <3>1 DEF Unfinished, CompletionProgress
  <2>7. ASSUME NEW r \in Requests, state[r] = "running" PROVE Fits(r, numNew[r])'
    BY <1>3, <2>3, <2>5, <2>7 DEF Fits
  <2>8. Advancing'
    BY <1>1, <1>3, <2>1, <2>3, <2>4, <2>5, <2>6, <2>7 DEF Advancing, Forming
  <2>9. Shared'
    <3>1. Cardinality(Units(Granted))' = 0
      <4>1. \A r \in Requests : Granted'[r] = 0 BY <1>3, <2>3 DEF Granted
      <4>2. Units(Granted)' = {} BY <4>1 DEF Units, Granted
      <4>3. Cardinality({}) = 0 BY FS_EmptySet
      <4> QED BY <4>2, <4>3
    <3> QED BY <2>1, <3>1, ConstantTypes DEF Shared
  <2>10. Swept'
    <3>1. \A i \in 1 .. Len(running) : numNew'[running[i]] = 0
      BY <1>1, <2>1, <2>2, ElementOfSeq DEF RangeOf
    <3>2. \A i \in 1 .. Len(running) : ~(i < 1) BY <2>2, LenProperties
    <3> QED BY <1>3, <2>1, <3>1, <3>2 DEF Swept
  <2>11. Sifted' /\ Backed' BY <1>1, <1>3, <2>1 DEF Sifted, Backed
  <2> QED BY <2>8, <2>9, <2>10, <2>11 DEF BatchInv
<1> QED BY <1>4, <1>5

(* The request at the cursor gets its tokens. *)
LEMMA ScheduleRunningBatch ==
  ASSUME EngineInv, BatchInv, ScheduleRunning
  PROVE  BatchInv'
<1> DEFINE c == Current
           n == Wanted
<1>1. Shapes /\ Places /\ Advancing /\ Shared /\ Swept /\ Backed
  BY DEF EngineInv, BatchInv
<1>2. /\ numNew' = [numNew EXCEPT ![c] = n]
      /\ computed' = [computed EXCEPT ![c] = @ + n]
      /\ kvTokens' = [kvTokens EXCEPT ![c] = @ + Stored(c, n)]
      /\ budget' = budget - n /\ cursor' = cursor + 1 /\ pc' = "phase1"
      /\ state' = state /\ progress' = progress /\ running' = running
  BY DEF ScheduleRunning, Allocate
<1>3. InPhase1Loop BY DEF ScheduleRunning
<1>4. /\ pc \in {"phase1", "preempt"} /\ cursor \in 1 .. Len(running)
      /\ c \in Requests /\ c \in RangeOf(running)
      /\ state[c] = "running" /\ numNew[c] = 0
      /\ n \in Nat /\ n <= budget /\ Asked(c, n)
  BY <1>3, WantedAsked
<1>5. c = running[cursor] BY DEF Current
<1> HIDE DEF c, n
<1>6. /\ running \in Seq(Requests) /\ Len(running) \in Nat /\ budget \in Nat
      /\ numNew \in [Requests -> Nat] /\ computed \in [Requests -> Nat]
      /\ kvTokens \in [Requests -> Nat] /\ progress \in [Requests -> Nat]
  BY SMTT(60), <1>1 DEF Shapes
<1>7. /\ numNew'[c] = n /\ computed'[c] = computed[c] + n
      /\ kvTokens'[c] = kvTokens[c] + Stored(c, n)
      /\ \A r \in Requests \ {c} : /\ numNew'[r] = numNew[r] /\ computed'[r] = computed[r]
                                   /\ kvTokens'[r] = kvTokens[r]
  BY <1>2, <1>4, <1>6
<1>8. /\ progress[c] \in Nat /\ InputLen[c] \in Nat /\ computed[c] \in Nat
      /\ kvTokens[c] \in Nat
  BY <1>4, <1>6, ConstantTypes
<1>9. computed[c] = progress[c]
  <2>1. computed[c] = progress[c] + numNew[c]
    BY <1>1, <1>4 DEF Advancing, Forming
  <2> QED BY <1>4, <1>8, <2>1
<1>10. Forming /\ Forming' /\ pc # "complete" BY <1>2, <1>4 DEF Forming
<1>11. Advancing'
  <2>1. \A r \in Requests : Fits(r, 0)' /\ (Unfinished(r)' <=> Unfinished(r))
    BY <1>1, <1>2 DEF Advancing, Fits, Unfinished, CompletionProgress
  <2>2. ASSUME NEW r \in Requests, state[r] = "running"
        PROVE  computed'[r] = progress[r] + numNew'[r] /\ Fits(r, numNew[r])'
    <3>1. CASE r = c
      <4>1. Fits(c, n) BY <1>4 DEF Asked
      <4> QED BY <1>2, <1>7, <1>9, <3>1, <4>1 DEF Fits, CompletionProgress
    <3>2. CASE r # c
      BY <1>1, <1>2, <1>7, <1>10, <2>2, <3>2 DEF Advancing, Fits, CompletionProgress
    <3> QED BY <3>1, <3>2
  <2>3. ASSUME NEW r \in Requests, state[r] = "queued"
        PROVE  progress[r] = 0 /\ computed'[r] = 0 /\ numNew'[r] = 0
    BY <1>1, <1>4, <1>7, <2>3 DEF Advancing
  <2> QED BY <1>1, <1>2, <1>10, <2>1, <2>2, <2>3 DEF Advancing
<1>12. Shared'
  <2>1. numNew' \in [Requests -> Nat] BY <1>2, <1>4, <1>6
  <2>2. Granted[c] = 0 /\ Granted'[c] = n BY <1>2, <1>4, <1>7 DEF Granted
  <2>3. /\ Cardinality(Units(Granted)) \in Nat
        /\ Cardinality(Units(Granted))'
             = (Cardinality(Units(Granted)) - Granted[c]) + Granted'[c]
    BY <1>2, <1>4, <1>6, <1>7, <2>1, GrantedChange
  <2>4. budget + Cardinality(Units(Granted)) = MaxNumBatchedTokens
    BY <1>1, <1>10 DEF Shared
  <2>5. budget' = budget - n BY <1>2
  <2>6. Cardinality(Units(Granted))' = Cardinality(Units(Granted)) + n
    BY <1>4, <2>2, <2>3
  <2>7. (budget + Cardinality(Units(Granted)) = MaxNumBatchedTokens)'
    BY <1>4, <1>6, <2>3, <2>4, <2>5, <2>6
  <2> QED BY <2>7 DEF Shared
<1>13. Swept'
  <2>1. ASSUME NEW i \in 1 .. Len(running), i >= cursor + 1 PROVE numNew'[running[i]] = 0
    <3>1. running[i] \in Requests /\ running[i] # c /\ i >= cursor
      BY <1>1, <1>4, <1>5, <1>6, <2>1, ElementOfSeq DEF Places, Distinct
    <3> QED BY <1>1, <1>4, <1>7, <2>1, <3>1 DEF Swept
  <2>2. ASSUME NEW i \in 1 .. Len(running), i < cursor + 1 PROVE Served(running[i])'
    <3>1. CASE running[i] = c
      <4>1. progress[c] >= InputLen[c] => n > 0 \/ Capped(c) BY <1>4 DEF Asked
      <4> QED BY <1>2, <1>7, <3>1, <4>1 DEF Served, Capped
    <3>2. CASE running[i] # c
      <4>1. running[i] \in Requests BY <1>6, ElementOfSeq
      <4>2. i # cursor BY <1>5, <3>2
      <4>3. i < cursor BY <1>4, <2>2, <4>2
      <4>4. Served(running[i]) BY <1>1, <1>4, <4>3 DEF Swept
      <4> QED BY <1>2, <1>7, <3>2, <4>1, <4>4 DEF Served, Capped
    <3> QED BY <3>1, <3>2
  <2> QED BY <1>2, <2>1, <2>2 DEF Swept
<1>14. Backed'
  <2>1. ASSUME ~SpecEnabled PROVE kvTokens'[c] >= computed'[c]
    <3>1. kvTokens[c] >= computed[c] BY <1>1, <1>4, <2>1 DEF Backed
    <3>2. Stored(c, n) = n
      <4>1. progress[c] >= InputLen[c] => n <= 1 BY <1>4, <2>1 DEF Asked
      <4> QED BY <1>4, <1>8, <4>1 DEF Stored, Least
    <3> QED BY <1>4, <1>7, <1>8, <3>1, <3>2
  <2> QED BY <1>1, <1>2, <1>7, <2>1 DEF Backed
<1>15. Sifted' BY <1>2 DEF Sifted
<1> QED BY <1>11, <1>12, <1>13, <1>14, <1>15 DEF BatchInv

(* Phase 1 ends: the batch has been gone through, or the budget. *)
LEMMA EndPhase1Batch ==
  ASSUME EngineInv, BatchInv, EndPhase1
  PROVE  BatchInv'
<1>1. Shapes /\ Places /\ Advancing /\ Shared /\ Swept /\ Backed
  BY DEF EngineInv, BatchInv
<1>2. /\ pc = "phase1" /\ pc' = "phase2" /\ ~InPhase1Loop
      /\ state' = state /\ progress' = progress /\ numNew' = numNew /\ computed' = computed
      /\ running' = running /\ kvTokens' = kvTokens /\ budget' = budget
  BY DEF EndPhase1, reqVars, kvVars
<1>3. Forming /\ Forming' /\ pc # "complete" /\ pc' # "complete"
  BY <1>2 DEF Forming
<1>4. Advancing'
  BY <1>1, <1>2, <1>3 DEF Advancing, Fits, Unfinished, CompletionProgress
<1>5. Shared' BY <1>1, <1>2, <1>3 DEF Shared, Granted, Units
<1>6. Swept'
  <2>1. ASSUME budget > 0, NEW r \in Requests, state[r] = "running" PROVE Served(r)
    <3>1. /\ running \in Seq(Requests) /\ Len(running) \in Nat /\ cursor \in Nat
      BY <1>1 DEF Shapes
    <3>2. cursor > Len(running) BY <1>2, <2>1, <3>1 DEF InPhase1Loop
    <3>3. PICK i \in 1 .. Len(running) : running[i] = r
      BY <1>1, <2>1 DEF Places, RangeOf
    <3>4. i < cursor BY <3>1, <3>2
    <3> QED BY <1>1, <1>2, <3>3, <3>4 DEF Swept
  <2> QED BY <1>2, <2>1 DEF Swept, Served, Capped
<1>7. Sifted' /\ Backed' BY <1>1, <1>2 DEF Sifted, Backed
<1> QED BY <1>4, <1>5, <1>6, <1>7 DEF BatchInv

(* A victim gives back its share; the cursor has the same requests before  *)
(* it, and the request it points at still wants what it wanted.            *)
LEMMA PreemptVictimBatch ==
  ASSUME EngineInv, BatchInv, PreemptVictim
  PROVE  BatchInv'
<1> DEFINE k == VictimIndex
           v == running[k]
<1>1. Shapes /\ Places /\ Advancing /\ Shared /\ Swept /\ Backed
  BY DEF EngineInv, BatchInv
<1>2. /\ running' = RemoveIndex(running, k)
      /\ cursor' = CursorAfter(k) /\ budget' = BudgetAfter(v)
      /\ state' = [state EXCEPT ![v] = "queued"]
      /\ progress' = [progress EXCEPT ![v] = 0]
      /\ numNew' = [numNew EXCEPT ![v] = 0]
      /\ computed' = [computed EXCEPT ![v] = 0]
      /\ kvTokens' = [kvTokens EXCEPT ![v] = 0]
      /\ v = Current => pc' = "phase2"
      /\ v # Current => pc' = "preempt" /\ want' = Wanted
  BY DEF PreemptVictim, StartOver, ReleaseKVBlocks
<1>3. InPhase1Loop BY DEF PreemptVictim
<1>4. /\ pc \in {"phase1", "preempt"} /\ cursor \in 1 .. Len(running)
      /\ Current \in Requests /\ state[Current] = "running" /\ Asked(Current, Wanted)
  BY <1>3, WantedAsked
<1>5. /\ running \in Seq(Requests) /\ Len(running) \in Nat /\ budget \in Nat
      /\ cursor \in Nat
      /\ state \in [Requests -> {"queued", "running", "completed", "timed_out"}]
      /\ numNew \in [Requests -> Nat] /\ computed \in [Requests -> Nat]
      /\ kvTokens \in [Requests -> Nat] /\ progress \in [Requests -> Nat]
      /\ arrivalTime \in [Requests -> ArrivalTimes]
  BY SMTT(60), <1>1 DEF Shapes
<1>6. k \in 1 .. Len(running)
  <2>1. running # <<>> BY <1>4, <1>5
  <2> QED BY <1>5, <2>1, VictimType
<1>7. cursor' = (IF k < cursor THEN cursor - 1 ELSE cursor) /\ budget' = budget + numNew[v]
  BY <1>2 DEF CursorAfter, BudgetAfter
<1>8. PreemptionPolicy = "fcfs" => k = Len(running) BY DEF VictimIndex
<1> HIDE DEF k
<1>9. v \in Requests /\ v \in RangeOf(running)
  BY <1>5, <1>6, ElementOfSeq DEF RangeOf
<1>10. state[v] = "running" BY <1>1, <1>9 DEF Places
<1>11. \A i, j \in 1 .. Len(running) : running[i] = running[j] => i = j
  BY <1>1 DEF Places, Distinct
<1>12. v # Current => k # cursor BY DEF Current
<1>13. v = Current => k = cursor BY <1>4, <1>6, <1>11 DEF Current
<1>14. \A j \in 1 .. Len(running) : j # k => running[j] # v BY <1>6, <1>11
<1> HIDE DEF v
<1>15. /\ state'[v] = "queued" /\ progress'[v] = 0 /\ numNew'[v] = 0 /\ computed'[v] = 0
       /\ kvTokens'[v] = 0
       /\ \A r \in Requests \ {v} :
            /\ state'[r] = state[r] /\ progress'[r] = progress[r] /\ numNew'[r] = numNew[r]
            /\ computed'[r] = computed[r] /\ kvTokens'[r] = kvTokens[r]
  BY <1>2, <1>5, <1>9
<1>16. Forming /\ Forming' /\ pc # "complete" /\ pc' # "complete"
  BY <1>2, <1>4 DEF Forming
<1>17. cursor' \in Nat BY <1>4, <1>5, <1>6, <1>7
<1>18. (k < cursor => cursor' = cursor - 1) /\ (~(k < cursor) => cursor' = cursor)
  BY <1>7
<1>19. \A i \in 1 .. Len(running') :
         \E j \in 1 .. Len(running) : /\ running'[i] = running[j] /\ j # k
                                      /\ i >= cursor' => j >= cursor
                                      /\ i < cursor' => j < cursor
  <2>1. \A i \in 1 .. Len(RemoveIndex(running, k)) :
          \E j \in 1 .. Len(running) :
             /\ RemoveIndex(running, k)[i] = running[j] /\ j # k
             /\ i >= cursor' => j >= cursor
             /\ i < cursor' => j < cursor
    BY <1>5, <1>6, <1>17, <1>18, SidesKept
  <2> QED BY <1>2, <2>1
<1>20. v # Current => running'[cursor'] = Current
  <2>1. ASSUME k # cursor PROVE RemoveIndex(running, k)[cursor'] = running[cursor]
    BY ZenonT(60), <1>4, <1>5, <1>6, <1>17, <1>18, <2>1, CursorKept
  <2> QED BY <1>2, <1>12, <2>1 DEF Current
<1>21. Advancing'
  <2>1. ASSUME NEW r \in Requests PROVE Fits(r, 0)'
    <3>1. CASE r = v
      BY <1>9, <1>15, <3>1, CompletionType, ConstantTypes DEF Fits, CompletionProgress
    <3>2. CASE r # v
      BY <1>1, <1>15, <3>2 DEF Advancing, Fits, CompletionProgress
    <3> QED BY <3>1, <3>2
  <2>2. ASSUME NEW r \in Requests, state'[r] = "running"
        PROVE  /\ computed'[r] = progress'[r] + numNew'[r] /\ Fits(r, numNew[r])'
               /\ Unfinished(r)'
    <3>1. r # v BY <1>15, <2>2
    <3>2. state[r] = "running" BY <1>15, <2>2, <3>1
    <3> QED BY <1>1, <1>15, <1>16, <3>1, <3>2
            DEF Advancing, Fits, Unfinished, CompletionProgress
  <2>3. ASSUME NEW r \in Requests, state'[r] = "queued"
        PROVE  progress'[r] = 0 /\ computed'[r] = 0 /\ numNew'[r] = 0
    BY <1>1, <1>15, <2>3 DEF Advancing
  <2> QED BY <1>16, <2>1, <2>2, <2>3 DEF Advancing
<1>22. Shared'
  <2>1. numNew' \in [Requests -> Nat] /\ numNew[v] \in Nat BY <1>2, <1>5, <1>9
  <2>2. Granted[v] = numNew[v] /\ Granted'[v] = 0
    BY <1>9, <1>10, <1>15 DEF Granted
  <2>3. /\ Cardinality(Units(Granted)) \in Nat
        /\ Cardinality(Units(Granted))'
             = (Cardinality(Units(Granted)) - Granted[v]) + Granted'[v]
    BY <1>5, <1>9, <1>15, <2>1, GrantedChange
  <2>4. budget + Cardinality(Units(Granted)) = MaxNumBatchedTokens
    BY <1>1, <1>16 DEF Shared
  <2>5. Cardinality(Units(Granted))' = Cardinality(Units(Granted)) - numNew[v]
    BY <2>1, <2>2, <2>3
  <2>6. budget' = budget + numNew[v] BY <1>7
  <2>7. (budget + Cardinality(Units(Granted)) = MaxNumBatchedTokens)'
    BY SMTT(60), <1>5, <2>1, <2>3, <2>4, <2>5, <2>6
  <2> QED BY <2>7 DEF Shared
<1>23. ASSUME NEW r \in Requests \ {v}, Served(r) PROVE Served(r)'
  BY <1>15, <1>23 DEF Served, Capped
<1>24. Swept'
  <2>1. ASSUME NEW i \in 1 .. Len(running')
        PROVE  /\ i >= cursor' => numNew'[running'[i]] = 0
               /\ i < cursor' => Served(running[i])'
    <3>1. PICK j \in 1 .. Len(running) : /\ running'[i] = running[j] /\ j # k
                                         /\ i >= cursor' => j >= cursor
                                         /\ i < cursor' => j < cursor
      BY <1>19
    <3>2. running[j] \in Requests \ {v} BY <1>5, <1>14, <3>1, ElementOfSeq
    <3>3. i >= cursor' => numNew'[running[j]] = 0
      BY <1>1, <1>4, <1>15, <3>1, <3>2 DEF Swept
    <3>4. i < cursor' => Served(running[j]) BY <1>1, <1>4, <3>1 DEF Swept
    <3>5. i < cursor' => /\ progress'[running[j]] >= InputLen[running[j]] =>
                              \/ numNew'[running[j]] > 0
                              \/ MaxModelLen > 0 /\ progress'[running[j]] >= MaxModelLen - 1
      BY <1>15, <3>2, <3>4 DEF Served, Capped
    <3> QED BY <3>1, <3>3, <3>5 DEF Served, Capped
  <2>2. ASSUME v # Current PROVE Asked(Current, want)'
    <3>1. want' = Wanted /\ Current' = Current BY <1>2, <1>20, <2>2 DEF Current
    <3>2. progress'[Current] = progress[Current] BY <1>4, <1>15, <2>2
    <3> QED BY <1>4, <3>1, <3>2 DEF Asked, Fits, Capped, CompletionProgress
  <2>3. ASSUME v = Current, PreemptionPolicy = "fcfs", NEW r \in Requests, state'[r] = "running"
        PROVE  Served(r)'
    <3>1. r # v /\ state[r] = "running" BY <1>15, <2>3
    <3>2. PICK j \in 1 .. Len(running) : running[j] = r
      BY <1>1, <3>1 DEF Places, RangeOf
    <3>3. j # k BY <3>1, <3>2 DEF v
    <3>4. j < cursor BY <1>5, <1>8, <1>13, <2>3, <3>3
    <3>5. Served(r) BY <1>1, <1>4, <3>2, <3>4 DEF Swept
    <3> QED BY <1>23, <3>1, <3>5
  <2> QED BY <1>2, <2>1, <2>2, <2>3 DEF Swept
<1>25. Backed' BY <1>1, <1>15 DEF Backed
<1>26. Sifted' BY <1>16 DEF Sifted
<1> QED BY <1>21, <1>22, <1>24, <1>25, <1>26 DEF BatchInv

(* A request is admitted with the first chunk of its prompt. *)
LEMMA AdmitBatch ==
  ASSUME EngineInv, BatchInv, Admit
  PROVE  BatchInv'
<1> DEFINE a == Head(waitQ)
           n == PrefillChunk(a, 0)
<1>1. Shapes /\ Places /\ Room /\ Advancing /\ Shared /\ Swept /\ Backed
  BY DEF EngineInv, BatchInv
<1>2. /\ pc = "phase2" /\ pc' = "phase2" /\ waitQ # <<>>
      /\ state' = [state EXCEPT ![a] = "running"]
      /\ numNew' = [numNew EXCEPT ![a] = n]
      /\ computed' = [computed EXCEPT ![a] = n]
      /\ kvTokens' = [kvTokens EXCEPT ![a] = @ + Stored(a, n)]
      /\ progress' = progress /\ budget' = budget - n
  BY DEF Admit, CanAdmit, Allocate
<1>3. /\ waitQ \in Seq(Requests) /\ budget \in Nat
      /\ state \in [Requests -> {"queued", "running", "completed", "timed_out"}]
      /\ numNew \in [Requests -> Nat] /\ computed \in [Requests -> Nat]
      /\ kvTokens \in [Requests -> Nat] /\ progress \in [Requests -> Nat]
  BY <1>1 DEF Shapes
<1>4. a \in Requests /\ a \in RangeOf(waitQ) BY <1>2, <1>3, TailShape
<1>5. state[a] = "queued" BY <1>1, <1>4 DEF Places
<1>6. progress[a] = 0 /\ numNew[a] = 0 BY <1>1, <1>4, <1>5 DEF Advancing
<1>7. kvTokens[a] = 0
  <2>1. a \notin RangeOf(running) BY <1>1, <1>4, <1>5 DEF Places
  <2>2. kvTokens[a] \in Nat BY <1>3, <1>4
  <2> QED BY <1>1, <1>4, <2>1, <2>2 DEF Room
<1>8. /\ n \in Nat /\ n <= budget /\ 0 + n <= CompletionProgress(a)
      /\ MaxModelLen > 0 => 0 + n <= MaxModelLen - 1
  <2>1. InputLen[a] \in Nat \ {0} /\ MaxModelLen \in Nat BY <1>4, ConstantTypes
  <2>2. 0 <= InputLen[a] /\ (MaxModelLen > 0 => 0 <= MaxModelLen - 1) BY <2>1
  <2>3. n \in Nat /\ n <= budget BY <1>3, <1>4, <2>2, PrefillChunkType
  <2>4. 0 + n <= CompletionProgress(a) BY <1>3, <1>4, <2>2, PrefillChunkFits
  <2>5. MaxModelLen > 0 => 0 + n <= MaxModelLen - 1
    BY <1>3, <1>4, <2>2, PrefillChunkFits
  <2> QED BY <2>3, <2>4, <2>5
<1>9. Stored(a, n) = n
  <2>1. InputLen[a] \in Nat \ {0} BY <1>4, ConstantTypes
  <2>2. progress[a] < InputLen[a] BY <1>6, <2>1
  <2> QED BY <2>2 DEF Stored
<1> HIDE DEF a, n
<1>10. /\ state'[a] = "running" /\ numNew'[a] = n /\ computed'[a] = n /\ kvTokens'[a] = n
       /\ \A r \in Requests \ {a} : /\ state'[r] = state[r] /\ numNew'[r] = numNew[r]
                                    /\ computed'[r] = computed[r]
                                    /\ kvTokens'[r] = kvTokens[r]
  BY <1>2, <1>3, <1>4, <1>7, <1>8, <1>9
<1>11. Forming /\ Forming' /\ pc # "complete" /\ pc' # "complete"
  BY <1>2 DEF Forming
<1>12. Advancing'
  <2>1. \A r \in Requests : Fits(r, 0)'
    BY <1>1, <1>2 DEF Advancing, Fits, CompletionProgress
  <2>2. ASSUME NEW r \in Requests, state'[r] = "running"
        PROVE  /\ computed'[r] = progress'[r] + numNew'[r] /\ Fits(r, numNew[r])'
               /\ Unfinished(r)'
    <3>1. CASE r = a
      <4>1. progress'[r] = 0 /\ numNew'[r] = n /\ computed'[r] = n
        BY <1>2, <1>6, <1>10, <3>1
      <4>2. CompletionProgress(r) > 0
        <5>1. /\ CompletionProgress(r) \in Nat /\ InputLen[r] \in Nat \ {0}
              /\ InputLen[r] <= CompletionProgress(r)
          BY CompletionType
        <5> QED BY <5>1
      <4>3. 0 + n <= CompletionProgress(r) /\ (MaxModelLen > 0 => 0 + n <= MaxModelLen - 1)
        BY <1>8, <3>1
      <4>4. progress'[r] + numNew'[r] = 0 + n /\ 0 + n = n BY <1>8, <4>1
      <4>5. CompletionProgress(r)' = CompletionProgress(r)
        BY DEF CompletionProgress
      <4>6. Fits(r, numNew[r])' BY <4>3, <4>4, <4>5 DEF Fits
      <4>7. Unfinished(r)' BY <4>1, <4>2, <4>5 DEF Unfinished
      <4> QED BY <4>1, <4>4, <4>6, <4>7
    <3>2. CASE r # a BY <1>1, <1>2, <1>10, <1>11, <2>2, <3>2
         DEF Advancing, Fits, Unfinished, CompletionProgress
    <3> QED BY <3>1, <3>2
  <2>3. ASSUME NEW r \in Requests, state'[r] = "queued"
        PROVE  progress'[r] = 0 /\ computed'[r] = 0 /\ numNew'[r] = 0
    <3>1. r # a BY <1>10, <2>3
    <3> QED BY <1>1, <1>2, <1>10, <2>3, <3>1 DEF Advancing
  <2> QED BY <1>11, <2>1, <2>2, <2>3 DEF Advancing
<1>13. Shared'
  <2>1. numNew' \in [Requests -> Nat] BY <1>2, <1>3, <1>4, <1>8
  <2>2. Granted[a] = 0 /\ Granted'[a] = n BY <1>4, <1>5, <1>10 DEF Granted
  <2>3. Cardinality(Units(Granted)) \in Nat
        /\ Cardinality(Units(Granted))'
             = (Cardinality(Units(Granted)) - Granted[a]) + Granted'[a]
    BY <1>3, <1>4, <1>10, <2>1, GrantedChange
  <2>6. budget + Cardinality(Units(Granted)) = MaxNumBatchedTokens
    BY <1>1, <1>11 DEF Shared
  <2>7. Cardinality(Units(Granted))' = Cardinality(Units(Granted)) + n
    BY <1>8, <2>2, <2>3
  <2>8. budget' = budget - n BY <1>2
  <2>9. (budget + Cardinality(Units(Granted)) = MaxNumBatchedTokens)'
    BY <1>3, <1>8, <2>3, <2>6, <2>7, <2>8
  <2> QED BY <2>9 DEF Shared
<1>14. Swept'
  <2>1. ASSUME budget' > 0, PreemptionPolicy = "fcfs", NEW r \in Requests, state'[r] = "running"
        PROVE  Served(r)'
    <3>1. CASE r = a
      <4>1. ~(progress'[a] >= InputLen[a]) BY SMTT(60), <1>2, <1>4, <1>6, ConstantTypes
      <4> QED BY <3>1, <4>1 DEF Served
    <3>2. CASE r # a
      <4>1. budget > 0 BY <1>2, <1>3, <1>8, <2>1
      <4>2. Served(r) BY <1>1, <1>2, <1>10, <2>1, <3>2, <4>1 DEF Swept
      <4> QED BY <1>2, <1>10, <3>2, <4>2 DEF Served, Capped
    <3> QED BY <3>1, <3>2
  <2> QED BY <1>2, <2>1 DEF Swept
<1>15. Backed'
  <2>1. kvTokens'[a] >= computed'[a] BY <1>8, <1>10
  <2> QED BY <1>1, <1>10, <2>1 DEF Backed
<1>16. Sifted' BY <1>11 DEF Sifted
<1> QED BY <1>12, <1>13, <1>14, <1>15, <1>16 DEF BatchInv

(* The batch computes what it was granted. *)
LEMMA ExecuteBatch ==
  ASSUME EngineInv, BatchInv, Execute
  PROVE  BatchInv'
<1> DEFINE decoding == {r \in RangeOf(running) :
                          progress[r] >= InputLen[r] /\ numNew[r] > 0}
<1>1. Shapes /\ Places /\ Advancing /\ Backed BY DEF EngineInv, BatchInv
<1>2. /\ pc = "phase2" /\ pc' = "complete" /\ cursor' = 1
      /\ state' = state /\ numNew' = numNew /\ computed' = computed
      /\ running' = running /\ kvTokens' = kvTokens
  BY DEF Execute, kvVars
<1>3. progress' = [r \in Requests |->
              IF r \in decoding THEN progress[r] + numNew[r]
              ELSE IF r \in RangeOf(running) /\ progress[r] < InputLen[r]
              THEN computed[r] ELSE progress[r]]
  BY DEF Execute
<1>4. /\ running \in Seq(Requests) /\ Len(running) \in Nat
      /\ progress \in [Requests -> Nat] /\ numNew \in [Requests -> Nat]
      /\ computed \in [Requests -> Nat]
  BY <1>1 DEF Shapes
<1>5. Forming /\ ~Forming' BY <1>2 DEF Forming
<1>6. ASSUME NEW r \in Requests, state[r] = "running"
      PROVE  progress'[r] = computed[r] /\ computed[r] = progress[r] + numNew[r]
             /\ Fits(r, numNew[r])
  <2>1. computed[r] = progress[r] + numNew[r] /\ Fits(r, numNew[r])
    BY <1>1, <1>5, <1>6 DEF Advancing
  <2>2. r \in RangeOf(running) BY <1>1, <1>6 DEF Places
  <2>3. progress[r] \in Nat /\ numNew[r] \in Nat /\ InputLen[r] \in Nat
    BY <1>4, ConstantTypes
  <2>4. CASE progress[r] < InputLen[r]
    <3>1. r \notin decoding BY <2>3, <2>4
    <3> QED BY <1>3, <2>1, <2>2, <2>4, <3>1
  <2>5. CASE ~(progress[r] < InputLen[r]) /\ numNew[r] > 0
    <3>1. r \in decoding BY <2>2, <2>3, <2>5
    <3> QED BY <1>3, <2>1, <3>1
  <2>6. CASE ~(progress[r] < InputLen[r]) /\ ~(numNew[r] > 0)
    <3>1. r \notin decoding /\ progress'[r] = progress[r] BY <1>3, <2>6
    <3> QED BY <2>1, <2>3, <2>6, <3>1
  <2> QED BY <2>1, <2>4, <2>5, <2>6
<1>7. ASSUME NEW r \in Requests, state[r] # "running" PROVE progress'[r] = progress[r]
  <2>1. r \notin RangeOf(running) BY <1>1, <1>7 DEF Places
  <2> QED BY <1>3, <2>1
<1> HIDE DEF decoding
<1>8. ASSUME NEW r \in Requests PROVE Fits(r, 0)'
  <2>1. CompletionProgress(r)' = CompletionProgress(r)
    BY DEF CompletionProgress
  <2>2. progress[r] \in Nat /\ numNew[r] \in Nat /\ computed[r] \in Nat BY <1>4
  <2>3. CASE state[r] = "running"
    <3>1. progress'[r] = progress[r] + numNew[r] /\ Fits(r, numNew[r])
      BY <1>6, <2>3
    <3>2. progress'[r] + 0 = progress[r] + numNew[r] BY <2>2, <3>1
    <3> QED BY <2>1, <3>1, <3>2 DEF Fits
  <2>4. CASE state[r] # "running"
    <3>1. progress'[r] = progress[r] /\ Fits(r, 0)
      BY <1>1, <1>7, <2>4 DEF Advancing
    <3> QED BY <2>1, <3>1 DEF Fits
  <2> QED BY <2>3, <2>4
<1>9. ASSUME NEW r \in Requests, state[r] = "queued"
      PROVE  progress'[r] = 0 /\ computed[r] = 0 /\ numNew[r] = 0
  BY <1>1, <1>7, <1>9 DEF Advancing
<1>10. Advancing' BY <1>2, <1>5, <1>6, <1>8, <1>9 DEF Advancing
<1>11. Sifted'
  <2>1. \A i \in 1 .. Len(running) : ~(i < 1) BY <1>4
  <2> QED BY <1>2, <2>1 DEF Sifted
<1>12. Backed' BY <1>1, <1>2 DEF Backed
<1>13. Shared' /\ Swept' BY <1>2, <1>5 DEF Shared, Swept
<1> QED BY <1>10, <1>11, <1>12, <1>13 DEF BatchInv

(* A request that is done leaves the batch. *)
LEMMA CompleteRequestBatch ==
  ASSUME EngineInv, BatchInv, CompleteRequest
  PROVE  BatchInv'
<1> DEFINE c == Current
<1>1. Shapes /\ Scan /\ Places /\ Advancing /\ Sifted /\ Backed
  BY DEF EngineInv, BatchInv
<1>2. /\ pc = "complete" /\ pc' = "complete" /\ cursor <= Len(running) /\ cursor' = cursor
      /\ state' = [state EXCEPT ![c] = "completed"]
      /\ kvTokens' = [kvTokens EXCEPT ![c] = 0]
      /\ running' = RemoveIndex(running, cursor)
      /\ progress' = progress /\ numNew' = numNew /\ computed' = computed
  BY DEF CompleteRequest, ReleaseKVBlocks, stepVars
<1>3. /\ running \in Seq(Requests) /\ Len(running) \in Nat /\ cursor \in Nat
      /\ state \in [Requests -> {"queued", "running", "completed", "timed_out"}]
      /\ kvTokens \in [Requests -> Nat]
  BY <1>1 DEF Shapes
<1>4. cursor \in 1 .. Len(running) BY <1>1, <1>2, <1>3 DEF Scan
<1>5. c \in Requests BY <1>3, <1>4, ElementOfSeq DEF Current
<1> HIDE DEF c
<1>6. /\ state'[c] = "completed"
      /\ \A r \in Requests \ {c} : state'[r] = state[r] /\ kvTokens'[r] = kvTokens[r]
  BY <1>2, <1>3, <1>5
<1>7. ~Forming /\ ~Forming' BY <1>2 DEF Forming
<1>8. \A r \in Requests : Fits(r, 0)'
  BY <1>1, <1>2 DEF Advancing, Fits, CompletionProgress
<1>9. Advancing' BY <1>1, <1>2, <1>6, <1>7, <1>8 DEF Advancing
<1>10. Sifted'
  <2>1. \A i \in 1 .. Len(RemoveIndex(running, cursor)) :
          \E j \in 1 .. Len(running) :
             /\ RemoveIndex(running, cursor)[i] = running[j] /\ j # cursor
             /\ i >= cursor => j >= cursor
             /\ i < cursor => j < cursor
    <3>1. ~(cursor < cursor) BY <1>3
    <3> QED BY <1>3, <1>4, <3>1, SidesKept
  <2>2. ASSUME NEW i \in 1 .. Len(running'), i < cursor PROVE Unfinished(running[i])'
    <3>1. PICK j \in 1 .. Len(running) : running'[i] = running[j] /\ j < cursor
      BY <1>2, <2>1, <2>2
    <3>2. Unfinished(running[j]) BY <1>1, <1>2, <3>1 DEF Sifted
    <3> QED BY <1>2, <3>1, <3>2 DEF Unfinished, CompletionProgress
  <2> QED BY <1>2, <2>2 DEF Sifted
<1>11. Backed' BY <1>1, <1>2, <1>6 DEF Backed
<1>12. Shared' /\ Swept' BY <1>2, <1>7 DEF Shared, Swept
<1> QED BY <1>9, <1>10, <1>11, <1>12 DEF BatchInv

(* A request that has tokens left to compute stays. *)
LEMMA KeepRequestBatch ==
  ASSUME EngineInv, BatchInv, KeepRequest
  PROVE  BatchInv'
<1>1. Shapes /\ Scan /\ Advancing /\ Sifted /\ Backed
  BY DEF EngineInv, BatchInv
<1>2. /\ pc = "complete" /\ pc' = "complete" /\ cursor <= Len(running)
      /\ cursor' = cursor + 1 /\ ~Finished(Current)
      /\ state' = state /\ progress' = progress /\ numNew' = numNew /\ computed' = computed
      /\ running' = running /\ kvTokens' = kvTokens
  BY DEF KeepRequest, reqVars, kvVars
<1>3. /\ running \in Seq(Requests) /\ Len(running) \in Nat /\ cursor \in Nat
      /\ progress \in [Requests -> Nat]
  BY <1>1 DEF Shapes
<1>4. cursor \in 1 .. Len(running) BY <1>1, <1>2, <1>3 DEF Scan
<1>5. Unfinished(running[cursor])
  <2> DEFINE r == running[cursor]
  <2>1. r \in Requests BY <1>3, <1>4, ElementOfSeq
  <2>2. ~(progress[r] >= CompletionProgress(r)) BY <1>2 DEF Finished, Current
  <2> HIDE DEF r
  <2>3. progress[r] \in Nat /\ CompletionProgress(r) \in Nat
    BY <1>3, <2>1, CompletionType
  <2>4. progress[r] < CompletionProgress(r) BY <2>2, <2>3
  <2> QED BY <2>4 DEF Unfinished, r
<1>6. ~Forming /\ ~Forming' BY <1>2 DEF Forming
<1>7. \A r \in Requests : Fits(r, 0)'
  BY <1>1, <1>2 DEF Advancing, Fits, CompletionProgress
<1>8. Advancing' BY <1>1, <1>2, <1>6, <1>7 DEF Advancing
<1>9. Sifted'
  <2>1. ASSUME NEW i \in 1 .. Len(running), i < cursor + 1 PROVE Unfinished(running[i])
    <3>1. i < cursor \/ i = cursor BY <1>3, <2>1
    <3> QED BY <1>1, <1>2, <1>5, <3>1 DEF Sifted
  <2> QED BY <1>2, <2>1 DEF Sifted, Unfinished, CompletionProgress
<1>10. Backed' /\ Shared' /\ Swept'
  BY <1>1, <1>2, <1>6 DEF Backed, Shared, Swept
<1> QED BY <1>8, <1>9, <1>10 DEF BatchInv

(* The step ends: everyone who is left has tokens to compute. *)
LEMMA ScheduleNextStepBatch ==
  ASSUME EngineInv, BatchInv, ScheduleNextStep
  PROVE  BatchInv'
<1>1. Shapes /\ Places /\ Advancing /\ Sifted /\ Backed
  BY DEF EngineInv, BatchInv
<1>2. /\ pc = "complete" /\ pc' = "idle" /\ cursor > Len(running)
      /\ state' = state /\ progress' = progress /\ numNew' = numNew /\ computed' = computed
      /\ kvTokens' = kvTokens
  BY DEF ScheduleNextStep, reqVars, kvVars
<1>3. Len(running) \in Nat /\ cursor \in Nat BY <1>1 DEF Shapes
<1>4. ASSUME NEW r \in Requests, state[r] = "running" PROVE Unfinished(r)
  <2>1. PICK i \in 1 .. Len(running) : running[i] = r
    BY <1>1, <1>4 DEF Places, RangeOf
  <2>2. i < cursor BY <1>2, <1>3
  <2> QED BY <1>1, <1>2, <2>1, <2>2 DEF Sifted
<1>5. ~Forming /\ ~Forming' BY <1>2 DEF Forming
<1>6. \A r \in Requests : Fits(r, 0)' /\ (Unfinished(r)' <=> Unfinished(r))
  BY <1>1, <1>2 DEF Advancing, Fits, Unfinished, CompletionProgress
<1>7. Advancing' BY <1>1, <1>2, <1>4, <1>5, <1>6 DEF Advancing
<1>8. Backed' /\ Shared' /\ Swept' /\ Sifted'
  BY <1>1, <1>2, <1>5 DEF Backed, Shared, Swept, Sifted
<1> QED BY <1>7, <1>8 DEF BatchInv

(* Nothing changes. *)
LEMMA StutterBatch ==
  ASSUME BatchInv, UNCHANGED vars
  PROVE  BatchInv'
<1>1. /\ state' = state /\ progress' = progress /\ numNew' = numNew /\ computed' = computed
      /\ running' = running /\ kvTokens' = kvTokens
      /\ pc' = pc /\ cursor' = cursor /\ want' = want /\ budget' = budget
  BY DEF vars, reqVars, kvVars, stepVars
<1>2. Advancing' /\ Sifted' /\ Backed'
  BY <1>1 DEF BatchInv, Advancing, Sifted, Backed, Forming, Fits, Unfinished, CompletionProgress
<1>3. Shared' BY <1>1 DEF BatchInv, Shared, Forming, Granted, Units
<1>4. Swept'
  BY <1>1 DEF BatchInv, Swept, Current, Served, Asked, Fits, Capped, CompletionProgress
<1> QED BY <1>2, <1>3, <1>4 DEF BatchInv

(* Batch formation grants what fits, shares out the budget exactly and     *)
(* passes over nobody, whichever victims it takes; execution and the cache *)
(* follow it.                                                              *)
THEOREM EngineBatchInvariant == Spec => []BatchInv
<1>1. Init => BatchInv BY InitBatch
<1>2. EngineInv /\ BatchInv /\ [Next]_vars => BatchInv'
  <2> SUFFICES ASSUME EngineInv, BatchInv, [Next]_vars PROVE BatchInv' OBVIOUS
  <2>1. CASE Arrive \/ Enqueue \/ CompleteAdapterLoad \/ SkipTimeout \/ TimeOut
    BY <2>1, HandlersBatch
  <2>2. CASE StartStep BY <2>2, StartStepBatch
  <2>3. CASE ScheduleRunning BY <2>3, ScheduleRunningBatch
  <2>4. CASE PreemptVictim BY <2>4, PreemptVictimBatch
  <2>5. CASE EndPhase1 BY <2>5, EndPhase1Batch
  <2>6. CASE Admit BY <2>6, AdmitBatch
  <2>7. CASE Execute BY <2>7, ExecuteBatch
  <2>8. CASE CompleteRequest BY <2>8, CompleteRequestBatch
  <2>9. CASE KeepRequest BY <2>9, KeepRequestBatch
  <2>10. CASE ScheduleNextStep BY <2>10, ScheduleNextStepBatch
  <2>11. CASE UNCHANGED vars BY <2>11, StutterBatch
  <2> QED BY <2>1, <2>2, <2>3, <2>4, <2>5, <2>6, <2>7, <2>8, <2>9, <2>10, <2>11 DEF Next
<1> QED BY <1>1, <1>2, EngineInvariant, PTL DEF Spec

(* What the runs check of batch formation follows. *)
LEMMA BatchScan ==
  ASSUME EngineInv, BatchInv
  PROVE  NobodySkipped /\ BudgetBalanced /\ LandsOnBoundary
<1>1. Shapes /\ Places /\ Advancing /\ Shared /\ Swept
  BY DEF EngineInv, BatchInv
<1>2. /\ running \in Seq(Requests) /\ Len(running) \in Nat /\ cursor \in Nat
      /\ progress \in [Requests -> Nat] /\ numNew \in [Requests -> Nat]
  BY <1>1 DEF Shapes
<1>3. NobodySkipped
  <2>1. ASSUME pc \in {"phase1", "preempt"}, NEW i \in 1 .. Least(cursor - 1, Len(running))
        PROVE  Served(running[i])
    <3>1. i \in 1 .. Len(running) /\ i < cursor BY <1>2, <2>1 DEF Least
    <3> QED BY <1>1, <2>1, <3>1 DEF Swept
  <2> QED BY <2>1 DEF NobodySkipped, Served, Capped
<1>4. BudgetBalanced
  <2> DEFINE f == Granted
             g == [r \in RangeOf(running) |-> numNew[r]]
  <2>1. \A r \in Requests : r \in RangeOf(running) <=> state[r] = "running"
    BY <1>1 DEF Places
  <2>2. RangeOf(running) \subseteq Requests BY <1>2, ElementOfSeq DEF RangeOf
  <2>3. /\ DOMAIN f = Requests /\ DOMAIN g = RangeOf(running)
        /\ \A r \in RangeOf(running) : f[r] = g[r]
        /\ \A r \in Requests \ RangeOf(running) : f[r] = 0
    BY <2>1, <2>2 DEF Granted
  <2>4. Units(f) = UNION {{r} \X (1 .. f[r]) : r \in Requests}
        /\ Units(g) = UNION {{r} \X (1 .. g[r]) : r \in RangeOf(running)}
    BY <2>3 DEF Units
  <2> HIDE DEF f, g
  <2>5. Units(f) = Units(g)
    <3>1. ASSUME NEW u, u \in Units(f) PROVE u \in Units(g)
      <4>1. PICK r \in Requests : u \in {r} \X (1 .. f[r]) BY <2>4, <3>1
      <4>2. r \in RangeOf(running)
        <5>1. f[r] # 0 BY <4>1
        <5> QED BY <2>3, <5>1
      <4> QED BY <2>3, <2>4, <4>1, <4>2
    <3>2. ASSUME NEW u, u \in Units(g) PROVE u \in Units(f)
      BY <2>2, <2>3, <2>4, <3>2
    <3> QED BY <3>1, <3>2
  <2> QED BY <1>1, <2>5 DEF f, g, Shared, Forming, BudgetBalanced
<1>5. LandsOnBoundary
  <2>1. ASSUME NEW r \in Requests
        PROVE  /\ progress[r] <= CompletionProgress(r)
               /\ MaxModelLen > 0 => progress[r] <= MaxModelLen - 1
    <3>1. Fits(r, 0) /\ progress[r] \in Nat BY <1>1, <1>2 DEF Advancing
    <3>2. progress[r] + 0 = progress[r] BY <3>1
    <3> QED BY <3>1, <3>2 DEF Fits
  <2> QED BY <2>1 DEF LandsOnBoundary
<1> QED BY <1>3, <1>4, <1>5

(* Between steps, and at the end of phase 1. *)
LEMMA BatchProgress ==
  ASSUME EngineInv, BatchInv
  PROVE  /\ ComputedIsProgress
         /\ ~SpecEnabled => KVBacksProgress
         /\ PreemptionPolicy = "fcfs" => Phase1Complete
<1>1. Shapes /\ Places /\ Advancing /\ Swept /\ Backed
  BY DEF EngineInv, BatchInv
<1>2. /\ running \in Seq(Requests) /\ waitQ \in Seq(Requests)
      /\ RangeOf(running) \subseteq Requests /\ RangeOf(waitQ) \subseteq Requests
  <2>1. running \in Seq(Requests) /\ waitQ \in Seq(Requests) BY <1>1 DEF Shapes
  <2>2. RangeOf(running) \subseteq Requests BY <2>1, ElementOfSeq DEF RangeOf
  <2>3. RangeOf(waitQ) \subseteq Requests BY <2>1, ElementOfSeq DEF RangeOf
  <2> QED BY <2>1, <2>2, <2>3
<1>3. ComputedIsProgress
  <2>1. ASSUME pc = "idle", NEW r \in Alive PROVE computed[r] = progress[r]
    <3>1. r \in Requests BY <1>2 DEF Alive
    <3>2. state[r] \in {"queued", "running"} BY <1>1, <3>1 DEF Places, Alive
    <3> QED BY <1>1, <2>1, <3>1, <3>2 DEF Advancing, Forming
  <2> QED BY <2>1 DEF ComputedIsProgress
<1>4. ASSUME ~SpecEnabled PROVE KVBacksProgress
  <2>1. ASSUME pc = "idle", NEW r \in RangeOf(running) PROVE kvTokens[r] >= progress[r]
    <3>1. r \in Requests /\ state[r] = "running" BY <1>1, <1>2 DEF Places
    <3>2. computed[r] = progress[r] /\ kvTokens[r] >= computed[r]
      BY <1>1, <1>4, <2>1, <3>1 DEF Advancing, Forming, Backed
    <3> QED BY <3>2
  <2> QED BY <2>1 DEF KVBacksProgress
<1>5. ASSUME PreemptionPolicy = "fcfs" PROVE Phase1Complete
  <2>1. ASSUME pc = "phase2", budget > 0, NEW r \in RangeOf(running) PROVE Served(r)
    <3>1. r \in Requests /\ state[r] = "running" BY <1>1, <1>2 DEF Places
    <3> QED BY <1>1, <1>5, <2>1, <3>1 DEF Swept
  <2> QED BY <2>1 DEF Phase1Complete, Served, Capped
<1> QED BY <1>3, <1>4, <1>5

(* ScanSound: victims taken out of the middle of the scan make phase 1     *)
(* skip nobody and neither lose nor repeat tokens of the budget, and no    *)
(* grant, speculative or not, passes the end of a request.                 *)
THEOREM EngineScanSound == Spec => []ScanSound
<1>1. EngineInv /\ BatchInv => ScanSound BY BatchScan DEF ScanSound
<1> QED BY <1>1, EngineInvariant, EngineBatchInvariant, PTL

(* BatchSound: execution computes what batch formation recorded, the cache *)
(* stores it, and phase 1 serves everyone while tokens are left.  Both     *)
(* premises are needed: with speculative decoding the cache stores one     *)
(* token a step, and a victim by priority may end phase 1 early.           *)
THEOREM EngineBatchSound ==
  ASSUME ~SpecEnabled, PreemptionPolicy = "fcfs"
  PROVE  Spec => []BatchSound
<1>1. EngineInv /\ BatchInv => BatchSound BY BatchProgress DEF BatchSound
<1> QED BY <1>1, EngineInvariant, EngineBatchInvariant, PTL

(* The part of BatchSound that holds whatever the decoding and the         *)
(* preemption policy: progress and computed tokens agree between steps.    *)
THEOREM EngineComputedIsProgress == Spec => []ComputedIsProgress
<1>1. EngineInv /\ BatchInv => ComputedIsProgress BY BatchProgress
<1> QED BY <1>1, EngineInvariant, EngineBatchInvariant, PTL
=============================================================================
