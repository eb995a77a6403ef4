---------------------------- MODULE ObserveProofs ----------------------------
(***************************************************************************)
(* Proofs about the dispatch loop of `blis observe`, for any workloads,    *)
(* concurrency and warm-up.                                                *)
(*                                                                         *)
(* Three invariants, each inductive with the help of those before it:      *)
(*                                                                         *)
(*   CountInv     the session counter is what is outstanding, less the     *)
(*                later rounds taken of open-loop sessions, and nobody is  *)
(*                left to send once the channel is closed;                 *)
(*   OnceInv      a request is at one place at a time and, dispatched,     *)
(*                never comes back, so that it is recorded once;           *)
(*   SessionInv   a session that is still active has a request somewhere,  *)
(*                so that the loop ends only after the last of them.       *)
(***************************************************************************)
EXTENDS Observe, TLAPS, FiniteSetTheorems, SequenceTheorems

Counts(x) == x # Wakeup /\ x.session # NoSession
Weight(x) == IF Counts(x) THEN 1 ELSE 0
InSerializer == IF serializer.at = "decrement" \/ serializer.item # Wakeup THEN 1 ELSE 0
Reporting == {w \in workers : w.req.session # NoSession /\ w.at # "release"}

(* The shape of the state: dispatch indexes tell goroutines apart, only a  *)
(* session's request is reported, and the main loop and the serializer     *)
(* hold a request exactly where the code has one in hand.                  *)
Shape ==
  /\ IsFiniteSet(workers)
  /\ \A v, w \in workers : v.index = w.index => v = w
  /\ \A w \in workers :
       /\ w.index < index
       /\ w.at \in {"ok", "error"} => w.req.session # NoSession
  /\ \A i \in DOMAIN completionCh : completionCh[i].req.session # NoSession
  /\ pc \in {"loop", "choose", "wait"} => next = NoRequest
  /\ pc \in {"pace", "acquire"} => next # NoRequest
  /\ closed <=> pc \in {"join", "done"}
  /\ closed => workers = {}
  /\ serializer.at # "push" => serializer.item = Wakeup
  /\ serializer.item # Wakeup => serializer.item.session # NoSession

(* What has been taken of the source, and the sessions seen there. *)
Taken == Len(source) - Len(preGen)
SourceInv ==
  /\ Len(preGen) <= Len(source)
  /\ \A i \in 1 .. Len(preGen) : preGen[i] = source[Taken + i]
  /\ seen = {source[j].session : j \in 1 .. Taken} \ {NoSession}

Counted ==
  /\ SourceInv
  /\ active = Outstanding - Cardinality(LaterRounds)

CountInv ==
  /\ ObserveTypeOK
  /\ Shape
  /\ Counted

------------------------------
DistinctRequests(q) ==
  \A i, j \in DOMAIN q : q[i] = q[j] /\ q[i] # Wakeup => i = j

InHand == {next} \ {NoRequest}
Pushing == {serializer.item} \ {Wakeup}
Queued == Range(followUpCh) \ {Wakeup}
Dispatched == {w.req : w \in workers} \cup {x.req : x \in records}
Everywhere ==
  Range(preGen) \cup Range(pending) \cup InHand \cup Queued \cup Pushing \cup Dispatched

(* A request is at one place at a time. *)
OnePlace ==
  /\ DistinctRequests(preGen) /\ DistinctRequests(pending)
  /\ DistinctRequests(followUpCh)
  /\ Range(preGen) \cap (Range(pending) \cup InHand \cup Queued \cup Pushing \cup Dispatched) = {}
  /\ Range(pending) \cap (InHand \cup Queued \cup Pushing \cup Dispatched) = {}
  /\ InHand \cap (Queued \cup Pushing \cup Dispatched) = {}
  /\ Queued \cap (Pushing \cup Dispatched) = {}
  /\ Pushing \cap Dispatched = {}

(* What an active session sends next has never been seen: its rounds so    *)
(* far are at most round[s], and a session of the pool has sent nothing.   *)
Fresh ==
  /\ \A r \in Everywhere :
       /\ r.session \in alive => r.round <= round[r.session]
       /\ r.session \notin Range(pool)
  /\ IsInjective(pool)
  /\ \A c \in Range(completionCh) : c.req.session \notin Range(pool)

(* The records and the goroutines still to record share out the dispatch   *)
(* indexes past the warm-up.                                               *)
RecordedOnce ==
  /\ \A v, w \in workers : v.req = w.req => v = w
  /\ \A x, y \in records : x.req = y.req \/ x.index = y.index => x = y
  /\ \A w \in workers, x \in records :
       w.at = "send" => w.req # x.req /\ w.index # x.index
  /\ \A x \in records : x.index \in WarmupCount .. index - 1
  /\ \A i \in WarmupCount .. index - 1 :
       \/ \E x \in records : x.index = i
       \/ \E w \in workers : w.at = "send" /\ w.index = i

OnceInv ==
  /\ OnePlace
  /\ Fresh
  /\ RecordedOnce

------------------------------
(* The requests between the main loop, the goroutines, the channels and    *)
(* the serializer.                                                         *)
Carried ==
  InHand \cup Range(pending) \cup {w.req : w \in Reporting}
    \cup {c.req : c \in Range(completionCh)} \cup Pushing \cup Queued

(* Every active session is in the pool, at its first request or carried;   *)
(* the pool is refilled from a session that ends, so it empties first.     *)
Covered ==
  \A s \in alive :
    s \in Range(pool) \/ \E r \in Range(preGen) \cup Carried : r.session = s

PoolFeeds ==
  /\ pool # <<>> =>
       \/ active > 0
       \/ active = 0 /\ seen = {} /\ \E r \in Range(preGen) : r.session # NoSession
  /\ serializer.at = "decrement" => pool = <<>>

Drained ==
  pc \in {"waitGroup", "join", "done"} /\ ~cancelled =>
    preGen = <<>> /\ pending = <<>> /\ next = NoRequest /\ active <= 0

SessionInv ==
  /\ Covered
  /\ PoolFeeds
  /\ Drained

------------------------------
(* Requests and sequences of them. *)

(* A request belongs to a session or to none, and is never the nil value. *)
LEMMA RequestType ==
  /\ \A r \in AllRequests :
       /\ r # Wakeup
       /\ r.session \in Sessions \cup {NoSession}
       /\ r.session # NoSession => r.session \in Sessions
       /\ r.round \in Nat
  /\ NoSession \notin Sessions
  /\ \A s \in Sessions, k \in Nat :
       /\ Request(s, k) \in AllRequests
       /\ Request(s, k).session = s /\ Request(s, k).round = k
BY ObserveAssumption DEF AllRequests, Request, Wakeup

(* Taking the head of a channel or a list. *)
LEMMA TailShifts ==
  ASSUME NEW S, NEW q \in Seq(S), q # <<>>
  PROVE  /\ Len(q) \in Nat \ {0} /\ DOMAIN q = 1 .. Len(q)
         /\ Head(q) = q[1] /\ Head(q) \in S
         /\ Tail(q) \in Seq(S) /\ Len(Tail(q)) = Len(q) - 1
         /\ DOMAIN Tail(q) = 1 .. Len(q) - 1
         /\ \A i \in 1 .. Len(q) - 1 : Tail(q)[i] = q[i + 1]
OBVIOUS

(* Sending on a channel or appending to a list. *)
LEMMA AppendExtends ==
  ASSUME NEW S, NEW q \in Seq(S), NEW x \in S
  PROVE  /\ Len(q) \in Nat /\ DOMAIN q = 1 .. Len(q)
         /\ Append(q, x) \in Seq(S) /\ Len(Append(q, x)) = Len(q) + 1
         /\ DOMAIN Append(q, x) = 1 .. Len(q) + 1
         /\ \A i \in 1 .. Len(q) : Append(q, x)[i] = q[i]
         /\ Append(q, x)[Len(q) + 1] = x
OBVIOUS

(* The session requests of a list are finitely many, and none is left      *)
(* exactly when the count is zero.                                         *)
LEMMA OfSessionType ==
  ASSUME NEW S, NEW q \in Seq(S)
  PROVE  /\ OfSession(q) \in Nat
         /\ OfSession(q) = 0 <=> \A i \in DOMAIN q : ~Counts(q[i])
         /\ q = <<>> => OfSession(q) = 0
<1> DEFINE C == {i \in DOMAIN q : q[i] # Wakeup /\ q[i].session # NoSession}
<1>1. DOMAIN q = 1 .. Len(q) /\ Len(q) \in Nat OBVIOUS
<1>2. IsFiniteSet(C)
  <2>1. IsFiniteSet(1 .. Len(q)) BY <1>1, FS_Interval
  <2>2. C \subseteq 1 .. Len(q) BY <1>1
  <2>3. QED BY <2>1, <2>2, FS_Subset
<1>3. Cardinality(C) \in Nat /\ (Cardinality(C) = 0 <=> C = {})
  BY <1>2, FS_CardinalityType, FS_EmptySet
<1>4. C = {} <=> \A i \in DOMAIN q : ~Counts(q[i]) BY DEF Counts
<1>5. q = <<>> => C = {} OBVIOUS
<1>6. QED BY <1>3, <1>4, <1>5 DEF OfSession

(* Appending one request changes one session's count. *)
LEMMA OfSessionAppend ==
  ASSUME NEW S, NEW q \in Seq(S), NEW x \in S
  PROVE  OfSession(Append(q, x)) = OfSession(q) + Weight(x)
<1> DEFINE C == {i \in DOMAIN q : q[i] # Wakeup /\ q[i].session # NoSession}
           D == {i \in DOMAIN Append(q, x) :
                   Append(q, x)[i] # Wakeup /\ Append(q, x)[i].session # NoSession}
           n == Len(q) + 1
<1>1. /\ DOMAIN q = 1 .. Len(q) /\ DOMAIN Append(q, x) = 1 .. n /\ Len(q) \in Nat
      /\ \A i \in 1 .. Len(q) : Append(q, x)[i] = q[i]
      /\ Append(q, x)[n] = x
  BY AppendExtends
<1>2. IsFiniteSet(C)
  <2>1. IsFiniteSet(1 .. Len(q)) BY <1>1, FS_Interval
  <2>2. C \subseteq 1 .. Len(q) BY <1>1
  <2>3. QED BY <2>1, <2>2, FS_Subset
<1>3. n \notin C BY <1>1
<1>4. CASE Counts(x)
  <2>1. D = C \cup {n}
    <3>1. ASSUME NEW i \in 1 .. Len(q)
          PROVE  i \in C <=> i \in D
      BY <1>1
    <3>2. n \in D BY <1>1, <1>4 DEF Counts
    <3>3. \A i \in D : i \in 1 .. Len(q) \/ i = n BY <1>1
    <3>4. \A i \in C : i \in 1 .. Len(q) BY <1>1
    <3>5. QED BY <3>1, <3>2, <3>3, <3>4
  <2>2. Cardinality(D) = Cardinality(C) + 1 BY <2>1, <1>2, <1>3, FS_AddElement
  <2>3. QED BY <2>2, <1>4 DEF OfSession, Weight
<1>5. CASE ~Counts(x)
  <2>1. D = C
    <3>1. ASSUME NEW i \in 1 .. Len(q)
          PROVE  i \in C <=> i \in D
      BY <1>1
    <3>2. n \notin D BY <1>1, <1>5 DEF Counts
    <3>3. \A i \in D : i \in 1 .. Len(q) \/ i = n BY <1>1
    <3>4. \A i \in C : i \in 1 .. Len(q) BY <1>1
    <3>5. QED BY <3>1, <3>2, <3>3, <3>4
  <2>2. Cardinality(C) \in Nat BY <1>2, FS_CardinalityType
  <2>3. Weight(x) = 0 BY <1>5 DEF Weight
  <2>4. OfSession(Append(q, x)) = Cardinality(D) /\ OfSession(q) = Cardinality(C)
    BY DEF OfSession
  <2> HIDE DEF C, D
  <2>5. QED BY <2>1, <2>2, <2>3, <2>4
<1>6. QED BY <1>4, <1>5

(* Taking the head changes one session's count. *)
LEMMA OfSessionTail ==
  ASSUME NEW S, NEW q \in Seq(S), q # <<>>
  PROVE  OfSession(q) = OfSession(Tail(q)) + Weight(Head(q))
<1> DEFINE C == {i \in DOMAIN q : q[i] # Wakeup /\ q[i].session # NoSession}
           D == {i \in DOMAIN Tail(q) : Tail(q)[i] # Wakeup /\ Tail(q)[i].session # NoSession}
           f == [i \in C \ {1} |-> i - 1]
<1>1. /\ DOMAIN q = 1 .. Len(q) /\ Len(q) \in Nat \ {0} /\ Head(q) = q[1]
      /\ DOMAIN Tail(q) = 1 .. Len(q) - 1
      /\ \A i \in 1 .. Len(q) - 1 : Tail(q)[i] = q[i + 1]
  BY TailShifts
<1>2. IsFiniteSet(C)
  <2>1. IsFiniteSet(1 .. Len(q)) BY <1>1, FS_Interval
  <2>2. C \subseteq 1 .. Len(q) BY <1>1
  <2>3. QED BY <2>1, <2>2, FS_Subset
<1>3. /\ IsFiniteSet(C \ {1}) /\ Cardinality(C) \in Nat
      /\ Cardinality(C \ {1}) = IF 1 \in C THEN Cardinality(C) - 1 ELSE Cardinality(C)
  BY <1>2, FS_RemoveElement, FS_CardinalityType
<1>4. f \in Bijection(C \ {1}, D)
  <2>1. \A i \in C \ {1} : i \in 2 .. Len(q) /\ i - 1 \in 1 .. Len(q) - 1 /\ q[i] = Tail(q)[i - 1]
    BY <1>1
  <2>2. \A i \in C \ {1} : i - 1 \in D BY <1>1, <2>1
  <2>3. f \in [C \ {1} -> D] /\ IsInjective(f) BY SMTT(60), <2>1, <2>2 DEF IsInjective
  <2>4. \A j \in D : j + 1 \in C \ {1} /\ f[j + 1] = j BY <1>1
  <2>5. QED BY <2>3, <2>4 DEF Bijection, Injection, Surjection
<1>5. Cardinality(D) = Cardinality(C \ {1})
  <2> HIDE DEF C, D, f
  <2>1. ExistsBijection(C \ {1}, D) BY <1>4 DEF ExistsBijection
  <2>2. QED BY <1>3, <2>1, FS_Bijection
<1>6. 1 \in C <=> Counts(Head(q)) BY <1>1 DEF Counts
<1>7. OfSession(q) = Cardinality(C) /\ OfSession(Tail(q)) = Cardinality(D)
  BY DEF OfSession
<1>8. CASE Counts(Head(q))
  <2>1. Weight(Head(q)) = 1 BY <1>8 DEF Weight
  <2> HIDE DEF C, D
  <2>2. QED BY <2>1, <1>3, <1>5, <1>6, <1>7, <1>8
<1>9. CASE ~Counts(Head(q))
  <2>1. Weight(Head(q)) = 0 BY <1>9 DEF Weight
  <2> HIDE DEF C, D
  <2>2. QED BY <2>1, <1>3, <1>5, <1>6, <1>7, <1>9
<1>10. QED BY <1>8, <1>9

------------------------------
(* The count. *)

(* What is outstanding is on the main loop's side or on the goroutines'. *)
MainSide == Weight(next) + OfSession(pending) + OfSession(followUpCh)
WorkSide == Cardinality(Reporting) + Len(completionCh) + InSerializer

(* Every term is a natural number. *)
LEMMA OutstandingTerms ==
  ObserveTypeOK /\ IsFiniteSet(workers) =>
         /\ OfSession(pending) \in Nat /\ OfSession(followUpCh) \in Nat
         /\ IsFiniteSet(Reporting) /\ Cardinality(Reporting) \in Nat
         /\ Len(completionCh) \in Nat
         /\ InSerializer \in 0 .. 1 /\ Weight(next) \in 0 .. 1
         /\ MainSide \in Nat /\ WorkSide \in Nat
<1> HAVE ObserveTypeOK /\ IsFiniteSet(workers)
<1>1. OfSession(pending) \in Nat /\ OfSession(followUpCh) \in Nat
  BY OfSessionType DEF ObserveTypeOK
<1>2. Reporting \subseteq workers BY DEF Reporting
<1>3. IsFiniteSet(Reporting) /\ Cardinality(Reporting) \in Nat
  BY <1>2, FS_Subset, FS_CardinalityType
<1>4. Len(completionCh) \in Nat /\ InSerializer \in 0 .. 1 /\ Weight(next) \in 0 .. 1
  BY DEF ObserveTypeOK, InSerializer, Weight
<1>5. MainSide \in Nat BY <1>1, <1>4 DEF MainSide
<1>6. WorkSide \in Nat BY <1>3, <1>4 DEF WorkSide
<1>7. QED BY <1>1, <1>3, <1>4, <1>5, <1>6

(* The sum of the two sides is the sum over all places. *)
LEMMA OutstandingSides ==
  ObserveTypeOK /\ IsFiniteSet(workers) => Outstanding = MainSide + WorkSide
<1> HAVE ObserveTypeOK /\ IsFiniteSet(workers)
<1> DEFINE a == Weight(next)
           b == OfSession(pending)
           c == OfSession(followUpCh)
           d == Cardinality(Reporting)
           e == Len(completionCh)
           f == InSerializer
<1>1. Outstanding = a + b + d + e + f + c
  BY DEF Outstanding, Weight, Counts, Reporting, InSerializer, Wakeup
<1>2. a \in Int /\ b \in Int /\ c \in Int /\ d \in Int /\ e \in Int /\ f \in Int
  BY OutstandingTerms
<1>3. MainSide = a + b + c /\ WorkSide = d + e + f BY DEF MainSide, WorkSide
<1> HIDE DEF a, b, c, d, e, f
<1>4. QED BY <1>1, <1>2, <1>3

(* The later rounds taken are finitely many. *)
LEMMA LaterRoundsType ==
  ObserveTypeOK /\ SourceInv =>
    Taken \in Nat /\ IsFiniteSet(LaterRounds) /\ Cardinality(LaterRounds) \in Nat
<1> HAVE ObserveTypeOK /\ SourceInv
<1>1. Taken \in Nat BY DEF ObserveTypeOK, SourceInv, Taken
<1>2. LaterRounds \subseteq 1 .. Taken BY DEF LaterRounds, Taken
<1>3. IsFiniteSet(1 .. Taken) BY <1>1, FS_Interval
<1>4. IsFiniteSet(LaterRounds) BY <1>2, <1>3, FS_Subset
<1>5. QED BY <1>1, <1>4, FS_CardinalityType

(* The counter never exceeds what is outstanding. *)
LEMMA CountedBounds == CountInv => ActiveIsOutstanding
<1> HAVE CountInv
<1>1. Outstanding \in Nat
  BY OutstandingTerms, OutstandingSides DEF CountInv, Shape
<1>2. Cardinality(LaterRounds) \in Nat /\ (LaterRounds = {} => Cardinality(LaterRounds) = 0)
  BY LaterRoundsType, FS_EmptySet DEF CountInv, Counted
<1>3. QED BY <1>1, <1>2 DEF CountInv, Counted, ActiveIsOutstanding

(* The loop starts with nothing outstanding. *)
LEMMA InitCountInv == ObserveInit => CountInv
<1> SUFFICES ASSUME ObserveInit PROVE CountInv OBVIOUS
<1>1. PICK w \in ObservedWorkloads : ObserveWorkload(w) BY DEF ObserveInit
<1>2. /\ source \in Seq(AllRequests) /\ preGen = source
      /\ pool \in Seq(Sessions) /\ alive \subseteq Sessions
  BY <1>1, ObserveAssumption DEF ObserveWorkload, WellFormed
<1>3. /\ pc = "loop" /\ cancelled = FALSE /\ closed = FALSE /\ next = NoRequest
      /\ index = 0 /\ active = 0 /\ workers = {} /\ records = {} /\ seen = {}
      /\ pending = <<>> /\ completionCh = <<>> /\ followUpCh = <<>>
      /\ serializer = [at |-> "receive", item |-> Wakeup]
      /\ round = [s \in Sessions |-> 0]
  BY <1>1 DEF ObserveInit, ObserveWorkload
<1>4. MaxConcurrency \in Nat /\ MaxRounds \in Nat \ {0} BY ObserveAssumption
<1>5. ObserveTypeOK
  <2>1. Len(completionCh) = 0 /\ Len(followUpCh) = 0 /\ pending \in Seq(AllRequests)
        /\ completionCh \in Seq(Completions) /\ followUpCh \in Seq(AllRequests \cup {Wakeup})
    BY <1>3
  <2>2. round \in [Sessions -> 0 .. MaxRounds - 1] BY <1>3, <1>4
  <2>3. serializer \in [at : {"receive", "decrement", "push", "ended"},
                       item : AllRequests \cup {Wakeup}]
    BY <1>3
  <2>4. 0 <= MaxConcurrency /\ index \in Nat /\ active \in Int BY <1>3, <1>4
  <2>5. QED BY <1>2, <1>3, <2>1, <2>2, <2>3, <2>4, Zenon DEF ObserveTypeOK
<1>6. Shape BY <1>3, FS_EmptySet DEF Shape, Wakeup
<1>7. Outstanding = 0
  <2>1. OfSession(pending) = 0 /\ OfSession(followUpCh) = 0 /\ Len(completionCh) = 0
    BY <1>3, <1>5, OfSessionType DEF ObserveTypeOK
  <2>2. Reporting = {} /\ Cardinality(Reporting) = 0
    BY <1>3, FS_EmptySet DEF Reporting
  <2>3. Weight(next) = 0 /\ InSerializer = 0
    BY <1>3 DEF Weight, InSerializer, Counts, Wakeup
  <2>4. MainSide = 0 /\ WorkSide = 0 BY <2>1, <2>2, <2>3 DEF MainSide, WorkSide
  <2>5. QED BY <1>3, <1>5, <2>4, FS_EmptySet, OutstandingSides
<1>8. SourceInv /\ Taken = 0 BY <1>2, <1>3 DEF SourceInv, Taken
<1>9. LaterRounds = {} BY <1>8 DEF LaterRounds, Taken
<1>10. Counted BY <1>3, <1>7, <1>8, <1>9, FS_EmptySet DEF Counted
<1>11. QED BY <1>5, <1>6, <1>10 DEF CountInv

(* The count stays exact when it moves as the two sides do. *)
LEMMA CountBalance ==
  ASSUME CountInv, ObserveTypeOK', Shape', UNCHANGED <<source, preGen, seen>>,
         active' - active = (MainSide' - MainSide) + (WorkSide' - WorkSide)
  PROVE  Counted'
<1> DEFINE c == Cardinality(LaterRounds)
<1>1. /\ active = (MainSide + WorkSide) - c
      /\ MainSide \in Nat /\ WorkSide \in Nat /\ active \in Int /\ c \in Nat
  BY OutstandingSides, OutstandingTerms, LaterRoundsType
     DEF CountInv, Shape, Counted, ObserveTypeOK
<1>2. ObserveTypeOK' /\ IsFiniteSet(workers)' BY DEF Shape
<1>3. (MainSide \in Nat /\ WorkSide \in Nat)' BY <1>2, OutstandingTerms, PTL
<1>4. (Outstanding = MainSide + WorkSide)' BY <1>2, OutstandingSides, PTL
<1>5. active' \in Int BY DEF ObserveTypeOK
<1>6. c' = c BY DEF LaterRounds
<1>7. SourceInv' BY DEF CountInv, Counted, SourceInv, Taken
<1> HIDE DEF c
<1>8. active' = (MainSide' + WorkSide') - c
  <2> DEFINE a == active
             b == active'
             m == MainSide
             n == MainSide'
             v == WorkSide
             w == WorkSide'
  <2>1. /\ a \in Int /\ b \in Int /\ m \in Nat /\ n \in Nat /\ v \in Nat /\ w \in Nat
        /\ a = (m + v) - c /\ b - a = (n - m) + (w - v) /\ c \in Nat
    BY <1>1, <1>3, <1>5
  <2> HIDE DEF a, b, m, n, v, w
  <2>2. b = (n + w) - c BY <2>1
  <2>3. QED BY <2>2 DEF b, n, w
<1>9. QED BY <1>4, <1>6, <1>7, <1>8 DEF Counted, c

(* Steps of the main loop that change neither a channel nor a list. *)
LEMMA MainMovesCountInv ==
  ASSUME CountInv,
         DrainedAll \/ DecideIdle \/ Pace \/ StopOnCancel \/ CloseChannel \/ Return
           \/ Interrupt \/ UNCHANGED observeVars
  PROVE  CountInv'
<1>1. UNCHANGED <<source, preGen, seen, next, pending, workers, completionCh, serializer,
                  followUpCh, active>>
  BY DEF DrainedAll, DecideIdle, Pace, StopOnCancel, CloseChannel, Return, Interrupt,
         observeVars, mainVars, sessionVars
<1>2. ObserveTypeOK'
  BY ZenonT(60) DEF CountInv, ObserveTypeOK, DrainedAll, DecideIdle, Pace, StopOnCancel, CloseChannel,
         Return, Interrupt, observeVars, mainVars, sessionVars
<1>3. Shape'
  BY DEF CountInv, Shape, DrainedAll, DecideIdle, Pace, StopOnCancel, CloseChannel,
         Return, Interrupt, observeVars, mainVars, sessionVars
<1>4. Counted'
  <2>1. Outstanding' = Outstanding BY <1>1 DEF Outstanding, OfSession
  <2>2. LaterRounds' = LaterRounds BY <1>1 DEF LaterRounds
  <2>3. QED BY <2>1, <2>2, <1>1 DEF CountInv, Counted, SourceInv, Taken
<1>5. QED BY <1>2, <1>3, <1>4 DEF CountInv

(* The dispatcher takes a follow-up from the channel. *)
LEMMA DrainFollowUpCountInv ==
  ASSUME CountInv, DrainFollowUp
  PROVE  CountInv'
<1> USE DEF DrainFollowUp, CountInv
<1>1. /\ followUpCh \in Seq(AllRequests \cup {Wakeup}) /\ followUpCh # <<>>
      /\ pending \in Seq(AllRequests)
  BY DEF ObserveTypeOK
<1>2. /\ Head(followUpCh) \in AllRequests \cup {Wakeup}
      /\ Tail(followUpCh) \in Seq(AllRequests \cup {Wakeup})
      /\ Len(Tail(followUpCh)) = Len(followUpCh) - 1 /\ Len(followUpCh) \in Nat
  BY <1>1, TailShifts
<1>3. pending' \in Seq(AllRequests) BY <1>1, <1>2, AppendExtends
<1>4. ObserveTypeOK' /\ Shape'
  <2>1. ObserveTypeOK' BY SMTT(60), <1>2, <1>3, ObserveAssumption DEF ObserveTypeOK, sessionVars
  <2>2. Shape' BY DEF Shape, sessionVars
  <2>3. QED BY <2>1, <2>2
<1>5. OfSession(pending') = OfSession(pending) + Weight(Head(followUpCh))
  <2>1. CASE Head(followUpCh) = Wakeup
    <3>1. Weight(Head(followUpCh)) = 0 BY <2>1 DEF Weight, Counts
    <3>2. OfSession(pending) \in Nat BY <1>1, OfSessionType
    <3>3. QED BY <3>1, <3>2, <2>1
  <2>2. CASE Head(followUpCh) # Wakeup
    <3>1. Head(followUpCh) \in AllRequests /\ pending' = Append(pending, Head(followUpCh))
      BY <2>2, <1>2
    <3>2. QED BY <3>1, <1>1, OfSessionAppend
  <2>3. QED BY <2>1, <2>2
<1>6. OfSession(followUpCh) = OfSession(followUpCh') + Weight(Head(followUpCh))
  BY <1>1, OfSessionTail
<1>7. MainSide' = MainSide
  <2>1. OfSession(followUpCh') \in Nat /\ OfSession(pending) \in Nat
    BY <1>1, <1>2, OfSessionType
  <2>2. Weight(Head(followUpCh)) \in Int /\ Weight(next) \in Int /\ Weight(next') = Weight(next)
    BY DEF Weight
  <2>3. QED BY <1>5, <1>6, <2>1, <2>2 DEF MainSide
<1>8. WorkSide' = WorkSide BY DEF WorkSide, Reporting, InSerializer
<1>9. Counted'
  <2>1. MainSide \in Nat /\ WorkSide \in Nat /\ active' = active /\ active \in Int
    BY OutstandingTerms DEF Shape, ObserveTypeOK
  <2>2. QED BY <2>1, <1>4, <1>7, <1>8, CountBalance
<1>10. QED BY <1>4, <1>9

(* The dispatcher takes a pre-generated request, and counts its session    *)
(* or has one more later round.                                            *)
LEMMA TakePreGenCountInv ==
  ASSUME CountInv, TakePreGen
  PROVE  CountInv'
<1> DEFINE h == Head(preGen)
           t == Taken + 1
<1> USE DEF TakePreGen
<1>1. ObserveTypeOK /\ Shape /\ SourceInv BY DEF CountInv, Counted
<1>2. /\ preGen \in Seq(AllRequests) /\ preGen # <<>> /\ h \in AllRequests
      /\ Tail(preGen) \in Seq(AllRequests) /\ h = preGen[1] /\ Len(preGen) \in Nat \ {0}
      /\ Len(Tail(preGen)) = Len(preGen) - 1
      /\ \A i \in 1 .. Len(preGen) - 1 : Tail(preGen)[i] = preGen[i + 1]
  BY <1>1, TailShifts DEF ObserveTypeOK
<1>3. h # Wakeup /\ (h.session # NoSession => h.session \in Sessions) BY <1>2, RequestType
<1>4. /\ preGen' = Tail(preGen) /\ source' = source /\ next' = h
      /\ (h.session = NoSession \/ h.session \in seen) => seen' = seen /\ active' = active
      /\ ~(h.session = NoSession \/ h.session \in seen) =>
           seen' = seen \cup {h.session} /\ active' = active + 1
  BY DEF CountSession
<1>5. ObserveTypeOK' /\ Shape'
  <2>1. seen' \subseteq Sessions /\ active' \in Int BY <1>1, <1>3, <1>4 DEF ObserveTypeOK
  <2>2. ObserveTypeOK' BY <2>1, <1>1, <1>2 DEF ObserveTypeOK, sessionVars
  <2>3. Shape' BY <1>1, <1>3 DEF Shape, Wakeup, sessionVars
  <2>4. QED BY <2>2, <2>3
<1>6. Taken \in Nat /\ Len(source) \in Nat /\ Taken = Len(source) - Len(preGen)
  BY <1>1, LaterRoundsType DEF Taken, ObserveTypeOK
<1>7. Taken' = t /\ source[t] = h /\ Len(preGen') <= Len(source')
  BY <1>1, <1>2, <1>4, <1>6 DEF Taken, SourceInv
<1>8. SourceInv'
  <2>1. \A i \in 1 .. Len(preGen') : preGen'[i] = source[t + i]
    <3>1. ASSUME NEW i \in 1 .. Len(preGen') PROVE preGen'[i] = source[t + i]
      <4>1. i + 1 \in 1 .. Len(preGen) /\ preGen'[i] = preGen[i + 1] BY <1>2, <1>4
      <4>2. Taken + (i + 1) = t + i BY <1>6
      <4>3. QED BY <4>1, <4>2, <1>1 DEF SourceInv
    <3>2. QED BY <3>1
  <2>2. {source[j].session : j \in 1 .. t} = {source[j].session : j \in 1 .. Taken} \cup {h.session}
    <3>1. 1 .. t = (1 .. Taken) \cup {t} BY <1>6
    <3>2. QED BY <3>1, <1>7
  <2>3. seen' = {source[j].session : j \in 1 .. t} \ {NoSession}
    BY <2>2, <1>1, <1>4 DEF SourceInv
  <2>4. QED BY <2>1, <2>3, <1>4, <1>7 DEF SourceInv
<1> HIDE DEF TakePreGen, h
<1>9. LET later == h.session # NoSession /\ h.session \in seen
      IN  Cardinality(LaterRounds') = Cardinality(LaterRounds) + (IF later THEN 1 ELSE 0)
  <2> DEFINE Later(i) == /\ source[i].session # NoSession
                         /\ \E j \in 1 .. i - 1 : source[j].session = source[i].session
  <2>1. LaterRounds = {i \in 1 .. Taken : Later(i)} BY DEF LaterRounds, Taken
  <2>2. LaterRounds' = {i \in 1 .. t : Later(i)} BY <1>4, <1>7 DEF LaterRounds, Taken
  <2>3. Later(t) <=> h.session # NoSession /\ h.session \in seen
    <3>1. t - 1 = Taken BY <1>6
    <3>2. QED BY <3>1, <1>1, <1>7 DEF SourceInv
  <2>4. IsFiniteSet(LaterRounds) /\ Cardinality(LaterRounds) \in Nat BY <1>1, LaterRoundsType
  <2> HIDE DEF Later
  <2>5. t \notin LaterRounds /\ 1 .. t = (1 .. Taken) \cup {t} BY <2>1, <1>6
  <2>6. CASE Later(t)
    <3>1. LaterRounds' = LaterRounds \cup {t} BY <2>1, <2>2, <2>5, <2>6
    <3>2. QED BY <3>1, <2>3, <2>4, <2>5, <2>6, FS_AddElement
  <2>7. CASE ~Later(t)
    <3>1. LaterRounds' = LaterRounds BY <2>1, <2>2, <2>5, <2>7
    <3>2. QED BY <3>1, <2>3, <2>4, <2>7
  <2>8. QED BY <2>6, <2>7
<1>10. MainSide' = MainSide + Weight(h)
  <2>1. Weight(next) = 0 /\ Weight(h) \in Int /\ Weight(next') = Weight(h)
    BY <1>1, <1>4 DEF Weight, Counts, Shape, Wakeup, TakePreGen
  <2>2. OfSession(pending) \in Int /\ OfSession(followUpCh) \in Int
    BY <1>1, OutstandingTerms DEF Shape
  <2>3. OfSession(pending') = OfSession(pending) /\ OfSession(followUpCh') = OfSession(followUpCh)
    BY DEF TakePreGen
  <2>4. QED BY <2>1, <2>2, <2>3 DEF MainSide
<1>11. WorkSide' = WorkSide BY DEF WorkSide, Reporting, InSerializer, TakePreGen
<1>12. Outstanding' = Outstanding + Weight(h)
  <2>1. MainSide \in Int /\ WorkSide \in Int /\ Weight(h) \in Int
    BY <1>1, OutstandingTerms DEF Shape, Weight
  <2>2. Outstanding = MainSide + WorkSide BY <1>1, OutstandingSides DEF Shape
  <2>3. ObserveTypeOK' /\ IsFiniteSet(workers)' BY <1>5 DEF Shape
  <2>4. (Outstanding = MainSide + WorkSide)' BY <2>3, OutstandingSides, PTL
  <2>5. QED BY <2>1, <2>2, <2>4, <1>10, <1>11
<1>13. Counted'
  <2>1. /\ Outstanding \in Int /\ active = Outstanding - Cardinality(LaterRounds)
        /\ Cardinality(LaterRounds) \in Nat
    BY <1>1, OutstandingTerms, OutstandingSides, LaterRoundsType DEF CountInv, Counted, Shape
  <2>2. h.session # NoSession => Weight(h) = 1 BY <1>3 DEF Weight, Counts
  <2>3. h.session = NoSession => Weight(h) = 0 BY DEF Weight, Counts
  <2>4. active' = Outstanding' - Cardinality(LaterRounds')
    <3>1. CASE h.session = NoSession BY <3>1, <2>1, <2>3, <1>4, <1>9, <1>12
    <3>2. CASE h.session # NoSession /\ h.session \in seen
      BY <3>2, <2>1, <2>2, <1>4, <1>9, <1>12
    <3>3. CASE h.session # NoSession /\ h.session \notin seen
      BY <3>3, <2>1, <2>2, <1>4, <1>9, <1>12
    <3>4. QED BY <3>1, <3>2, <3>3
  <2>6. QED BY <2>4, <1>8 DEF Counted
<1>14. QED BY <1>5, <1>13 DEF CountInv

(* A follow-up goes from the list, or straight from the channel, to the    *)
(* hand of the main loop.                                                  *)
LEMMA TakeFollowUpCountInv ==
  ASSUME CountInv, TakeFollowUp \/ ReceiveFollowUp
  PROVE  CountInv'
<1>1. ObserveTypeOK /\ Shape BY DEF CountInv
<1>2. /\ OfSession(pending) \in Nat /\ OfSession(followUpCh) \in Nat
      /\ MainSide \in Nat /\ WorkSide \in Nat /\ active \in Int
  BY <1>1, OutstandingTerms DEF Shape, ObserveTypeOK
<1>3. Weight(next) = 0 /\ Weight(next') \in Int
  BY <1>1 DEF TakeFollowUp, ReceiveFollowUp, Weight, Counts, Shape, Wakeup
<1>4. /\ UNCHANGED active /\ UNCHANGED <<source, preGen, seen>>
      /\ WorkSide' = WorkSide
  BY DEF TakeFollowUp, ReceiveFollowUp, WorkSide, Reporting, InSerializer
<1>5. CASE TakeFollowUp
  <2>1. /\ pending \in Seq(AllRequests) /\ pending # <<>>
        /\ Head(pending) \in AllRequests /\ Tail(pending) \in Seq(AllRequests)
    BY <1>1, <1>5, TailShifts DEF ObserveTypeOK, TakeFollowUp
  <2>2. Head(pending) # Wakeup BY <2>1, RequestType
  <2>3. ObserveTypeOK' /\ Shape'
    <3>1. ObserveTypeOK' BY <1>1, <1>5, <2>1 DEF ObserveTypeOK, TakeFollowUp, sessionVars
    <3>2. Shape'
      BY <1>1, <1>5, <2>2 DEF Shape, Wakeup, TakeFollowUp, sessionVars
    <3>3. QED BY <3>1, <3>2
  <2>4. MainSide' = MainSide
    <3>1. OfSession(pending) = OfSession(pending') + Weight(next')
      BY <1>5, <2>1, OfSessionTail DEF TakeFollowUp
    <3>2. OfSession(pending') \in Nat
      BY <1>5, <2>1, OfSessionType DEF TakeFollowUp
    <3>3. OfSession(followUpCh') = OfSession(followUpCh)
      BY <1>5 DEF TakeFollowUp
    <3>4. QED BY <3>1, <3>2, <3>3, <1>2, <1>3 DEF MainSide
  <2>5. QED BY <2>3, <2>4, <1>2, <1>4, CountBalance DEF CountInv
<1>6. CASE ReceiveFollowUp
  <2>1. /\ followUpCh \in Seq(AllRequests \cup {Wakeup}) /\ followUpCh # <<>>
        /\ Head(followUpCh) \in AllRequests \cup {Wakeup}
        /\ Tail(followUpCh) \in Seq(AllRequests \cup {Wakeup})
        /\ Len(Tail(followUpCh)) = Len(followUpCh) - 1 /\ Len(followUpCh) \in Nat
    BY <1>1, <1>6, TailShifts DEF ObserveTypeOK, ReceiveFollowUp
  <2>2. ObserveTypeOK' /\ Shape'
    <3>1. ObserveTypeOK'
      BY SMTT(60), <1>1, <1>6, <2>1, ObserveAssumption DEF ObserveTypeOK, ReceiveFollowUp, Wakeup, sessionVars
    <3>2. Shape' BY <1>1, <1>6 DEF Shape, Wakeup, ReceiveFollowUp, sessionVars
    <3>3. QED BY <3>1, <3>2
  <2>3. MainSide' = MainSide
    <3>1. OfSession(followUpCh) = OfSession(followUpCh') + Weight(next')
      BY <1>6, <2>1, OfSessionTail DEF ReceiveFollowUp
    <3>2. OfSession(followUpCh') \in Nat
      BY <1>6, <2>1, OfSessionType DEF ReceiveFollowUp
    <3>3. OfSession(pending') = OfSession(pending) BY <1>6 DEF ReceiveFollowUp
    <3>4. QED BY <3>1, <3>2, <3>3, <1>2, <1>3 DEF MainSide
  <2>4. QED BY <2>2, <2>3, <1>2, <1>4, CountBalance DEF CountInv
<1>7. QED BY <1>5, <1>6

(* A goroutine takes the request in hand. *)
LEMMA DispatchCountInv ==
  ASSUME CountInv, Dispatch
  PROVE  CountInv'
<1> DEFINE w == [req |-> next, index |-> index, at |-> "send"]
<1> USE DEF Dispatch
<1>1. ObserveTypeOK /\ Shape BY DEF CountInv
<1>2. next \in AllRequests /\ next # Wakeup /\ index \in Nat
  BY <1>1 DEF ObserveTypeOK, Shape, Wakeup
<1>3. w \notin workers /\ workers' = workers \cup {w} BY <1>1, <1>2 DEF Shape
<1>4. IsFiniteSet(workers') BY <1>1, <1>3, FS_AddElement DEF Shape
<1>5. ObserveTypeOK' BY <1>1, <1>2 DEF ObserveTypeOK, sessionVars
<1>6. Shape'
  <2>1. \A v \in workers : v.index \in Nat BY <1>1 DEF ObserveTypeOK
  <2>2. \A u, v \in workers' : u.index = v.index => u = v
    BY <1>1, <1>3, <2>1 DEF Shape
  <2>3. \A v \in workers' :
           v.index < index' /\ (v.at \in {"ok", "error"} => v.req.session # NoSession)
    BY <1>1, <1>2, <1>3, <2>1 DEF Shape
  <2>4. QED BY <1>1, <1>4, <2>2, <2>3 DEF Shape, Wakeup, sessionVars
<1>7. /\ OfSession(pending) \in Nat /\ OfSession(followUpCh) \in Nat
      /\ IsFiniteSet(Reporting) /\ Cardinality(Reporting) \in Nat
      /\ Len(completionCh) \in Nat /\ InSerializer \in Int
      /\ MainSide \in Nat /\ WorkSide \in Nat /\ active \in Int
      /\ Weight(next) \in Int /\ Weight(next') = 0
  BY <1>1, OutstandingTerms DEF Shape, ObserveTypeOK, Weight, Counts, Wakeup
<1>8. MainSide' = MainSide - Weight(next)
  <2>1. OfSession(pending') = OfSession(pending) /\ OfSession(followUpCh') = OfSession(followUpCh)
    OBVIOUS
  <2>2. QED BY SMTT(60), <1>7, <2>1 DEF MainSide
<1>9. Cardinality(Reporting') = Cardinality(Reporting) + Weight(next)
  <2>1. CASE next.session = NoSession
    <3>1. Reporting' = Reporting BY <1>3, <2>1 DEF Reporting
    <3>2. Weight(next) = 0 BY <2>1 DEF Weight, Counts
    <3>3. QED BY <1>7, <3>1, <3>2
  <2>2. CASE next.session # NoSession
    <3>1. Reporting' = Reporting \cup {w} /\ w \notin Reporting
      BY <1>3, <2>2 DEF Reporting
    <3>2. Weight(next) = 1 BY <1>2, <2>2 DEF Weight, Counts
    <3>3. Cardinality(Reporting \cup {w}) = Cardinality(Reporting) + 1
      BY <1>7, <3>1, FS_AddElement
    <3>4. QED BY <3>1, <3>2, <3>3
  <2>3. QED BY <2>1, <2>2
<1>10. WorkSide' = WorkSide + Weight(next)
  <2>1. Len(completionCh') = Len(completionCh) /\ InSerializer' = InSerializer
    BY DEF InSerializer
  <2>2. QED BY SMTT(60), <1>7, <1>9, <2>1 DEF WorkSide
<1>11. active' = active OBVIOUS
<1>12. Counted'
  BY SMTT(60), <1>5, <1>6, <1>7, <1>8, <1>10, <1>11, CountBalance
<1>13. QED BY <1>5, <1>6, <1>12 DEF CountInv

------------------------------
(* The goroutines. *)
Reports(w) == w.req.session # NoSession /\ w.at # "release"
WorkerType == [req : AllRequests, index : Nat, at : {"send", "ok", "error", "release"}]

(* A goroutine w goes on as v, with the same request and dispatch index. *)
LEMMA WorkerMoves ==
  ASSUME ObserveTypeOK, Shape, NEW w \in workers, NEW v \in WorkerType,
         v.index = w.index, v.at \in {"ok", "error"} => v.req.session # NoSession,
         workers' = (workers \ {w}) \cup {v}
  PROVE  /\ workers' \subseteq WorkerType /\ IsFiniteSet(workers')
         /\ \A a, b \in workers' : a.index = b.index => a = b
         /\ \A u \in workers' :
              u.index < index /\ (u.at \in {"ok", "error"} => u.req.session # NoSession)
         /\ Cardinality(Reporting') \in Nat
         /\ (Reports(w) <=> Reports(v)) => Cardinality(Reporting') = Cardinality(Reporting)
         /\ Reports(w) /\ ~Reports(v) => Cardinality(Reporting') = Cardinality(Reporting) - 1
<1>1. workers \subseteq WorkerType /\ IsFiniteSet(workers)
  BY DEF ObserveTypeOK, WorkerType, Shape
<1>2. \A u \in workers' : u = v \/ u \in workers \ {w} OBVIOUS
<1>3. workers' \subseteq WorkerType BY <1>1, <1>2
<1>4. IsFiniteSet(workers') BY <1>1, FS_RemoveElement, FS_AddElement
<1>5. \A u \in workers \ {w} : u.index # v.index BY DEF Shape
<1>6. \A a, b \in workers' : a.index = b.index => a = b BY <1>2, <1>5 DEF Shape
<1>7. \A u \in workers' :
        u.index < index /\ (u.at \in {"ok", "error"} => u.req.session # NoSession)
  BY <1>2 DEF Shape
<1>8. /\ IsFiniteSet(Reporting) /\ Cardinality(Reporting) \in Nat
      /\ IsFiniteSet(Reporting \ {w})
      /\ Cardinality(Reporting \ {w}) =
           IF w \in Reporting THEN Cardinality(Reporting) - 1 ELSE Cardinality(Reporting)
  BY <1>1, OutstandingTerms, FS_RemoveElement
<1>9. v \notin Reporting \ {w} BY <1>5 DEF Reporting
<1>10. w \in Reporting <=> Reports(w) BY DEF Reporting, Reports
<1>11. CASE Reports(v)
  <2>1. Reporting' = (Reporting \ {w}) \cup {v} BY <1>11 DEF Reporting, Reports
  <2>2. Cardinality(Reporting') = Cardinality(Reporting \ {w}) + 1
    BY <2>1, <1>8, <1>9, FS_AddElement
  <2>3. CASE w \in Reporting
    BY <2>2, <2>3, <1>3, <1>4, <1>6, <1>7, <1>8, <1>10, <1>11
  <2>4. CASE w \notin Reporting
    BY <2>2, <2>4, <1>3, <1>4, <1>6, <1>7, <1>8, <1>10, <1>11
  <2>5. QED BY <2>3, <2>4
<1>12. CASE ~Reports(v)
  <2>1. Reporting' = Reporting \ {w} BY <1>12 DEF Reporting, Reports
  <2>2. Cardinality(Reporting') \in Nat BY <2>1, <1>8, FS_CardinalityType
  <2>3. CASE w \in Reporting
    BY <2>1, <2>2, <2>3, <1>3, <1>4, <1>6, <1>7, <1>8, <1>10, <1>12
  <2>4. CASE w \notin Reporting
    BY <2>1, <2>2, <2>4, <1>3, <1>4, <1>6, <1>7, <1>8, <1>10, <1>12
  <2>5. QED BY <2>3, <2>4
<1>13. QED BY <1>11, <1>12

(* A worker sends its request. *)
LEMMA SendCountInv ==
  ASSUME CountInv, NEW w \in workers, Send(w)
  PROVE  CountInv'
<1>1. ObserveTypeOK /\ Shape BY DEF CountInv
<1>2. PICK status \in {"ok", "error"} :
        workers' = (workers \ {w}) \cup
             {[req |-> w.req, index |-> w.index,
               at |-> IF w.req.session = NoSession THEN "release" ELSE status]}
  BY DEF Send
<1> DEFINE v == [req |-> w.req, index |-> w.index,
                 at |-> IF w.req.session = NoSession THEN "release" ELSE status]
<1>3. w \in WorkerType BY <1>1 DEF ObserveTypeOK, WorkerType
<1>4. /\ v \in WorkerType /\ v.index = w.index /\ w.at = "send"
      /\ v.at \in {"ok", "error"} => v.req.session # NoSession
      /\ Reports(w) <=> Reports(v)
  BY <1>3 DEF WorkerType, Reports, Send
<1>5. workers' = (workers \ {w}) \cup {v} BY <1>2
<1> HIDE DEF v
<1>6. /\ workers' \subseteq WorkerType /\ IsFiniteSet(workers')
      /\ \A a, b \in workers' : a.index = b.index => a = b
      /\ \A u \in workers' :
           u.index < index /\ (u.at \in {"ok", "error"} => u.req.session # NoSession)
      /\ Cardinality(Reporting') = Cardinality(Reporting)
  BY <1>1, <1>4, <1>5, WorkerMoves
<1>7. records' \subseteq [req : AllRequests, index : Nat]
  BY <1>1, <1>3 DEF Send, RecordOf, WorkerType, ObserveTypeOK
<1>8. ObserveTypeOK'
  BY <1>1, <1>6, <1>7 DEF ObserveTypeOK, WorkerType, Send, mainVars, sessionVars
<1>9. Shape' BY <1>1, <1>6 DEF Shape, Send, mainVars, sessionVars
<1>10. MainSide' = MainSide /\ WorkSide' = WorkSide /\ active' = active
       /\ UNCHANGED <<source, preGen, seen>>
  BY <1>6 DEF MainSide, WorkSide, InSerializer, Send, mainVars
<1>11. MainSide \in Nat /\ WorkSide \in Nat /\ active \in Int
  BY <1>1, OutstandingTerms DEF Shape, ObserveTypeOK
<1>12. QED BY <1>8, <1>9, <1>10, <1>11, CountBalance DEF CountInv

(* A worker reports its completion. *)
LEMMA ReportCompletionCountInv ==
  ASSUME CountInv, NEW w \in workers, ReportCompletion(w)
  PROVE  CountInv'
<1> DEFINE v == [req |-> w.req, index |-> w.index, at |-> "release"]
           ce == [req |-> w.req, status |-> w.at]
<1>1. ObserveTypeOK /\ Shape BY DEF CountInv
<1>2. w \in WorkerType /\ w.at \in {"ok", "error"} /\ w.req.session # NoSession
  BY <1>1 DEF ObserveTypeOK, WorkerType, Shape, ReportCompletion
<1>3. /\ v \in WorkerType /\ v.index = w.index
      /\ v.at \in {"ok", "error"} => v.req.session # NoSession
      /\ Reports(w) /\ ~Reports(v)
  BY <1>2 DEF WorkerType, Reports
<1>4. /\ ce \in Completions /\ ce.req = w.req
      /\ completionCh \in Seq(Completions) /\ Len(completionCh) < MaxConcurrency
      /\ completionCh' = Append(completionCh, ce)
      /\ workers' = (workers \ {w}) \cup {v}
  BY <1>1, <1>2 DEF ReportCompletion, Completions, WorkerType, ObserveTypeOK
<1> HIDE DEF v, ce
<1>5. /\ workers' \subseteq WorkerType /\ IsFiniteSet(workers')
      /\ \A a, b \in workers' : a.index = b.index => a = b
      /\ \A u \in workers' :
           u.index < index /\ (u.at \in {"ok", "error"} => u.req.session # NoSession)
      /\ Cardinality(Reporting') = Cardinality(Reporting) - 1
  BY <1>1, <1>3, <1>4, WorkerMoves
<1>6. /\ completionCh' \in Seq(Completions) /\ Len(completionCh') = Len(completionCh) + 1
      /\ Len(completionCh) \in Nat
      /\ \A i \in DOMAIN completionCh' :
            completionCh'[i] = ce \/ (i \in DOMAIN completionCh /\ completionCh'[i] = completionCh[i])
  <2>1. /\ Len(completionCh) \in Nat /\ DOMAIN completionCh = 1 .. Len(completionCh)
        /\ completionCh' \in Seq(Completions) /\ Len(completionCh') = Len(completionCh) + 1
        /\ DOMAIN completionCh' = 1 .. Len(completionCh) + 1
        /\ \A i \in 1 .. Len(completionCh) : completionCh'[i] = completionCh[i]
        /\ completionCh'[Len(completionCh) + 1] = ce
    BY <1>4, AppendExtends
  <2>2. QED BY <2>1
<1>7. ObserveTypeOK' BY SMTT(60), <1>1, <1>4, <1>5, <1>6, ObserveAssumption
     DEF ObserveTypeOK, WorkerType, ReportCompletion, mainVars, sessionVars
<1>8. Shape'
  <2>1. \A i \in DOMAIN completionCh' : completionCh'[i].req.session # NoSession
    BY <1>1, <1>2, <1>4, <1>6 DEF Shape
  <2>2. QED BY <1>1, <1>5, <2>1 DEF Shape, ReportCompletion, mainVars, sessionVars
<1>9. /\ MainSide \in Nat /\ WorkSide \in Nat /\ active \in Int
      /\ Cardinality(Reporting) \in Nat /\ InSerializer \in Int
  BY <1>1, OutstandingTerms DEF Shape, ObserveTypeOK
<1>10. WorkSide' = WorkSide
  <2>1. InSerializer' = InSerializer BY DEF InSerializer, ReportCompletion
  <2>2. QED BY <2>1, <1>5, <1>6, <1>9 DEF WorkSide
<1>11. MainSide' = MainSide /\ active' = active /\ UNCHANGED <<source, preGen, seen>>
  BY DEF MainSide, ReportCompletion, mainVars
<1>12. QED BY <1>7, <1>8, <1>9, <1>10, <1>11, CountBalance DEF CountInv

(* A worker gives its slot back. *)
LEMMA ReleaseCountInv ==
  ASSUME CountInv, NEW w \in workers, Release(w)
  PROVE  CountInv'
<1>1. ObserveTypeOK /\ Shape BY DEF CountInv
<1>2. workers' = workers \ {w} /\ w.at = "release" BY DEF Release
<1>3. ObserveTypeOK' BY <1>1, <1>2 DEF ObserveTypeOK, Release, mainVars, sessionVars
<1>4. IsFiniteSet(workers') BY <1>1, <1>2, FS_RemoveElement DEF Shape
<1>5. Shape' BY <1>1, <1>2, <1>4 DEF Shape, Release, mainVars, sessionVars
<1>6. Reporting' = Reporting BY <1>2 DEF Reporting
<1>7. MainSide' = MainSide /\ WorkSide' = WorkSide /\ active' = active
      /\ UNCHANGED <<source, preGen, seen>>
  BY <1>6 DEF MainSide, WorkSide, InSerializer, Release, mainVars
<1>8. MainSide \in Nat /\ WorkSide \in Nat /\ active \in Int
  BY <1>1, OutstandingTerms DEF Shape, ObserveTypeOK
<1>9. QED BY <1>3, <1>5, <1>7, <1>8, CountBalance DEF CountInv

------------------------------
(* The serializer. *)

(* The completion at the head of the channel is that of a session. *)
LEMMA HeadCompletion ==
  ASSUME ObserveTypeOK, Shape, completionCh # <<>>
  PROVE  /\ Head(completionCh) \in Completions
         /\ Head(completionCh) = completionCh[1] /\ 1 \in DOMAIN completionCh
         /\ Head(completionCh).req.session # NoSession
         /\ Head(completionCh).req.session \in Sessions
         /\ Tail(completionCh) \in Seq(Completions)
         /\ Len(Tail(completionCh)) = Len(completionCh) - 1
         /\ Len(completionCh) \in Nat \ {0}
         /\ DOMAIN completionCh = 1 .. Len(completionCh)
         /\ DOMAIN Tail(completionCh) = 1 .. Len(completionCh) - 1
         /\ \A i \in 1 .. Len(completionCh) - 1 : Tail(completionCh)[i] = completionCh[i + 1]
<1>1. completionCh \in Seq(Completions) BY DEF ObserveTypeOK
<1>2. /\ Len(completionCh) \in Nat \ {0} /\ DOMAIN completionCh = 1 .. Len(completionCh)
      /\ Head(completionCh) = completionCh[1] /\ Head(completionCh) \in Completions
      /\ Tail(completionCh) \in Seq(Completions)
      /\ Len(Tail(completionCh)) = Len(completionCh) - 1
      /\ DOMAIN Tail(completionCh) = 1 .. Len(completionCh) - 1
      /\ \A i \in 1 .. Len(completionCh) - 1 : Tail(completionCh)[i] = completionCh[i + 1]
  BY <1>1, TailShifts
<1>3. 1 \in DOMAIN completionCh BY <1>2
<1>4. Head(completionCh).req.session # NoSession BY <1>2, <1>3 DEF Shape
<1>5. Head(completionCh).req \in AllRequests BY <1>2 DEF Completions
<1>6. QED BY <1>2, <1>3, <1>4, <1>5, RequestType

(* What the handler answers: the next round of the session, the first of a *)
(* session of the pool, or nothing, and then the count goes down first.    *)
LEMMA HandlerAnswers ==
  ASSUME ObserveTypeOK, Shape, SerializerReceives
  PROVE  \E item \in AllRequests \cup {Wakeup} :
           /\ serializer' = [at |-> IF item = Wakeup THEN "decrement" ELSE "push", item |-> item]
           /\ item # Wakeup => item.session # NoSession
<1> DEFINE ce == Head(completionCh)
<1>1. ce.req.session \in Sessions /\ ce.req.session # NoSession
  BY HeadCompletion DEF SerializerReceives
<1>2. round \in [Sessions -> 0 .. MaxRounds - 1] /\ MaxRounds \in Nat /\ pool \in Seq(Sessions)
  BY ObserveAssumption DEF ObserveTypeOK
<1>3. CASE GoesOn(ce)
  <2> DEFINE item == Request(ce.req.session, round[ce.req.session] + 1)
  <2>1. round[ce.req.session] + 1 \in 0 .. MaxRounds - 1
    BY <1>1, <1>2, <1>3 DEF GoesOn
  <2>2. item \in AllRequests /\ item # Wakeup /\ item.session # NoSession
    BY <1>1, <2>1, RequestType
  <2>3. serializer' = [at |-> "push", item |-> item] BY <1>3 DEF GoesOn
  <2>4. QED BY <2>2, <2>3
<1>4. CASE Ends(ce) /\ pool = <<>> BY <1>4 DEF Ends
<1>5. CASE Ends(ce) /\ pool # <<>>
  <2> DEFINE item == Request(Head(pool), 0)
  <2>1. Head(pool) \in Sessions /\ 0 \in 0 .. MaxRounds - 1
    BY <1>2, <1>5, ObserveAssumption
  <2>2. item \in AllRequests /\ item # Wakeup /\ item.session # NoSession
    BY <2>1, RequestType
  <2>3. serializer' = [at |-> "push", item |-> item] BY <1>5 DEF Ends
  <2>4. QED BY <2>2, <2>3
<1>6. QED BY <1>3, <1>4, <1>5 DEF SerializerReceives

(* The serializer takes a completion. *)
LEMMA SerializerReceivesCountInv ==
  ASSUME CountInv, SerializerReceives
  PROVE  CountInv'
<1>1. ObserveTypeOK /\ Shape BY DEF CountInv
<1>2. PICK item \in AllRequests \cup {Wakeup} :
        /\ serializer' = [at |-> IF item = Wakeup THEN "decrement" ELSE "push", item |-> item]
        /\ item # Wakeup => item.session # NoSession
  BY <1>1, HandlerAnswers
<1>3. /\ completionCh # <<>> /\ completionCh' = Tail(completionCh)
      /\ serializer.at = "receive"
      /\ UNCHANGED <<mainVars, cancelled, active, workers, records, closed, followUpCh>>
  BY DEF SerializerReceives
<1>4. /\ Head(completionCh).req.session \in Sessions
      /\ Tail(completionCh) \in Seq(Completions)
      /\ Len(Tail(completionCh)) = Len(completionCh) - 1
      /\ Len(completionCh) \in Nat \ {0}
      /\ DOMAIN completionCh = 1 .. Len(completionCh)
      /\ DOMAIN Tail(completionCh) = 1 .. Len(completionCh) - 1
      /\ \A i \in 1 .. Len(completionCh) - 1 : Tail(completionCh)[i] = completionCh[i + 1]
  BY <1>1, <1>3, HeadCompletion
<1>5. /\ round' \in [Sessions -> 0 .. MaxRounds - 1]
      /\ alive' \subseteq Sessions /\ pool' \in Seq(Sessions)
  <2>1. /\ round \in [Sessions -> 0 .. MaxRounds - 1] /\ MaxRounds \in Nat
        /\ alive \subseteq Sessions /\ pool \in Seq(Sessions)
    BY <1>1, ObserveAssumption DEF ObserveTypeOK
  <2>2. CASE GoesOn(Head(completionCh)) BY <2>1, <2>2, <1>4 DEF GoesOn
  <2>3. CASE Ends(Head(completionCh))
    <3>1. pool' \in Seq(Sessions)
      <4>1. pool # <<>> => Tail(pool) \in Seq(Sessions) BY <2>1
      <4>2. QED BY <2>1, <2>3, <4>1 DEF Ends
    <3>2. round' = round /\ alive' \subseteq alive BY <2>3 DEF Ends
    <3>3. QED BY <2>1, <3>1, <3>2
  <2>4. QED BY <2>2, <2>3 DEF SerializerReceives
<1>6. ObserveTypeOK'
  <2>1. serializer' \in [at : {"receive", "decrement", "push", "ended"},
                         item : AllRequests \cup {Wakeup}]
    BY <1>2
  <2>2. completionCh' \in Seq(Completions) /\ Len(completionCh') <= MaxConcurrency
    BY <1>1, <1>3, <1>4, ObserveAssumption DEF ObserveTypeOK
  <2>3. QED BY <1>1, <1>3, <1>5, <2>1, <2>2 DEF ObserveTypeOK, mainVars
<1>7. Shape'
  <2>1. \A i \in DOMAIN completionCh' : completionCh'[i].req.session # NoSession
    BY <1>1, <1>3, <1>4 DEF Shape
  <2>2. /\ serializer'.at # "push" => serializer'.item = Wakeup
        /\ serializer'.item # Wakeup => serializer'.item.session # NoSession
    BY <1>2
  <2>3. QED BY <1>1, <1>3, <2>1, <2>2 DEF Shape, mainVars, Wakeup
<1>8. /\ MainSide \in Nat /\ WorkSide \in Nat /\ active \in Int
      /\ Cardinality(Reporting) \in Nat
  BY <1>1, OutstandingTerms DEF Shape, ObserveTypeOK
<1>9. WorkSide' = WorkSide
  <2>1. InSerializer = 0 /\ InSerializer' = 1
    BY <1>1, <1>2, <1>3 DEF InSerializer, Shape
  <2>2. Len(completionCh') = Len(completionCh) - 1 /\ Reporting' = Reporting
    BY <1>3, <1>4 DEF Reporting
  <2>3. QED BY <1>4, <1>8, <2>1, <2>2 DEF WorkSide
<1>10. MainSide' = MainSide /\ active' = active /\ UNCHANGED <<source, preGen, seen>>
  BY <1>3 DEF MainSide, mainVars
<1>11. QED BY <1>6, <1>7, <1>8, <1>9, <1>10, CountBalance DEF CountInv

(* The serializer counts the request down. *)
LEMMA SerializerDecrementsCountInv ==
  ASSUME CountInv, SerializerDecrements
  PROVE  CountInv'
<1> USE DEF SerializerDecrements
<1>1. ObserveTypeOK /\ Shape /\ Counted BY DEF CountInv
<1>2. /\ MainSide \in Nat /\ WorkSide \in Nat /\ active \in Int
      /\ Cardinality(Reporting) \in Nat /\ Len(completionCh) \in Nat
  BY <1>1, OutstandingTerms DEF Shape, ObserveTypeOK
<1>3. InSerializer = 1 /\ InSerializer' = 0
  BY <1>1 DEF InSerializer, Shape, ObserveTypeOK
<1>4. WorkSide' = WorkSide - 1 /\ WorkSide >= 1
  <2>1. Reporting' = Reporting /\ Len(completionCh') = Len(completionCh)
    BY DEF Reporting
  <2>2. QED BY SMTT(60), <2>1, <1>2, <1>3 DEF WorkSide
<1>5. MainSide' = MainSide /\ active' = active - 1 /\ UNCHANGED <<source, preGen, seen>>
  BY DEF MainSide, mainVars
<1>6. active' \in Int BY <1>2, <1>4, <1>5
<1>7. ObserveTypeOK' BY <1>1, <1>6 DEF ObserveTypeOK, mainVars, sessionVars
<1>8. Shape' BY <1>1 DEF Shape, ObserveTypeOK, mainVars, sessionVars
<1>9. QED BY <1>2, <1>4, <1>5, <1>7, <1>8, CountBalance DEF CountInv

(* The serializer pushes the follow-up. *)
LEMMA SerializerPushesCountInv ==
  ASSUME CountInv, SerializerPushes
  PROVE  CountInv'
<1> USE DEF SerializerPushes
<1>1. ObserveTypeOK /\ Shape BY DEF CountInv
<1>2. /\ followUpCh \in Seq(AllRequests \cup {Wakeup}) /\ Len(followUpCh) < MaxConcurrency
      /\ serializer.item \in AllRequests \cup {Wakeup}
      /\ followUpCh' = Append(followUpCh, serializer.item)
  BY <1>1 DEF ObserveTypeOK
<1>3. /\ followUpCh' \in Seq(AllRequests \cup {Wakeup})
      /\ Len(followUpCh') = Len(followUpCh) + 1 /\ Len(followUpCh) \in Nat
  BY <1>2, AppendExtends
<1>4. ObserveTypeOK'
  <2>1. Len(followUpCh') <= MaxConcurrency BY <1>2, <1>3, ObserveAssumption
  <2>2. serializer' \in [at : {"receive", "decrement", "push", "ended"},
                         item : AllRequests \cup {Wakeup}]
    BY <1>1
  <2>3. UNCHANGED <<mainVars, cancelled, active, workers, records, completionCh,
                    closed, sessionVars>>
    OBVIOUS
  <2> HIDE DEF SerializerPushes
  <2>4. QED BY <1>1, <1>3, <2>1, <2>2, <2>3 DEF ObserveTypeOK, mainVars, sessionVars
<1>5. Shape' BY <1>1 DEF Shape, mainVars, sessionVars
<1>6. OfSession(followUpCh') = OfSession(followUpCh) + Weight(serializer.item)
  BY <1>2, OfSessionAppend
<1>7. /\ OfSession(pending) \in Nat /\ OfSession(followUpCh) \in Nat
      /\ Cardinality(Reporting) \in Nat /\ Len(completionCh) \in Nat
      /\ MainSide \in Nat /\ WorkSide \in Nat /\ active \in Int
      /\ Weight(next) \in Int /\ Weight(serializer.item) \in Int
  BY <1>1, OutstandingTerms DEF Shape, ObserveTypeOK, Weight
<1>8. MainSide' = MainSide + Weight(serializer.item)
  <2>1. Weight(next') = Weight(next) /\ OfSession(pending') = OfSession(pending)
    BY DEF mainVars
  <2>2. QED BY SMTT(60), <1>6, <1>7, <2>1 DEF MainSide
<1>9. WorkSide' = WorkSide - Weight(serializer.item)
  <2>1. InSerializer = Weight(serializer.item) /\ InSerializer' = 0
    BY <1>1 DEF InSerializer, Weight, Counts, Shape
  <2>2. Reporting' = Reporting /\ Len(completionCh') = Len(completionCh)
    BY DEF Reporting
  <2>3. QED BY SMTT(60), <1>7, <2>1, <2>2 DEF WorkSide
<1>10. active' - active = (MainSide' - MainSide) + (WorkSide' - WorkSide)
  <2>1. active' - active = 0 BY <1>7
  <2>2. MainSide' - MainSide = Weight(serializer.item) BY SMTT(60), <1>7, <1>8
  <2>3. WorkSide' - WorkSide = - Weight(serializer.item) BY SMTT(60), <1>7, <1>9
  <2>4. QED BY <2>1, <2>2, <2>3, <1>7
<1>11. UNCHANGED <<source, preGen, seen>> BY DEF mainVars
<1>12. QED BY <1>4, <1>5, <1>10, <1>11, CountBalance DEF CountInv

(* The serializer finds the channel closed. *)
LEMMA SerializerEndsCountInv ==
  ASSUME CountInv, SerializerEnds
  PROVE  CountInv'
<1> USE DEF SerializerEnds
<1>1. ObserveTypeOK /\ Shape BY DEF CountInv
<1>2. ObserveTypeOK' BY <1>1 DEF ObserveTypeOK, mainVars, sessionVars
<1>3. Shape' BY <1>1 DEF Shape, ObserveTypeOK, mainVars, sessionVars
<1>4. MainSide' = MainSide /\ WorkSide' = WorkSide /\ active' = active
      /\ UNCHANGED <<source, preGen, seen>>
  BY <1>1 DEF MainSide, WorkSide, Reporting, InSerializer, mainVars, Shape, ObserveTypeOK
<1>5. MainSide \in Nat /\ WorkSide \in Nat /\ active \in Int
  BY <1>1, OutstandingTerms DEF Shape, ObserveTypeOK
<1>6. QED BY <1>2, <1>3, <1>4, <1>5, CountBalance DEF CountInv

(* Every step of every goroutine keeps the count. *)
LEMMA NextCountInv == CountInv /\ [ObserveNext]_observeVars => CountInv'
<1> SUFFICES ASSUME CountInv, [ObserveNext]_observeVars PROVE CountInv' OBVIOUS
<1>1. CASE Main
  BY <1>1, MainMovesCountInv, DrainFollowUpCountInv, TakePreGenCountInv, TakeFollowUpCountInv,
     DispatchCountInv DEF Main
<1>2. CASE Serializer
  BY <1>2, SerializerReceivesCountInv, SerializerDecrementsCountInv, SerializerPushesCountInv,
     SerializerEndsCountInv DEF Serializer
<1>3. ASSUME NEW w \in workers, Worker(w)
      PROVE  CountInv'
  BY <1>3, SendCountInv, ReportCompletionCountInv, ReleaseCountInv DEF Worker
<1>4. CASE Interrupt \/ UNCHANGED observeVars BY <1>4, MainMovesCountInv
<1>5. QED BY <1>1, <1>2, <1>3, <1>4 DEF ObserveNext

(* CountInv holds in every reachable state. *)
LEMMA AlwaysCountInv == ObserveSpec => []CountInv
<1>1. QED BY InitCountInv, NextCountInv, PTL DEF ObserveSpec

(* At every interleaving of the goroutines activeSessionCount              *)
(* (cmd/observe_cmd.go) is at most what is outstanding, and is that number *)
(* while no session has sent a second request of the source; no channel    *)
(* exceeds its capacity, and nobody sends on completionCh once the main    *)
(* loop has closed it.                                                     *)
THEOREM ObserveChannelsSound == ObserveSpec => []ChannelsSound
<1>1. CountInv => ChannelsSound
  BY CountedBounds DEF CountInv, ChannelsSound, Shape, NoSendOnClosed
<1>2. QED BY <1>1, AlwaysCountInv, PTL

------------------------------
(* Requests in lists and channels. *)

(* The head leaves the list, and no other place of the list holds it. *)
LEMMA TailRange ==
  ASSUME NEW S, NEW q \in Seq(S), q # <<>>
  PROVE  /\ Range(q) = {Head(q)} \cup Range(Tail(q))
         /\ DistinctRequests(q) => /\ DistinctRequests(Tail(q))
                                   /\ Head(q) # Wakeup => Head(q) \notin Range(Tail(q))
<1>1. /\ Len(q) \in Nat \ {0} /\ DOMAIN q = 1 .. Len(q) /\ Head(q) = q[1]
      /\ DOMAIN Tail(q) = 1 .. Len(q) - 1
      /\ \A i \in 1 .. Len(q) - 1 : Tail(q)[i] = q[i + 1]
  BY TailShifts
<1>2. ASSUME NEW x \in Range(q)
      PROVE  x \in {Head(q)} \cup Range(Tail(q))
  <2>1. PICK i \in 1 .. Len(q) : x = q[i] BY <1>1, <1>2 DEF Range
  <2>2. CASE i = 1 BY <2>1, <2>2, <1>1
  <2>3. CASE i # 1
    <3>1. i - 1 \in 1 .. Len(q) - 1 /\ Tail(q)[i - 1] = x BY <2>1, <2>3, <1>1
    <3>2. QED BY <3>1, <1>1 DEF Range
  <2>4. QED BY <2>2, <2>3
<1>3. ASSUME NEW x \in Range(Tail(q))
      PROVE  \E i \in 2 .. Len(q) : x = q[i]
  <2>1. PICK i \in 1 .. Len(q) - 1 : x = Tail(q)[i] BY <1>1, <1>3 DEF Range
  <2>2. i + 1 \in 2 .. Len(q) /\ x = q[i + 1] BY <2>1, <1>1
  <2>3. QED BY <2>2
<1>4. Range(q) = {Head(q)} \cup Range(Tail(q))
  <2>1. Head(q) \in Range(q) BY <1>1 DEF Range
  <2>2. Range(Tail(q)) \subseteq Range(q) BY <1>1, <1>3 DEF Range
  <2>3. QED BY <2>1, <2>2, <1>2
<1>5. ASSUME DistinctRequests(q)
      PROVE  DistinctRequests(Tail(q)) /\ (Head(q) # Wakeup => Head(q) \notin Range(Tail(q)))
  <2>1. DistinctRequests(Tail(q)) BY <1>1, <1>5 DEF DistinctRequests
  <2>2. Head(q) # Wakeup => Head(q) \notin Range(Tail(q))
    BY <1>1, <1>3, <1>5 DEF DistinctRequests
  <2>3. QED BY <2>1, <2>2
<1>6. QED BY <1>4, <1>5

(* A request goes to the end of a list that does not hold it. *)
LEMMA AppendRange ==
  ASSUME NEW S, NEW q \in Seq(S), NEW x \in S
  PROVE  /\ Range(Append(q, x)) = Range(q) \cup {x}
         /\ DistinctRequests(q) /\ (x \notin Range(q) \/ x = Wakeup) =>
              DistinctRequests(Append(q, x))
<1>1. /\ Len(q) \in Nat /\ DOMAIN q = 1 .. Len(q)
      /\ DOMAIN Append(q, x) = 1 .. Len(q) + 1
      /\ \A i \in 1 .. Len(q) : Append(q, x)[i] = q[i]
      /\ Append(q, x)[Len(q) + 1] = x
  BY AppendExtends
<1>2. \A i \in 1 .. Len(q) + 1 : i \in 1 .. Len(q) \/ i = Len(q) + 1 BY <1>1
<1>3. Range(Append(q, x)) = Range(q) \cup {x}
  <2>1. Range(Append(q, x)) \subseteq Range(q) \cup {x} BY <1>1, <1>2 DEF Range
  <2>2. Range(q) \subseteq Range(Append(q, x))
    <3>1. 1 .. Len(q) \subseteq 1 .. Len(q) + 1 BY <1>1
    <3>2. QED BY <1>1, <3>1 DEF Range
  <2>3. x \in Range(Append(q, x))
    <3>1. Len(q) + 1 \in 1 .. Len(q) + 1 BY <1>1
    <3>2. QED BY <1>1, <3>1 DEF Range
  <2>4. QED BY <2>1, <2>2, <2>3
<1>4. ASSUME DistinctRequests(q), x \notin Range(q) \/ x = Wakeup
      PROVE  DistinctRequests(Append(q, x))
  <2>1. \A i \in 1 .. Len(q) : q[i] # x \/ x = Wakeup BY <1>1, <1>4 DEF Range
  <2>2. QED BY <1>1, <1>2, <1>4, <2>1 DEF DistinctRequests
<1>5. QED BY <1>3, <1>4

------------------------------
(* Requests are at one place and sessions are covered. *)
PlaceInv == OnceInv /\ SessionInv

(* If no request is new and no session and no completion either, what is   *)
(* sent next stays fresh.                                                  *)
LEMMA FreshKept ==
  ASSUME Fresh, Everywhere' \subseteq Everywhere, UNCHANGED <<round, alive, pool>>,
         Range(completionCh)' \subseteq Range(completionCh)
  PROVE  Fresh'
BY DEF Fresh

(* If no session's request is lost, the active sessions stay covered. *)
LEMMA CoveredKept ==
  ASSUME ObserveTypeOK, Covered, alive' \subseteq alive, UNCHANGED pool,
         \A r \in Range(preGen) \cup Carried :
           r.session \in Sessions => r \in (Range(preGen) \cup Carried)'
  PROVE  Covered'
<1>1. ASSUME NEW s \in alive', s \notin Range(pool)'
      PROVE  \E r \in (Range(preGen) \cup Carried)' : r.session = s
  <2>1. s \in alive /\ s \in Sessions /\ s \notin Range(pool) BY <1>1 DEF ObserveTypeOK
  <2>2. PICK r \in Range(preGen) \cup Carried : r.session = s
    BY <2>1 DEF Covered
  <2>3. QED BY <2>1, <2>2
<1>2. QED BY <1>1 DEF Covered

(* Nothing is anywhere at the start. *)
LEMMA InitPlaceInv == ObserveInit => PlaceInv
<1> SUFFICES ASSUME ObserveInit PROVE PlaceInv OBVIOUS
<1>1. PICK w \in ObservedWorkloads : ObserveWorkload(w) BY DEF ObserveInit
<1>2. /\ preGen \in Seq(AllRequests) /\ IsInjective(preGen)
      /\ pool \in Seq(Sessions) /\ IsInjective(pool) /\ alive \subseteq Sessions
      /\ \A r \in Range(preGen) :
           (r.session \in alive => r.round = 0) /\ r.session \notin Range(pool)
      /\ \A s \in alive : s \in Range(pool) \/ \E r \in Range(preGen) : r.session = s
      /\ pool # <<>> => preGen # <<>> /\ \A r \in Range(preGen) : r.session \in alive
  BY <1>1, ObserveAssumption DEF ObserveWorkload, WellFormed
<1>3. /\ pending = <<>> /\ followUpCh = <<>> /\ completionCh = <<>> /\ workers = {} /\ records = {}
      /\ next = NoRequest /\ serializer.item = Wakeup /\ serializer.at = "receive"
      /\ index = 0 /\ active = 0 /\ pc = "loop" /\ seen = {}
      /\ round = [s \in Sessions |-> 0]
  BY <1>1 DEF ObserveInit, ObserveWorkload
<1>4. /\ Range(pending) = {} /\ InHand = {} /\ Queued = {} /\ Pushing = {} /\ Dispatched = {}
      /\ Range(completionCh) = {}
  BY <1>3 DEF Range, InHand, Queued, Pushing, Dispatched
<1>5. OnePlace
  <2>1. DistinctRequests(preGen) BY <1>2 DEF DistinctRequests, IsInjective
  <2>2. DistinctRequests(pending) /\ DistinctRequests(followUpCh)
    BY <1>3 DEF DistinctRequests
  <2>3. QED BY <1>4, <2>1, <2>2 DEF OnePlace
<1>6. Fresh
  <2>1. Everywhere = Range(preGen) BY <1>4 DEF Everywhere
  <2>2. \A s \in alive : round[s] = 0 BY <1>2, <1>3
  <2>3. QED BY <2>1, <2>2, <1>2, <1>4 DEF Fresh
<1>7. RecordedOnce BY <1>3, ObserveAssumption DEF RecordedOnce
<1>8. Covered BY <1>2 DEF Covered
<1>9. PoolFeeds
  <2>1. NoSession \notin alive BY <1>2, ObserveAssumption
  <2>2. preGen # <<>> => preGen[1] \in Range(preGen) BY <1>2 DEF Range
  <2>3. QED BY <2>1, <2>2, <1>2, <1>3 DEF PoolFeeds
<1>10. Drained BY <1>3 DEF Drained
<1>11. QED BY <1>5, <1>6, <1>7, <1>8, <1>9, <1>10 DEF PlaceInv, OnceInv, SessionInv

(* With no session outstanding the loop may end, and otherwise waits. *)
LEMMA MainMovesPlaceInv ==
  ASSUME CountInv, PlaceInv,
         DrainedAll \/ DecideIdle \/ Pace \/ StopOnCancel \/ CloseChannel \/ Return
           \/ Interrupt \/ UNCHANGED observeVars
  PROVE  PlaceInv'
<1>1. /\ UNCHANGED <<seen, preGen, pending, next, index, active, workers, records, completionCh,
                     followUpCh, serializer, round, alive, pool>>
      /\ cancelled => cancelled'
  BY DEF DrainedAll, DecideIdle, Pace, StopOnCancel, CloseChannel, Return, Interrupt,
         observeVars, mainVars, sessionVars
<1>2. /\ InHand' = InHand /\ Queued' = Queued /\ Pushing' = Pushing /\ Dispatched' = Dispatched
      /\ Everywhere' = Everywhere /\ Carried' = Carried
  BY <1>1 DEF InHand, Queued, Pushing, Dispatched, Everywhere, Carried, Reporting
<1>3. OnceInv'
  BY <1>1, <1>2 DEF PlaceInv, OnceInv, OnePlace, Fresh, RecordedOnce, DistinctRequests
<1>4. Covered' /\ PoolFeeds'
  BY <1>1, <1>2 DEF PlaceInv, SessionInv, Covered, PoolFeeds
<1>5. Drained'
  <2>1. CASE pc' \in {"waitGroup", "join", "done"} /\ ~cancelled'
    <3>1. pc \in {"waitGroup", "join", "done"} \/ DecideIdle
      BY <1>1, <2>1 DEF DrainedAll, DecideIdle, Pace, StopOnCancel, CloseChannel, Return,
                        Interrupt, observeVars, mainVars
    <3>2. CASE pc \in {"waitGroup", "join", "done"}
      BY <3>2, <1>1, <2>1 DEF PlaceInv, SessionInv, Drained
    <3>3. CASE DecideIdle
      <4>1. preGen = <<>> /\ pending = <<>> /\ ~(active > 0) /\ next = NoRequest
        BY <2>1, <3>3 DEF DecideIdle, CountInv, Shape
      <4>2. active <= 0 BY <4>1 DEF CountInv, ObserveTypeOK
      <4>3. QED BY <4>1, <4>2, <1>1 DEF Drained
    <3>4. QED BY <3>1, <3>2, <3>3
  <2>2. QED BY <2>1 DEF Drained
<1>6. QED BY <1>3, <1>4, <1>5 DEF PlaceInv, SessionInv

(* A follow-up is drained from the channel to the list. *)
LEMMA DrainFollowUpPlaceInv ==
  ASSUME CountInv, PlaceInv, DrainFollowUp
  PROVE  PlaceInv'
<1> DEFINE h == Head(followUpCh)
           H == {h} \ {Wakeup}
<1>1. /\ followUpCh # <<>> /\ followUpCh' = Tail(followUpCh)
      /\ pending' = IF h = Wakeup THEN pending ELSE Append(pending, h)
      /\ pc = "loop" /\ pc' = pc
      /\ UNCHANGED <<seen, preGen, next, index, cancelled, active, workers, records,
                     completionCh, serializer, round, alive, pool>>
  BY DEF DrainFollowUp, sessionVars
<1>2. /\ followUpCh \in Seq(AllRequests \cup {Wakeup}) /\ pending \in Seq(AllRequests)
      /\ h \in AllRequests \cup {Wakeup}
  BY <1>1, TailShifts DEF CountInv, ObserveTypeOK
<1>3. OnePlace /\ Fresh /\ RecordedOnce /\ Covered /\ PoolFeeds /\ Drained
  BY DEF PlaceInv, OnceInv, SessionInv
<1>4. /\ Range(followUpCh) = {h} \cup Range(followUpCh')
      /\ DistinctRequests(followUpCh') /\ (h # Wakeup => h \notin Range(followUpCh'))
  BY <1>1, <1>2, <1>3, TailRange DEF OnePlace
<1>5. Queued = Queued' \cup H /\ H \cap Queued' = {} BY <1>4 DEF Queued
<1>6. h # Wakeup => h \in Queued /\ h \notin Range(pending)
  BY <1>3, <1>5 DEF OnePlace
<1>7. Range(pending') = Range(pending) \cup H /\ DistinctRequests(pending')
  <2>1. CASE h = Wakeup BY <2>1, <1>1, <1>3 DEF OnePlace
  <2>2. CASE h # Wakeup
    <3>1. h \in AllRequests /\ pending' = Append(pending, h)
      BY <2>2, <1>1, <1>2
    <3>2. QED BY <2>2, <3>1, <1>2, <1>3, <1>6, AppendRange DEF OnePlace
  <2>3. QED BY <2>1, <2>2
<1>8. /\ Range(preGen)' = Range(preGen) /\ InHand' = InHand /\ Pushing' = Pushing
      /\ Dispatched' = Dispatched /\ DistinctRequests(preGen)' = DistinctRequests(preGen)
      /\ Range(completionCh)' = Range(completionCh) /\ Reporting' = Reporting
  BY <1>1 DEF InHand, Pushing, Dispatched, DistinctRequests, Reporting
<1> HIDE DEF h, H
<1>9. OnePlace' BY <1>3, <1>4, <1>5, <1>7, <1>8 DEF OnePlace
<1>10. Fresh'
  <2>1. Everywhere' \subseteq Everywhere BY <1>5, <1>7, <1>8 DEF Everywhere
  <2>2. QED BY <2>1, <1>1, <1>3, <1>8, FreshKept
<1>11. RecordedOnce' BY <1>1, <1>3 DEF RecordedOnce
<1>12. Covered'
  <2>1. Carried' = Carried BY <1>5, <1>7, <1>8 DEF Carried
  <2>2. QED BY <2>1, <1>1, <1>3, <1>8, CoveredKept DEF CountInv
<1>13. PoolFeeds' /\ Drained' BY <1>1, <1>3 DEF PoolFeeds, Drained
<1>14. QED BY <1>9, <1>10, <1>11, <1>12, <1>13 DEF PlaceInv, OnceInv, SessionInv

(* The next request of the source is taken in hand. *)
LEMMA TakePreGenPlaceInv ==
  ASSUME CountInv, PlaceInv, TakePreGen
  PROVE  PlaceInv'
<1> DEFINE h == Head(preGen)
<1>1. /\ preGen # <<>> /\ preGen' = Tail(preGen) /\ next' = h
      /\ pc = "choose" /\ pc' = "pace" /\ next = NoRequest
      /\ IF h.session = NoSession \/ h.session \in seen
         THEN UNCHANGED <<seen, active>>
         ELSE active' = active + 1
      /\ UNCHANGED <<pending, index, cancelled, workers, records,
                     completionCh, followUpCh, serializer, round, alive, pool>>
  BY DEF TakePreGen, CountSession, sessionVars, CountInv, Shape
<1>2. preGen \in Seq(AllRequests) /\ h \in AllRequests /\ h # Wakeup /\ active \in Int
  BY <1>1, TailShifts, RequestType DEF CountInv, ObserveTypeOK
<1>3. OnePlace /\ Fresh /\ RecordedOnce /\ Covered /\ PoolFeeds /\ Drained
  BY DEF PlaceInv, OnceInv, SessionInv
<1>4. /\ Range(preGen) = {h} \cup Range(preGen') /\ DistinctRequests(preGen')
      /\ h \notin Range(preGen')
  BY <1>1, <1>2, <1>3, TailRange DEF OnePlace
<1>5. InHand = {} /\ InHand' = {h} BY <1>1, <1>2 DEF InHand, Wakeup
<1>6. /\ Range(pending)' = Range(pending) /\ Queued' = Queued /\ Pushing' = Pushing
      /\ Dispatched' = Dispatched /\ DistinctRequests(pending)' = DistinctRequests(pending)
      /\ DistinctRequests(followUpCh)' = DistinctRequests(followUpCh)
      /\ Range(completionCh)' = Range(completionCh) /\ Reporting' = Reporting
  BY <1>1 DEF Queued, Pushing, Dispatched, DistinctRequests, Reporting
<1> HIDE DEF h
<1>7. OnePlace' BY <1>3, <1>4, <1>5, <1>6 DEF OnePlace
<1>8. Fresh'
  <2>1. Everywhere' \subseteq Everywhere BY <1>4, <1>5, <1>6 DEF Everywhere
  <2>2. QED BY <2>1, <1>1, <1>3, <1>6, FreshKept
<1>9. RecordedOnce' BY <1>1, <1>3 DEF RecordedOnce
<1>10. Covered'
  <2>1. Range(preGen) \cup Carried \subseteq (Range(preGen) \cup Carried)'
    BY <1>4, <1>5, <1>6 DEF Carried
  <2>2. QED BY <2>1, <1>1, <1>3, CoveredKept DEF CountInv
<1>11. PoolFeeds' BY <1>1, <1>2, <1>3, <1>4 DEF PoolFeeds
<1>12. Drained' BY <1>1 DEF Drained
<1>13. QED BY <1>7, <1>8, <1>9, <1>10, <1>11, <1>12 DEF PlaceInv, OnceInv, SessionInv

(* A follow-up of the list is taken in hand. *)
LEMMA TakeFollowUpPlaceInv ==
  ASSUME CountInv, PlaceInv, TakeFollowUp
  PROVE  PlaceInv'
<1> DEFINE h == Head(pending)
<1>1. /\ pending # <<>> /\ pending' = Tail(pending) /\ next' = h
      /\ pc = "choose" /\ pc' = "pace" /\ next = NoRequest
      /\ UNCHANGED <<seen, preGen, index, cancelled, active, workers, records,
                     completionCh, followUpCh, serializer, round, alive, pool>>
  BY DEF TakeFollowUp, sessionVars, CountInv, Shape
<1>2. pending \in Seq(AllRequests) /\ h \in AllRequests /\ h # Wakeup
  BY <1>1, TailShifts, RequestType DEF CountInv, ObserveTypeOK
<1>3. OnePlace /\ Fresh /\ RecordedOnce /\ Covered /\ PoolFeeds /\ Drained
  BY DEF PlaceInv, OnceInv, SessionInv
<1>4. /\ Range(pending) = {h} \cup Range(pending') /\ DistinctRequests(pending')
      /\ h \notin Range(pending')
  BY <1>1, <1>2, <1>3, TailRange DEF OnePlace
<1>5. InHand = {} /\ InHand' = {h} BY <1>1, <1>2 DEF InHand, Wakeup
<1>6. /\ Range(preGen)' = Range(preGen) /\ Queued' = Queued /\ Pushing' = Pushing
      /\ Dispatched' = Dispatched /\ DistinctRequests(preGen)' = DistinctRequests(preGen)
      /\ DistinctRequests(followUpCh)' = DistinctRequests(followUpCh)
      /\ Range(completionCh)' = Range(completionCh) /\ Reporting' = Reporting
  BY <1>1 DEF Queued, Pushing, Dispatched, DistinctRequests, Reporting
<1> HIDE DEF h
<1>7. OnePlace' BY <1>3, <1>4, <1>5, <1>6 DEF OnePlace
<1>8. Fresh'
  <2>1. Everywhere' \subseteq Everywhere BY <1>4, <1>5, <1>6 DEF Everywhere
  <2>2. QED BY <2>1, <1>1, <1>3, <1>6, FreshKept
<1>9. RecordedOnce' BY <1>1, <1>3 DEF RecordedOnce
<1>10. Covered'
  <2>1. Range(preGen) \cup Carried \subseteq (Range(preGen) \cup Carried)'
    BY <1>4, <1>5, <1>6 DEF Carried
  <2>2. QED BY <2>1, <1>1, <1>3, CoveredKept DEF CountInv
<1>11. PoolFeeds' /\ Drained' BY <1>1, <1>3 DEF PoolFeeds, Drained
<1>12. QED BY <1>7, <1>8, <1>9, <1>10, <1>11 DEF PlaceInv, OnceInv, SessionInv

(* The main loop waits at the channel and receives. *)
LEMMA ReceiveFollowUpPlaceInv ==
  ASSUME CountInv, PlaceInv, ReceiveFollowUp
  PROVE  PlaceInv'
<1> DEFINE h == Head(followUpCh)
           H == {h} \ {Wakeup}
<1>1. /\ followUpCh # <<>> /\ followUpCh' = Tail(followUpCh) /\ next' = h
      /\ pc = "wait" /\ pc' \in {"loop", "pace"} /\ next = NoRequest
      /\ UNCHANGED <<seen, preGen, pending, index, cancelled, active, workers, records,
                     completionCh, serializer, round, alive, pool>>
  BY DEF ReceiveFollowUp, sessionVars, CountInv, Shape
<1>2. followUpCh \in Seq(AllRequests \cup {Wakeup}) BY DEF CountInv, ObserveTypeOK
<1>3. OnePlace /\ Fresh /\ RecordedOnce /\ Covered /\ PoolFeeds /\ Drained
  BY DEF PlaceInv, OnceInv, SessionInv
<1>4. /\ Range(followUpCh) = {h} \cup Range(followUpCh')
      /\ DistinctRequests(followUpCh') /\ (h # Wakeup => h \notin Range(followUpCh'))
  BY <1>1, <1>2, <1>3, TailRange DEF OnePlace
<1>5. Queued = Queued' \cup H /\ H \cap Queued' = {} /\ InHand = {} /\ InHand' = H
  BY <1>1, <1>4 DEF Queued, InHand, Wakeup
<1>6. /\ Range(preGen)' = Range(preGen) /\ Range(pending)' = Range(pending) /\ Pushing' = Pushing
      /\ Dispatched' = Dispatched /\ DistinctRequests(preGen)' = DistinctRequests(preGen)
      /\ DistinctRequests(pending)' = DistinctRequests(pending)
      /\ Range(completionCh)' = Range(completionCh) /\ Reporting' = Reporting
  BY <1>1 DEF Pushing, Dispatched, DistinctRequests, Reporting
<1> HIDE DEF h, H
<1>7. OnePlace' BY <1>3, <1>4, <1>5, <1>6 DEF OnePlace
<1>8. Fresh'
  <2>1. Everywhere' \subseteq Everywhere BY <1>5, <1>6 DEF Everywhere
  <2>2. QED BY <2>1, <1>1, <1>3, <1>6, FreshKept
<1>9. RecordedOnce' BY <1>1, <1>3 DEF RecordedOnce
<1>10. Covered'
  <2>1. Carried' = Carried BY <1>5, <1>6 DEF Carried
  <2>2. QED BY <2>1, <1>1, <1>3, <1>6, CoveredKept DEF CountInv
<1>11. PoolFeeds' /\ Drained' BY <1>1, <1>3 DEF PoolFeeds, Drained
<1>12. QED BY <1>7, <1>8, <1>9, <1>10, <1>11 DEF PlaceInv, OnceInv, SessionInv

(* The request in hand is dispatched under the next index. *)
LEMMA DispatchPlaceInv ==
  ASSUME CountInv, PlaceInv, Dispatch
  PROVE  PlaceInv'
<1> DEFINE w == [req |-> next, index |-> index, at |-> "send"]
<1>1. /\ workers' = workers \cup {w} /\ index' = index + 1 /\ next' = NoRequest
      /\ pc = "acquire" /\ pc' = "loop" /\ next # NoRequest
      /\ UNCHANGED <<seen, preGen, pending, cancelled, active, records,
                     completionCh, followUpCh, serializer, round, alive, pool>>
  BY DEF Dispatch, sessionVars, CountInv, Shape
<1>2. /\ \A v \in workers : v.index \in Nat /\ v.index < index
      /\ index \in Nat /\ WarmupCount \in Nat
  BY ObserveAssumption DEF CountInv, ObserveTypeOK, Shape
<1>3. OnePlace /\ Fresh /\ RecordedOnce /\ Covered /\ PoolFeeds /\ Drained
  BY DEF PlaceInv, OnceInv, SessionInv
<1>4. InHand = {next} /\ InHand' = {} /\ Dispatched' = Dispatched \cup {next}
  <2>1. w.req = next OBVIOUS
  <2> HIDE DEF w
  <2>2. {v.req : v \in workers'} = {v.req : v \in workers} \cup {next}
    BY <2>1, <1>1
  <2>3. QED BY <2>2, <1>1 DEF InHand, Dispatched
<1>5. /\ Range(preGen)' = Range(preGen) /\ Range(pending)' = Range(pending) /\ Pushing' = Pushing
      /\ Queued' = Queued /\ DistinctRequests(preGen)' = DistinctRequests(preGen)
      /\ DistinctRequests(pending)' = DistinctRequests(pending)
      /\ DistinctRequests(followUpCh)' = DistinctRequests(followUpCh)
      /\ Range(completionCh)' = Range(completionCh)
  BY <1>1 DEF Pushing, Queued, DistinctRequests
<1>6. OnePlace' BY <1>3, <1>4, <1>5 DEF OnePlace
<1>7. Fresh'
  <2>1. Everywhere' \subseteq Everywhere BY <1>4, <1>5 DEF Everywhere
  <2>2. QED BY <2>1, <1>1, <1>3, <1>5, FreshKept
<1>8. RecordedOnce'
  <2>1. next \notin Dispatched BY <1>3, <1>4 DEF OnePlace
  <2>2. /\ \A v \in workers : v.req # next /\ v.index # index
        /\ \A x \in records : x.req # next /\ x.index # index
    <3>1. \A x \in records : x.index \in WarmupCount .. index - 1
      BY <1>3 DEF RecordedOnce
    <3>2. QED BY <2>1, <3>1, <1>2 DEF Dispatched
  <2>3. w.req = next /\ w.index = index /\ w.at = "send" OBVIOUS
  <2> HIDE DEF w
  <2>4. \A u, v \in workers' : u.req = v.req => u = v
    BY <1>1, <1>3, <2>2, <2>3 DEF RecordedOnce
  <2>5. \A u \in workers', x \in records' :
          u.at = "send" => u.req # x.req /\ u.index # x.index
    BY <1>1, <1>3, <2>2, <2>3 DEF RecordedOnce
  <2>6. \A x \in records' : x.index \in WarmupCount .. index' - 1
    BY <1>1, <1>2, <1>3 DEF RecordedOnce
  <2>7. \A i \in WarmupCount .. index' - 1 :
          \/ \E x \in records' : x.index = i
          \/ \E u \in workers' : u.at = "send" /\ u.index = i
    <3>1. \A i \in WarmupCount .. index' - 1 : i = index \/ i \in WarmupCount .. index - 1
      BY <1>1, <1>2
    <3>2. QED BY <3>1, <1>1, <1>3, <2>3 DEF RecordedOnce
  <2>8. \A x, y \in records' : x.req = y.req \/ x.index = y.index => x = y
    BY <1>1, <1>3 DEF RecordedOnce
  <2>9. QED BY <2>4, <2>5, <2>6, <2>7, <2>8 DEF RecordedOnce
<1>9. Covered'
  <2>1. /\ Reporting \subseteq Reporting'
        /\ next.session # NoSession => w \in Reporting' /\ w.req = next
    BY <1>1 DEF Reporting
  <2>2. ASSUME NEW r \in Range(preGen) \cup Carried, r.session \in Sessions
        PROVE  r \in (Range(preGen) \cup Carried)'
    <3>1. r.session # NoSession BY <2>2, RequestType
    <3>2. CASE r = next BY <3>1, <3>2, <2>1 DEF Carried
    <3>3. CASE r # next BY <3>3, <2>1, <2>2, <1>4, <1>5 DEF Carried
    <3>4. QED BY <3>2, <3>3
  <2>3. QED BY <2>2, <1>1, <1>3, CoveredKept DEF CountInv
<1>10. PoolFeeds' /\ Drained' BY <1>1, <1>3 DEF PoolFeeds, Drained
<1>11. QED BY <1>6, <1>7, <1>8, <1>9, <1>10 DEF PlaceInv, OnceInv, SessionInv

(* A goroutine sends its request and records it, past the warm-up. *)
LEMMA SendPlaceInv ==
  ASSUME CountInv, PlaceInv, NEW w \in workers, Send(w)
  PROVE  PlaceInv'
<1>1. PICK status \in {"ok", "error"} :
        workers' = (workers \ {w}) \cup
             {[req |-> w.req, index |-> w.index,
               at |-> IF w.req.session = NoSession THEN "release" ELSE status]}
  BY DEF Send
<1> DEFINE v == [req |-> w.req, index |-> w.index,
                 at |-> IF w.req.session = NoSession THEN "release" ELSE status]
           x == [req |-> w.req, index |-> w.index]
<1>2. /\ workers' = (workers \ {w}) \cup {v} /\ w.at = "send"
      /\ v.req = w.req /\ v.index = w.index /\ v.at # "send"
      /\ w.req.session # NoSession => v.at # "release"
      /\ x.req = w.req /\ x.index = w.index
      /\ records' = IF w.index >= WarmupCount THEN records \cup {x} ELSE records
      /\ UNCHANGED <<seen, preGen, pending, next, pc, index, cancelled, active,
                     completionCh, followUpCh, serializer, round, alive, pool>>
  BY <1>1 DEF Send, RecordOf, mainVars, sessionVars
<1> HIDE DEF v, x
<1>3. OnePlace /\ Fresh /\ RecordedOnce /\ Covered /\ PoolFeeds /\ Drained
  BY DEF PlaceInv, OnceInv, SessionInv
<1>4. w.index < index /\ w.index \in Nat /\ index \in Nat /\ WarmupCount \in Nat
  BY ObserveAssumption DEF CountInv, ObserveTypeOK, Shape
<1>5. Dispatched' \subseteq Dispatched
  <2>1. {u.req : u \in workers'} \subseteq {u.req : u \in workers} BY <1>2
  <2>2. {y.req : y \in records'} \subseteq {y.req : y \in records} \cup {w.req}
    BY <1>2
  <2>3. QED BY <2>1, <2>2 DEF Dispatched
<1>6. /\ Range(preGen)' = Range(preGen) /\ Range(pending)' = Range(pending) /\ Pushing' = Pushing
      /\ Queued' = Queued /\ InHand' = InHand
      /\ DistinctRequests(preGen)' = DistinctRequests(preGen)
      /\ DistinctRequests(pending)' = DistinctRequests(pending)
      /\ DistinctRequests(followUpCh)' = DistinctRequests(followUpCh)
      /\ Range(completionCh)' = Range(completionCh)
  BY <1>2 DEF Pushing, Queued, InHand, DistinctRequests
<1>7. OnePlace' BY <1>3, <1>5, <1>6 DEF OnePlace
<1>8. Fresh'
  <2>1. Everywhere' \subseteq Everywhere BY <1>5, <1>6 DEF Everywhere
  <2>2. QED BY <2>1, <1>2, <1>3, <1>6, FreshKept
<1>9. RecordedOnce'
  <2>1. \A u \in workers \ {w} : u.req # w.req /\ u.index # w.index
    BY <1>3 DEF RecordedOnce, CountInv, Shape
  <2>2. \A y \in records : y.req # w.req /\ y.index # w.index
    BY <1>2, <1>3 DEF RecordedOnce
  <2>3. \A a, b \in workers' : a.req = b.req => a = b
    BY <1>2, <1>3, <2>1 DEF RecordedOnce
  <2>4. \A a, b \in records' : a.req = b.req \/ a.index = b.index => a = b
    BY <1>2, <1>3, <2>2 DEF RecordedOnce
  <2>5. \A u \in workers', y \in records' :
          u.at = "send" => u.req # y.req /\ u.index # y.index
    BY <1>2, <1>3, <2>1 DEF RecordedOnce
  <2>6. \A y \in records' : y.index \in WarmupCount .. index' - 1
    <3>1. w.index >= WarmupCount => w.index \in WarmupCount .. index - 1
      BY <1>4
    <3>2. QED BY <3>1, <1>2, <1>3 DEF RecordedOnce
  <2>7. \A i \in WarmupCount .. index' - 1 :
          \/ \E y \in records' : y.index = i
          \/ \E u \in workers' : u.at = "send" /\ u.index = i
    <3>1. ASSUME NEW i \in WarmupCount .. index - 1
          PROVE  \/ \E y \in records' : y.index = i
                 \/ \E u \in workers' : u.at = "send" /\ u.index = i
      <4>1. CASE i = w.index
        <5>1. x \in records' BY <4>1, <1>2, <1>4
        <5>2. QED BY <4>1, <5>1, <1>2
      <4>2. CASE i # w.index BY <4>2, <1>2, <1>3 DEF RecordedOnce
      <4>3. QED BY <4>1, <4>2
    <3>2. QED BY <3>1, <1>2
  <2>8. QED BY <2>3, <2>4, <2>5, <2>6, <2>7 DEF RecordedOnce
<1>10. Covered'
  <2>1. {u.req : u \in Reporting} \subseteq {u.req : u \in Reporting'}
    <3>1. ASSUME NEW u \in Reporting
          PROVE  \E t \in Reporting' : t.req = u.req
      <4>1. CASE u = w BY <4>1, <1>2 DEF Reporting
      <4>2. CASE u # w BY <4>2, <1>2 DEF Reporting
      <4>3. QED BY <4>1, <4>2
    <3>2. QED BY <3>1
  <2>2. Carried \subseteq Carried' BY <2>1, <1>6 DEF Carried
  <2>3. QED BY <2>2, <1>2, <1>3, <1>6, CoveredKept DEF CountInv
<1>11. PoolFeeds' /\ Drained' BY <1>2, <1>3 DEF PoolFeeds, Drained
<1>12. QED BY <1>7, <1>8, <1>9, <1>10, <1>11 DEF PlaceInv, OnceInv, SessionInv

(* A goroutine reports the completion of its session's request. *)
LEMMA ReportCompletionPlaceInv ==
  ASSUME CountInv, PlaceInv, NEW w \in workers, ReportCompletion(w)
  PROVE  PlaceInv'
<1> DEFINE v == [req |-> w.req, index |-> w.index, at |-> "release"]
           ce == [req |-> w.req, status |-> w.at]
<1>1. /\ workers' = (workers \ {w}) \cup {v} /\ w.at \in {"ok", "error"}
      /\ v.req = w.req /\ v.index = w.index /\ v.at = "release"
      /\ ce.req = w.req /\ completionCh' = Append(completionCh, ce)
      /\ UNCHANGED <<seen, preGen, pending, next, pc, index, cancelled, active, records,
                     followUpCh, serializer, round, alive, pool>>
  BY DEF ReportCompletion, mainVars, sessionVars
<1>2. ce \in Completions /\ completionCh \in Seq(Completions)
  BY <1>1 DEF CountInv, ObserveTypeOK, Completions
<1> HIDE DEF v, ce
<1>3. OnePlace /\ Fresh /\ RecordedOnce /\ Covered /\ PoolFeeds /\ Drained
  BY DEF PlaceInv, OnceInv, SessionInv
<1>4. Range(completionCh') = Range(completionCh) \cup {ce}
  BY <1>1, <1>2, AppendRange
<1>5. Dispatched' = Dispatched
  <2>1. {u.req : u \in workers'} = {u.req : u \in workers}
    <3>1. \A u \in workers' : \E t \in workers : t.req = u.req BY <1>1
    <3>2. \A t \in workers : \E u \in workers' : t.req = u.req BY <1>1
    <3>3. QED BY <3>1, <3>2
  <2>2. QED BY <2>1, <1>1 DEF Dispatched
<1>6. /\ Range(preGen)' = Range(preGen) /\ Range(pending)' = Range(pending) /\ Pushing' = Pushing
      /\ Queued' = Queued /\ InHand' = InHand
      /\ DistinctRequests(preGen)' = DistinctRequests(preGen)
      /\ DistinctRequests(pending)' = DistinctRequests(pending)
      /\ DistinctRequests(followUpCh)' = DistinctRequests(followUpCh)
  BY <1>1 DEF Pushing, Queued, InHand, DistinctRequests
<1>7. OnePlace' BY <1>3, <1>5, <1>6 DEF OnePlace
<1>8. Fresh'
  <2>1. Everywhere' = Everywhere BY <1>5, <1>6 DEF Everywhere
  <2>2. w.req \in Everywhere /\ w.req.session # NoSession
    BY <1>1 DEF Everywhere, Dispatched, CountInv, Shape
  <2>3. \A c \in Range(completionCh') : c.req.session \notin Range(pool)
    BY <2>2, <1>1, <1>3, <1>4 DEF Fresh
  <2>4. QED BY <2>1, <2>3, <1>1, <1>3 DEF Fresh
<1>9. RecordedOnce'
  <2>1. \A u \in workers \ {w} : u.req # w.req BY <1>3 DEF RecordedOnce
  <2>2. \A a, b \in workers' : a.req = b.req => a = b
    BY <1>1, <1>3, <2>1 DEF RecordedOnce
  <2>3. \A u : u \in workers' /\ u.at = "send" <=> u \in workers /\ u.at = "send"
    BY <1>1
  <2>4. QED BY <2>2, <2>3, <1>1, <1>3 DEF RecordedOnce
<1>10. Covered'
  <2>1. {u.req : u \in Reporting} \subseteq {u.req : u \in Reporting'} \cup {w.req}
    BY <1>1 DEF Reporting
  <2>2. w.req \in {c.req : c \in Range(completionCh')} BY <1>1, <1>4
  <2>3. {c.req : c \in Range(completionCh)} \subseteq {c.req : c \in Range(completionCh')}
    BY <1>4
  <2>4. Carried \subseteq Carried' BY <2>1, <2>2, <2>3, <1>6 DEF Carried
  <2>5. QED BY <2>4, <1>1, <1>3, <1>6, CoveredKept DEF CountInv
<1>11. PoolFeeds' /\ Drained' BY <1>1, <1>3 DEF PoolFeeds, Drained
<1>12. QED BY <1>7, <1>8, <1>9, <1>10, <1>11 DEF PlaceInv, OnceInv, SessionInv

(* A goroutine releases its slot and ends. *)
LEMMA ReleasePlaceInv ==
  ASSUME CountInv, PlaceInv, NEW w \in workers, Release(w)
  PROVE  PlaceInv'
<1>1. /\ workers' = workers \ {w} /\ w.at = "release"
      /\ UNCHANGED <<seen, preGen, pending, next, pc, index, cancelled, active, records, completionCh,
                     followUpCh, serializer, round, alive, pool>>
  BY DEF Release, mainVars, sessionVars
<1>2. OnePlace /\ Fresh /\ RecordedOnce /\ Covered /\ PoolFeeds /\ Drained
  BY DEF PlaceInv, OnceInv, SessionInv
<1>3. Dispatched' \subseteq Dispatched /\ Reporting' = Reporting
  BY <1>1 DEF Dispatched, Reporting
<1>4. /\ Range(preGen)' = Range(preGen) /\ Range(pending)' = Range(pending) /\ Pushing' = Pushing
      /\ Queued' = Queued /\ InHand' = InHand
      /\ DistinctRequests(preGen)' = DistinctRequests(preGen)
      /\ DistinctRequests(pending)' = DistinctRequests(pending)
      /\ DistinctRequests(followUpCh)' = DistinctRequests(followUpCh)
      /\ Range(completionCh)' = Range(completionCh)
  BY <1>1 DEF Pushing, Queued, InHand, DistinctRequests
<1>5. OnePlace' BY <1>2, <1>3, <1>4 DEF OnePlace
<1>6. Fresh'
  <2>1. Everywhere' \subseteq Everywhere BY <1>3, <1>4 DEF Everywhere
  <2>2. QED BY <2>1, <1>1, <1>2, <1>4, FreshKept
<1>7. RecordedOnce'
  <2>1. \A u : u \in workers' /\ u.at = "send" <=> u \in workers /\ u.at = "send"
    BY <1>1
  <2>2. QED BY <2>1, <1>1, <1>2 DEF RecordedOnce
<1>8. Covered'
  <2>1. Carried' = Carried BY <1>3, <1>4 DEF Carried
  <2>2. QED BY <2>1, <1>1, <1>2, <1>4, CoveredKept DEF CountInv
<1>9. PoolFeeds' /\ Drained' BY <1>1, <1>2 DEF PoolFeeds, Drained
<1>10. QED BY <1>5, <1>6, <1>7, <1>8, <1>9 DEF PlaceInv, OnceInv, SessionInv

(* The pool driver takes the sessions of the pool in order. *)
LEMMA TailInjective ==
  ASSUME NEW S, NEW q \in Seq(S), q # <<>>, IsInjective(q)
  PROVE  IsInjective(Tail(q)) /\ Head(q) \notin Range(Tail(q)) /\ Head(q) \in Range(q)
<1>1. /\ Len(q) \in Nat \ {0} /\ DOMAIN q = 1 .. Len(q) /\ Head(q) = q[1]
      /\ DOMAIN Tail(q) = 1 .. Len(q) - 1
      /\ \A i \in 1 .. Len(q) - 1 : Tail(q)[i] = q[i + 1]
  BY TailShifts
<1>2. IsInjective(Tail(q)) BY <1>1 DEF IsInjective
<1>3. Head(q) \notin Range(Tail(q)) BY <1>1 DEF IsInjective, Range
<1>4. Head(q) \in Range(q) BY <1>1 DEF Range
<1>5. QED BY <1>2, <1>3, <1>4

(* What the handler answers has never been seen, and a session that goes   *)
(* on or is admitted is covered by it.                                     *)
LEMMA AnswerIsFresh ==
  ASSUME CountInv, PlaceInv, SerializerReceives,
         NEW ce, ce = Head(completionCh)
  PROVE  /\ Pushing' \cap Everywhere = {}
         /\ pool' # <<>> => pool # <<>>
         /\ Range(pool') \subseteq Range(pool) /\ IsInjective(pool')
         /\ \A r \in Everywhere \cup Pushing' :
              /\ r.session \in alive' => r.round <= round'[r.session]
              /\ r.session \notin Range(pool')
         /\ \A s \in alive' :
              s \in Range(pool) \/ s = ce.req.session =>
                s \in Range(pool') \/ \E r \in Pushing' : r.session = s
         /\ alive' \subseteq alive
         /\ serializer'.at = "decrement" => pool' = <<>>
<1>1. OnePlace /\ Fresh /\ Covered /\ PoolFeeds
  BY DEF PlaceInv, OnceInv, SessionInv
<1>2. /\ ce.req.session \in Sessions /\ ce.req.session # NoSession
      /\ ce \in Range(completionCh)
  BY HeadCompletion DEF SerializerReceives, CountInv, Range
<1>3. /\ round \in [Sessions -> 0 .. MaxRounds - 1] /\ MaxRounds \in Nat \ {0}
      /\ pool \in Seq(Sessions) /\ alive \subseteq Sessions
  BY ObserveAssumption DEF CountInv, ObserveTypeOK
<1>4. \A r \in Everywhere :
         /\ r.round \in Nat /\ r.session \notin Range(pool)
         /\ r.session \in alive => r.round <= round[r.session]
  <2>1. Everywhere \subseteq AllRequests
    <3>1. Range(preGen) \subseteq AllRequests /\ Range(pending) \subseteq AllRequests
      BY DEF CountInv, ObserveTypeOK, Range
    <3>2. InHand \subseteq AllRequests /\ Pushing \subseteq AllRequests
      BY DEF CountInv, ObserveTypeOK, InHand, Pushing
    <3>3. Queued \subseteq AllRequests BY DEF CountInv, ObserveTypeOK, Range, Queued
    <3>4. Dispatched \subseteq AllRequests BY DEF CountInv, ObserveTypeOK, Dispatched
    <3>5. QED BY <3>1, <3>2, <3>3, <3>4 DEF Everywhere
  <2>2. QED BY <2>1, <1>1, RequestType DEF Fresh
<1>5. CASE GoesOn(ce)
  <2> DEFINE s == ce.req.session
             item == Request(s, round[s] + 1)
  <2>1. /\ round[s] \in 0 .. MaxRounds - 1 /\ round[s] + 1 \in 0 .. MaxRounds - 1
        /\ s \in Sessions /\ s # NoSession
    BY <1>2, <1>3, <1>5 DEF GoesOn
  <2>2. item.session = s /\ item.round = round[s] + 1 /\ item \in AllRequests /\ item # Wakeup
    BY <2>1, RequestType
  <2>3. /\ serializer' = [at |-> "push", item |-> item] /\ UNCHANGED <<alive, pool>>
        /\ round' = [round EXCEPT ![s] = @ + 1]
    BY <1>5 DEF GoesOn
  <2> HIDE DEF item, s
  <2>4. Pushing' = {item} BY <2>2, <2>3 DEF Pushing, Wakeup
  <2>5. \A t \in Sessions : round'[t] \in Nat /\ round[t] <= round'[t]
    BY <1>3, <2>1, <2>3
  <2>6. round'[s] = round[s] + 1 BY <1>3, <2>1, <2>3
  <2>6a. s \in alive BY <1>5 DEF GoesOn, s
  <2>7. item \notin Everywhere BY <1>4, <2>1, <2>2, <2>6a
  <2>8. s \notin Range(pool) BY <1>1, <1>2 DEF Fresh, s
  <2>9. ASSUME NEW r \in Everywhere \cup {item}
        PROVE  /\ r.session \in alive => r.round <= round'[r.session]
               /\ r.session \notin Range(pool)
    <3>1. CASE r = item BY <3>1, <2>1, <2>2, <2>6, <2>8
    <3>2. CASE r \in Everywhere BY <3>2, <1>3, <1>4, <2>5
    <3>3. QED BY <2>9, <3>1, <3>2
  <2>10. s = ce.req.session BY DEF s
  <2>11. IsInjective(pool) BY <1>1 DEF Fresh
  <2>12. serializer'.at # "decrement" BY <2>3
  <2>13. QED BY <2>2, <2>3, <2>4, <2>7, <2>9, <2>10, <2>11, <2>12
<1>6. CASE Ends(ce) /\ pool = <<>>
  <2>1. /\ serializer' = [at |-> "decrement", item |-> Wakeup] /\ pool' = pool /\ round' = round
        /\ alive' = alive \ {ce.req.session}
    BY <1>6 DEF Ends
  <2>2. Pushing' = {} BY <2>1 DEF Pushing, Wakeup
  <2>3. IsInjective(pool) BY <1>1 DEF Fresh
  <2>4. QED BY <2>1, <2>2, <2>3, <1>4, <1>6
<1>7. CASE Ends(ce) /\ pool # <<>>
  <2> DEFINE item == Request(Head(pool), 0)
  <2>1. /\ serializer' = [at |-> "push", item |-> item] /\ pool' = Tail(pool) /\ round' = round
        /\ alive' = alive \ {ce.req.session}
    BY <1>7 DEF Ends
  <2>2. /\ Head(pool) \in Sessions /\ 0 \in 0 .. MaxRounds - 1
        /\ Range(pool) = {Head(pool)} \cup Range(Tail(pool))
    BY <1>3, <1>7, TailRange
  <2>3. /\ item \in AllRequests /\ item # Wakeup
        /\ item.session = Head(pool) /\ item.round = 0
    BY <2>2, RequestType
  <2>4. IsInjective(Tail(pool)) /\ Head(pool) \notin Range(Tail(pool)) /\ Head(pool) \in Range(pool)
    BY <1>1, <1>3, <1>7, TailInjective DEF Fresh
  <2> HIDE DEF item
  <2>5. Pushing' = {item} BY <2>1, <2>3 DEF Pushing, Wakeup
  <2>6. Head(pool) # NoSession /\ round[Head(pool)] >= 0
    BY <2>2, <1>3, RequestType
  <2>7. item \notin Everywhere BY <1>4, <2>3, <2>4, <2>6
  <2>8. ASSUME NEW r \in Everywhere \cup {item}
        PROVE  /\ r.session \in alive' => r.round <= round'[r.session]
               /\ r.session \notin Range(pool')
    <3>1. CASE r = item BY <3>1, <2>1, <2>3, <2>4, <2>6
    <3>2. CASE r \in Everywhere BY <3>2, <1>4, <2>1, <2>2
    <3>3. QED BY <2>8, <3>1, <3>2
  <2>9. serializer'.at # "decrement" BY <2>1
  <2>10. \A s \in alive' :
           s \in Range(pool) \/ s = ce.req.session =>
             s \in Range(pool') \/ \E r \in Pushing' : r.session = s
    BY <2>1, <2>2, <2>3, <2>5
  <2>11. QED BY <2>1, <2>2, <2>4, <2>5, <2>7, <2>8, <2>9, <2>10, <1>7
<1>8. QED BY <1>5, <1>6, <1>7 DEF SerializerReceives

(* The serializer takes a completion. *)
LEMMA SerializerReceivesPlaceInv ==
  ASSUME CountInv, PlaceInv, SerializerReceives
  PROVE  PlaceInv'
<1> DEFINE ce == Head(completionCh)
<1>1. /\ completionCh # <<>> /\ completionCh' = Tail(completionCh)
      /\ serializer.at = "receive" /\ serializer.item = Wakeup
      /\ UNCHANGED <<seen, preGen, pending, next, pc, index, cancelled, active, workers, records,
                     followUpCh>>
  BY DEF SerializerReceives, mainVars, CountInv, Shape
<1>2. /\ Pushing' \cap Everywhere = {}
      /\ pool' # <<>> => pool # <<>>
      /\ Range(pool') \subseteq Range(pool) /\ IsInjective(pool')
      /\ \A r \in Everywhere \cup Pushing' :
           /\ r.session \in alive' => r.round <= round'[r.session]
           /\ r.session \notin Range(pool')
      /\ \A s \in alive' :
           s \in Range(pool) \/ s = ce.req.session =>
             s \in Range(pool') \/ \E r \in Pushing' : r.session = s
      /\ alive' \subseteq alive
      /\ serializer'.at = "decrement" => pool' = <<>>
  BY AnswerIsFresh
<1>3. OnePlace /\ Fresh /\ RecordedOnce /\ Covered /\ PoolFeeds /\ Drained
  BY DEF PlaceInv, OnceInv, SessionInv
<1>4. Range(completionCh) = {ce} \cup Range(completionCh')
  BY <1>1, TailRange DEF CountInv, ObserveTypeOK
<1> HIDE DEF ce
<1>5. /\ Range(preGen)' = Range(preGen) /\ Range(pending)' = Range(pending)
      /\ Queued' = Queued /\ InHand' = InHand /\ Dispatched' = Dispatched
      /\ DistinctRequests(preGen)' = DistinctRequests(preGen)
      /\ DistinctRequests(pending)' = DistinctRequests(pending)
      /\ DistinctRequests(followUpCh)' = DistinctRequests(followUpCh)
      /\ Reporting' = Reporting /\ Pushing = {}
  BY <1>1 DEF Queued, InHand, Dispatched, DistinctRequests, Reporting, Pushing
<1>6. Everywhere' = Everywhere \cup Pushing' BY <1>5 DEF Everywhere
<1>7. OnePlace' BY <1>2, <1>3, <1>5 DEF OnePlace, Everywhere
<1>8. Fresh'
  <2>1. \A c \in Range(completionCh') : c.req.session \notin Range(pool')
    BY <1>2, <1>3, <1>4 DEF Fresh
  <2>2. QED BY <2>1, <1>2, <1>6 DEF Fresh
<1>9. RecordedOnce' BY <1>1, <1>3 DEF RecordedOnce
<1>10. Covered'
  <2>1. ASSUME NEW s \in alive', s \notin Range(pool')
        PROVE  \E r \in (Range(preGen) \cup Carried)' : r.session = s
    <3>1. CASE s \in Range(pool) \/ s = ce.req.session
      BY <3>1, <2>1, <1>2 DEF Carried
    <3>2. CASE ~(s \in Range(pool) \/ s = ce.req.session)
      <4>1. PICK r \in Range(preGen) \cup Carried : r.session = s
        BY <3>2, <2>1, <1>2, <1>3 DEF Covered
      <4>2. r # ce.req BY <4>1, <3>2
      <4>3. r \in {c.req : c \in Range(completionCh)} =>
              r \in {c.req : c \in Range(completionCh')}
        BY <4>2, <1>4
      <4>4. QED BY <4>1, <4>3, <1>5 DEF Carried
    <3>3. QED BY <3>1, <3>2
  <2>2. QED BY <2>1 DEF Covered
<1>11. PoolFeeds' /\ Drained' BY <1>1, <1>2, <1>3 DEF PoolFeeds, Drained
<1>12. QED BY <1>7, <1>8, <1>9, <1>10, <1>11 DEF PlaceInv, OnceInv, SessionInv

(* The serializer counts a session down, or ends; no request moves. *)
LEMMA SerializerMovesPlaceInv ==
  ASSUME CountInv, PlaceInv, SerializerDecrements \/ SerializerEnds
  PROVE  PlaceInv'
<1>1. /\ UNCHANGED <<seen, preGen, pending, next, pc, index, cancelled, workers, records,
                     completionCh, followUpCh, round, alive, pool>>
      /\ serializer.item = Wakeup /\ serializer'.item = Wakeup
      /\ serializer'.at # "decrement"
  BY DEF SerializerDecrements, SerializerEnds, mainVars, sessionVars, CountInv, Shape, ObserveTypeOK
<1>2. OnePlace /\ Fresh /\ RecordedOnce /\ Covered /\ PoolFeeds /\ Drained
  BY DEF PlaceInv, OnceInv, SessionInv
<1>3. /\ InHand' = InHand /\ Queued' = Queued /\ Pushing' = Pushing /\ Dispatched' = Dispatched
      /\ Reporting' = Reporting
  BY <1>1 DEF InHand, Queued, Pushing, Dispatched, Reporting
<1>4. Everywhere' = Everywhere /\ Carried' = Carried
  BY <1>1, <1>3 DEF Everywhere, Carried
<1>5. OnePlace' /\ Fresh' /\ RecordedOnce' /\ Covered'
  BY <1>1, <1>2, <1>3, <1>4 DEF OnePlace, Fresh, RecordedOnce, Covered, DistinctRequests
<1>6. CASE SerializerDecrements
  <2>1. pool = <<>> BY <1>2, <1>6 DEF PoolFeeds, SerializerDecrements
  <2>2. active' = active - 1 /\ active \in Int
    BY <1>6 DEF SerializerDecrements, CountInv, ObserveTypeOK
  <2>3. PoolFeeds' /\ Drained' BY <2>1, <2>2, <1>1, <1>2 DEF PoolFeeds, Drained
  <2>4. QED BY <2>3, <1>5 DEF PlaceInv, OnceInv, SessionInv
<1>7. CASE SerializerEnds
  <2>1. active' = active BY <1>7 DEF SerializerEnds
  <2>2. PoolFeeds' /\ Drained' BY <2>1, <1>1, <1>2 DEF PoolFeeds, Drained
  <2>3. QED BY <2>2, <1>5 DEF PlaceInv, OnceInv, SessionInv
<1>8. QED BY <1>6, <1>7

(* The serializer pushes the next request, or the wake-up. *)
LEMMA SerializerPushesPlaceInv ==
  ASSUME CountInv, PlaceInv, SerializerPushes
  PROVE  PlaceInv'
<1>1. /\ followUpCh' = Append(followUpCh, serializer.item)
      /\ serializer' = [at |-> "receive", item |-> Wakeup]
      /\ UNCHANGED <<seen, preGen, pending, next, pc, index, cancelled, active, workers, records,
                     completionCh, round, alive, pool>>
  BY DEF SerializerPushes, mainVars, sessionVars
<1>2. OnePlace /\ Fresh /\ RecordedOnce /\ Covered /\ PoolFeeds /\ Drained
  BY DEF PlaceInv, OnceInv, SessionInv
<1>3. /\ followUpCh \in Seq(AllRequests \cup {Wakeup})
      /\ serializer.item \in AllRequests \cup {Wakeup}
  BY DEF CountInv, ObserveTypeOK
<1>4. serializer.item \notin Range(followUpCh) \/ serializer.item = Wakeup
  BY <1>2 DEF OnePlace, Pushing, Queued
<1>5. /\ Range(followUpCh') = Range(followUpCh) \cup {serializer.item}
      /\ DistinctRequests(followUpCh')
  BY <1>1, <1>2, <1>3, <1>4, AppendRange DEF OnePlace
<1>6. Queued' = Queued \cup Pushing /\ Pushing' = {}
  BY <1>1, <1>5 DEF Queued, Pushing
<1>7. /\ Range(preGen)' = Range(preGen) /\ Range(pending)' = Range(pending)
      /\ InHand' = InHand /\ Dispatched' = Dispatched /\ Reporting' = Reporting
      /\ DistinctRequests(preGen)' = DistinctRequests(preGen)
      /\ DistinctRequests(pending)' = DistinctRequests(pending)
      /\ Range(completionCh)' = Range(completionCh)
  BY <1>1 DEF InHand, Dispatched, DistinctRequests, Reporting
<1>8. OnePlace' BY <1>2, <1>5, <1>6, <1>7 DEF OnePlace
<1>9. Fresh'
  <2>1. Everywhere' = Everywhere BY <1>6, <1>7 DEF Everywhere
  <2>2. QED BY <2>1, <1>1, <1>2, <1>7, FreshKept
<1>10. RecordedOnce' BY <1>1, <1>2 DEF RecordedOnce
<1>11. Covered'
  <2>1. Carried' = Carried BY <1>6, <1>7 DEF Carried
  <2>2. QED BY <2>1, <1>1, <1>2, <1>7, CoveredKept DEF CountInv
<1>12. PoolFeeds' /\ Drained' BY <1>1, <1>2 DEF PoolFeeds, Drained
<1>13. QED BY <1>8, <1>9, <1>10, <1>11, <1>12 DEF PlaceInv, OnceInv, SessionInv

(* Every step keeps PlaceInv. *)
LEMMA NextPlaceInv == CountInv /\ PlaceInv /\ [ObserveNext]_observeVars => PlaceInv'
<1> SUFFICES ASSUME CountInv, PlaceInv, [ObserveNext]_observeVars PROVE PlaceInv' OBVIOUS
<1>1. CASE Main
  BY <1>1, MainMovesPlaceInv, DrainFollowUpPlaceInv, TakePreGenPlaceInv, TakeFollowUpPlaceInv,
     ReceiveFollowUpPlaceInv, DispatchPlaceInv DEF Main
<1>2. CASE Serializer
  BY <1>2, SerializerReceivesPlaceInv, SerializerMovesPlaceInv, SerializerPushesPlaceInv
     DEF Serializer
<1>3. ASSUME NEW w \in workers, Worker(w)
      PROVE  PlaceInv'
  BY <1>3, SendPlaceInv, ReportCompletionPlaceInv, ReleasePlaceInv DEF Worker
<1>4. CASE Interrupt \/ UNCHANGED observeVars BY <1>4, MainMovesPlaceInv
<1>5. QED BY <1>1, <1>2, <1>3, <1>4 DEF ObserveNext

(* PlaceInv holds in every reachable state. *)
LEMMA AlwaysPlaceInv == ObserveSpec => []PlaceInv
<1>1. QED BY InitPlaceInv, NextPlaceInv, AlwaysCountInv, PTL DEF ObserveSpec

------------------------------
(* Nothing is left behind. *)

(* With nothing outstanding no session's request is on its way. *)
LEMMA NothingCarried ==
  ASSUME CountInv, Outstanding = 0
  PROVE  OfSession(followUpCh) = 0 /\ \A r \in Carried : r.session = NoSession
<1>1. /\ MainSide \in Nat /\ WorkSide \in Nat /\ MainSide + WorkSide = 0
      /\ OfSession(pending) \in Nat /\ OfSession(followUpCh) \in Nat
      /\ IsFiniteSet(Reporting) /\ Cardinality(Reporting) \in Nat
      /\ Len(completionCh) \in Nat
      /\ InSerializer \in 0 .. 1 /\ Weight(next) \in 0 .. 1
  BY OutstandingTerms, OutstandingSides DEF CountInv, Shape
<1>2. MainSide = 0 /\ WorkSide = 0 BY <1>1
<1>3. Weight(next) = 0 /\ OfSession(pending) = 0 /\ OfSession(followUpCh) = 0
  <2> DEFINE a == Weight(next)  b == OfSession(pending)  c == OfSession(followUpCh)
  <2>1. a \in Nat /\ b \in Nat /\ c \in Nat BY <1>1
  <2>2. a + b + c = 0 BY <1>2 DEF MainSide
  <2> HIDE DEF a, b, c
  <2>3. a = 0 /\ b = 0 /\ c = 0 BY <2>1, <2>2
  <2>4. QED BY <2>3 DEF a, b, c
<1>4. Cardinality(Reporting) = 0 /\ Len(completionCh) = 0 /\ InSerializer = 0
  <2> DEFINE a == Cardinality(Reporting)  b == Len(completionCh)  c == InSerializer
  <2>1. a \in Nat /\ b \in Nat /\ c \in Nat BY <1>1
  <2>2. a + b + c = 0 BY <1>2 DEF WorkSide
  <2> HIDE DEF a, b, c
  <2>3. a = 0 /\ b = 0 /\ c = 0 BY <2>1, <2>2
  <2>4. QED BY <2>3 DEF a, b, c
<1>5. \A r \in InHand : r.session = NoSession
  BY <1>3 DEF InHand, Weight, Counts, Wakeup
<1>6. \A r \in Range(pending) \cup Queued : r.session = NoSession
  <2>1. /\ \A i \in DOMAIN pending : ~Counts(pending[i])
        /\ \A i \in DOMAIN followUpCh : ~Counts(followUpCh[i])
    BY <1>3, OfSessionType DEF CountInv, ObserveTypeOK
  <2>2. \A i \in DOMAIN pending : pending[i] # Wakeup
    BY RequestType DEF CountInv, ObserveTypeOK
  <2>3. QED BY <2>1, <2>2 DEF Range, Queued, Counts
<1>7. Reporting = {} BY <1>1, <1>4, FS_EmptySet
<1>8. Range(completionCh) = {} BY <1>4 DEF Range, CountInv, ObserveTypeOK
<1>9. Pushing = {} BY <1>4 DEF Pushing, InSerializer
<1>10. QED BY <1>3, <1>5, <1>6, <1>7, <1>8, <1>9 DEF Carried

(* Each dispatch index past the warm-up has its record, and no request two. *)
LEMMA RecordsComplete ==
  ASSUME CountInv, RecordedOnce, workers = {}
  PROVE  /\ Cardinality(records) = IF index > WarmupCount THEN index - WarmupCount ELSE 0
         /\ Cardinality({x.req : x \in records}) = Cardinality(records)
<1> DEFINE I == WarmupCount .. index - 1
           f == [x \in records |-> x.index]
           R == {x.req : x \in records}
           g == [x \in records |-> x.req]
<1>1. index \in Nat /\ WarmupCount \in Nat
  BY ObserveAssumption DEF CountInv, ObserveTypeOK
<1>2. IsFiniteSet(I) /\ Cardinality(I) = IF index > WarmupCount THEN index - WarmupCount ELSE 0
  BY <1>1, FS_Interval
<1>3. f \in Injection(records, I) /\ f \in Surjection(records, I)
  BY DEF RecordedOnce, Injection, Surjection, IsInjective
<1>4. g \in Injection(records, R) /\ g \in Surjection(records, R)
  BY DEF RecordedOnce, Injection, Surjection, IsInjective
<1> HIDE DEF I, f, R, g
<1>5. IsFiniteSet(records) /\ Cardinality(records) = Cardinality(I)
  BY <1>2, <1>3, FS_Injection
<1>6. Cardinality(R) = Cardinality(records)
  BY <1>4, <1>5, FS_Surjection, FS_CardinalityType
<1>7. QED BY <1>2, <1>5, <1>6 DEF R

(* When the loop ends by itself (cmd/observe_cmd.go), every request of the *)
(* source, every follow-up at hand and every session of the pool has been  *)
(* sent, and no session owes a follow-up unless an open-loop one sent a    *)
(* second round; when it has returned, interrupted or not, each request it *)
(* dispatched past the warm-up has been recorded, and once.                *)
THEOREM ObserveNothingLeftBehind == ObserveSpec => []NothingLeftBehind
<1>1. CountInv /\ PlaceInv => NothingLeftBehind
  <2> SUFFICES ASSUME CountInv, PlaceInv PROVE NothingLeftBehind OBVIOUS
  <2>1. Covered /\ PoolFeeds /\ Drained /\ RecordedOnce
    BY DEF PlaceInv, OnceInv, SessionInv
  <2>2. ASSUME pc \in {"waitGroup", "join", "done"}, ~cancelled
        PROVE  /\ preGen = <<>> /\ pending = <<>> /\ pool = <<>> /\ next = NoRequest
               /\ LaterRounds = {} => alive = {} /\ OfSession(followUpCh) = 0
    <3>1. /\ preGen = <<>> /\ pending = <<>> /\ next = NoRequest
          /\ active <= 0 /\ active \in Int
      BY <2>1, <2>2 DEF Drained, CountInv, ObserveTypeOK
    <3>2. Range(preGen) = {} BY <3>1 DEF Range
    <3>3. pool = <<>> BY <2>1, <3>1, <3>2 DEF PoolFeeds
    <3>4. ASSUME LaterRounds = {}
          PROVE  alive = {} /\ OfSession(followUpCh) = 0
      <4>1. Outstanding \in Nat /\ active = Outstanding
        BY <3>4, CountedBounds, OutstandingTerms, OutstandingSides
           DEF CountInv, Shape, ActiveIsOutstanding
      <4>2. Outstanding = 0 BY <4>1, <3>1
      <4>3. OfSession(followUpCh) = 0 /\ \A r \in Carried : r.session = NoSession
        BY <4>2, NothingCarried
      <4>4. Range(pool) = {} BY <3>3 DEF Range
      <4>5. NoSession \notin alive BY RequestType DEF CountInv, ObserveTypeOK
      <4>6. QED BY <2>1, <3>2, <4>3, <4>4, <4>5 DEF Covered
    <3>5. QED BY <3>1, <3>3, <3>4
  <2>3. ASSUME pc = "done"
        PROVE  /\ Cardinality(records) = IF index > WarmupCount THEN index - WarmupCount ELSE 0
               /\ Cardinality({x.req : x \in records}) = Cardinality(records)
    <3>1. workers = {} BY <2>3 DEF CountInv, Shape
    <3>2. QED BY <3>1, <2>1, RecordsComplete
  <2>4. QED BY <2>2, <2>3 DEF NothingLeftBehind
<1>2. QED BY <1>1, AlwaysCountInv, AlwaysPlaceInv, PTL
=============================================================================
