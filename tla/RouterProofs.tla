---------------------------- MODULE RouterProofs -----------------------------
(* What module Router keeps for every cluster: any requests, instances,      *)
(* configurations, cache sizes and thresholds.                               *)
EXTENDS Router, FiniteSetTheorems, SequenceTheorems, WellFoundedInduction, TLAPS

------------------------------
(* Induction on naturals. *)

(* The naturals under < in the form the theorem on minimal elements wants. *)
LEMMA NatOrder ==
  \E R : /\ IsWellFoundedOn(R, Nat)
         /\ \A x, y \in Nat : x < y => <<x, y>> \in R
<1> DEFINE R == {ss \in Nat \X Nat : ss[1] < ss[2]}
<1>1. IsWellFoundedOn(OpToRel(<, Nat), Nat) BY NatLessThanWellFounded
<1>2. OpToRel(<, Nat) = R BY DEF OpToRel
<1>3. \A x, y \in Nat : x < y => <<x, y>> \in R OBVIOUS
<1> QED BY <1>1, <1>2, <1>3

(* A nonempty set of naturals has a least element. *)
LEMMA LeastNat ==
  ASSUME NEW S, S \subseteq Nat, S # {}
  PROVE  \E x \in S : \A y \in S : x <= y
<1>1. PICK R : /\ IsWellFoundedOn(R, Nat)
               /\ \A x, y \in Nat : x < y => <<x, y>> \in R
  BY NatOrder
<1>2. IsWellFoundedOn(R, Nat) BY <1>1
<1>3. PICK x \in S : \A y \in S : ~(<<y, x>> \in R) BY <1>2, WFMin, Zenon
<1>4. \A y \in S : x \in Nat /\ y \in Nat /\ ~(y < x) BY <1>1, <1>3
<1> QED BY <1>4

(* Induction along a recursion of n steps. *)
LEMMA StepsInduction ==
  ASSUME NEW n \in Nat, NEW T, 0 \in T,
         \A k \in 1 .. n : k - 1 \in T => k \in T
  PROVE  \A k \in 0 .. n : k \in T
<1> DEFINE Bad == {k \in 0 .. n : k \notin T}
<1>1. SUFFICES ASSUME Bad # {} PROVE FALSE OBVIOUS
<1>2. Bad \subseteq Nat OBVIOUS
<1>3. PICK x \in Bad : \A y \in Bad : x <= y
  <2> HIDE DEF Bad
  <2> QED BY <1>1, <1>2, LeastNat
<1>4. x \in 1 .. n /\ x - 1 \in 0 .. n /\ x - 1 \notin Bad BY <1>3
<1> QED BY <1>3, <1>4

\* Step k of a recursion takes a state of T[k - 1] to one of T[k].
StepsStay(n, U, T, F, b) ==
  /\ \A k \in 0 .. n : T[k] \subseteq U
  /\ b \in T[0]
  /\ \A k \in 1 .. n : \A s \in T[k - 1] : F[k][s] \in T[k]
RunOf(n, T, F, b, f) ==
  /\ f[0] = b
  /\ \A k \in 1 .. n : f[k] = F[k][f[k - 1]]
  /\ \A k \in 0 .. n : f[k] \in T[k]

(* A recursion of n steps is defined when each step stays in the set of    *)
(* states the next one starts from.                                        *)
LEMMA StepsDefined ==
  ASSUME NEW n \in Nat, NEW U, NEW T, NEW F, NEW b, StepsStay(n, U, T, F, b)
  PROVE  \E f \in [0 .. n -> U] : RunOf(n, T, F, b, f)
<1> USE DEF StepsStay, RunOf
<1> DEFINE OK(m, f) == /\ f \in [0 .. m -> U]
                       /\ f[0] = b
                       /\ \A k \in 1 .. m : f[k] = F[k][f[k - 1]]
                       /\ \A k \in 0 .. m : f[k] \in T[k]
           Good == {m \in 0 .. n : \E f : OK(m, f)}
<1>1. 0 \in Good
  <2> DEFINE g == [k \in 0 .. 0 |-> b]
  <2>1. g \in [0 .. 0 -> U] /\ g[0] = b /\ \A k \in 0 .. 0 : g[k] \in T[k]
    OBVIOUS
  <2> HIDE DEF g
  <2>2. OK(0, g) BY <2>1
  <2> QED BY <2>2
<1>2. ASSUME NEW m \in 1 .. n, m - 1 \in Good PROVE m \in Good
  <2>1. PICK f : OK(m - 1, f) BY <1>2
  <2> DEFINE g == [k \in 0 .. m |-> IF k = m THEN F[m][f[m - 1]] ELSE f[k]]
  <2>2. \A k \in 0 .. m - 1 : g[k] = f[k] /\ f[k] \in T[k] BY <2>1
  <2>3. g[m] = F[m][f[m - 1]] /\ g[m] \in T[m]
    <3>1. f[m - 1] \in T[m - 1] BY <2>1
    <3>2. F[m][f[m - 1]] \in T[m] BY <3>1
    <3> QED BY <3>2
  <2>4. \A k \in 0 .. m : g[k] \in T[k] BY SMTT(60), <2>2, <2>3
  <2>5. \A k \in 1 .. m : g[k] = F[k][g[k - 1]]
    <3> TAKE k \in 1 .. m
    <3>1. CASE k = m BY <2>2, <2>3, <3>1
    <3>2. CASE k # m
      <4>1. k \in 1 .. m - 1 /\ k \in 0 .. m - 1 /\ k - 1 \in 0 .. m - 1
        BY <3>2
      <4>2. f[k] = F[k][f[k - 1]] BY <2>1, <4>1
      <4> QED BY <2>2, <4>1, <4>2
    <3> QED BY <3>1, <3>2
  <2>6. g \in [0 .. m -> U]
    <3>1. \A k \in 0 .. m : g[k] \in U BY <2>4
    <3> QED BY <3>1
  <2>7. g[0] = b BY <2>1, <2>2
  <2> HIDE DEF g
  <2>8. OK(m, g) BY <2>4, <2>5, <2>6, <2>7
  <2> QED BY <2>8
<1>3. n \in Good
  <2> HIDE DEF Good
  <2> QED BY <1>1, <1>2, StepsInduction
<1> QED BY <1>3

------------------------------
(* Filtering a sequence. *)

Distinct(s) == \A m, n \in 1 .. Len(s) : s[m] = s[n] => m = n

\* f is the recursion that defines Only.
OnlySteps(f, s, S) ==
    /\ f[0] = <<>>
    /\ \A k \in 1 .. Len(s) : f[k] = IF s[k] \in S THEN Append(f[k - 1], s[k]) ELSE f[k - 1]
    /\ Only(s, S) = f[Len(s)]

(* The recursion is defined. *)
LEMMA OnlyRun ==
  ASSUME NEW A, NEW s \in Seq(A), NEW S
  PROVE  \E f \in [0 .. Len(s) -> Seq(A)] : OnlySteps(f, s, S)
<1> DEFINE n == Len(s)
           U == Seq(A)
           T == [k \in 0 .. n |-> U]
           F == [k \in 1 .. n |-> [t \in U |-> IF s[k] \in S THEN Append(t, s[k]) ELSE t]]
           Step(g, k) == IF k = 0 THEN <<>>
                         ELSE IF s[k] \in S THEN Append(g[k - 1], s[k]) ELSE g[k - 1]
           g == CHOOSE h : h = [k \in 0 .. n |-> Step(h, k)]
<1>1. n \in Nat /\ \A k \in 1 .. n : s[k] \in A OBVIOUS
<1>2. \A k \in 1 .. n : \A t \in U : F[k][t] \in U BY <1>1
<1>3. StepsStay(n, U, T, F, <<>>)
  <2>1. \A k \in 0 .. n : T[k] = U OBVIOUS
  <2>2. <<>> \in U OBVIOUS
  <2>3. \A k \in 1 .. n : k - 1 \in 0 .. n /\ k \in 0 .. n BY <1>1
  <2> HIDE DEF T, F, U, n
  <2> QED BY <1>1, <1>2, <2>1, <2>2, <2>3 DEF StepsStay
<1>4. PICK f \in [0 .. n -> U] : RunOf(n, T, F, <<>>, f)
  <2> HIDE DEF n, U, T, F
  <2> QED BY <1>1, <1>3, StepsDefined
<1>5. f[0] = <<>> BY <1>4 DEF RunOf
<1>6. \A k \in 1 .. n : f[k] = IF s[k] \in S THEN Append(f[k - 1], s[k]) ELSE f[k - 1]
  <2> TAKE k \in 1 .. n
  <2>1. f[k] = F[k][f[k - 1]]
    <3> HIDE DEF F, T
    <3> QED BY <1>4 DEF RunOf
  <2>2. f[k - 1] \in U
    <3> HIDE DEF U
    <3> QED BY <1>1, <1>4
  <2> QED BY <2>1, <2>2
<1>7. f = [k \in 0 .. n |-> Step(f, k)]
  <2>1. ASSUME NEW k \in 0 .. n PROVE f[k] = Step(f, k)
    <3>1. CASE k = 0 BY <1>5, <3>1
    <3>2. CASE k # 0
      <4>1. k \in 1 .. n BY <1>1, <3>2
      <4> QED BY <1>6, <3>2, <4>1
    <3> QED BY <3>1, <3>2
  <2>2. f = [k \in 0 .. n |-> f[k]] OBVIOUS
  <2> HIDE DEF Step
  <2> QED BY <2>1, <2>2
<1>8. g = [k \in 0 .. n |-> Step(g, k)]
  <2> HIDE DEF Step, n
  <2> QED BY <1>7, Zenon
<1>9. \A k \in 0 .. n : g[k] = f[k]
  <2> DEFINE Same == {k \in 0 .. n : g[k] = f[k]}
  <2>0. \A k \in 0 .. n : g[k] = Step(g, k)
    <3> HIDE DEF g, Step
    <3> QED BY <1>8
  <2> HIDE DEF g
  <2>1. 0 \in Same BY <1>1, <1>5, <2>0
  <2>2. ASSUME NEW k \in 1 .. n, k - 1 \in Same PROVE k \in Same
    <3>1. k \in 0 .. n /\ k # 0 /\ g[k - 1] = f[k - 1] BY <2>2, <1>1
    <3>2. g[k] = Step(g, k) BY <2>0, <3>1
    <3> QED BY <1>6, <3>1, <3>2
  <2>3. \A k \in 0 .. n : k \in Same
    <3> HIDE DEF Same, n
    <3> QED BY <1>1, <2>1, <2>2, StepsInduction
  <2> QED BY <2>3
<1>10. Only(s, S) = g[n] BY DEF Only
<1>11. f \in [0 .. n -> U] /\ Only(s, S) = f[n]
  <2> HIDE DEF g, T, F, U
  <2> QED BY <1>1, <1>4, <1>9, <1>10
<1> HIDE DEF g, T, F
<1> QED BY <1>5, <1>6, <1>11 DEF OnlySteps

(* What is kept: the members of S, no member twice that was there once. *)
LEMMA OnlyKeeps ==
  ASSUME NEW A, NEW s \in Seq(A), NEW S
  PROVE  /\ Only(s, S) \in Seq(A)
         /\ Elems(Only(s, S)) = Elems(s) \cap S
         /\ Distinct(s) => Distinct(Only(s, S))
         /\ Len(Only(s, S)) <= Len(s)
<1>1. PICK f \in [0 .. Len(s) -> Seq(A)] : OnlySteps(f, s, S) BY OnlyRun, Zenon
<1>0. OnlySteps(f, s, S)!1 /\ OnlySteps(f, s, S)!2 /\ OnlySteps(f, s, S)!3
  BY <1>1 DEF OnlySteps
<1> DEFINE n == Len(s)
           Part(k) == {s[j] : j \in 1 .. k}
           Good == {k \in 0 .. n : /\ Elems(f[k]) = Part(k) \cap S
                                   /\ Len(f[k]) <= k
                                   /\ Distinct(s) => Distinct(f[k])}
<1>2. n \in Nat /\ (\A k \in 1 .. n : s[k] \in A) /\ \A k \in 0 .. n : f[k] \in Seq(A)
  OBVIOUS
<1>3. 0 \in Good
  <2>1. f[0] = <<>> /\ 0 \in 0 .. n BY <1>0, <1>2
  <2> QED BY <2>1 DEF Elems, Distinct
<1>4. ASSUME NEW k \in 1 .. n, k - 1 \in Good PROVE k \in Good
  <2>1. k \in 0 .. n /\ k - 1 \in 0 .. n /\ f[k - 1] \in Seq(A) BY <1>2
  <2>2. Elems(f[k - 1]) = Part(k - 1) \cap S /\ Len(f[k - 1]) <= k - 1
        /\ (Distinct(s) => Distinct(f[k - 1]))
    BY <1>4
  <2>3. Part(k) = Part(k - 1) \cup {s[k]}
    <3>1. 1 .. k = (1 .. k - 1) \cup {k} BY <2>1
    <3> QED BY <3>1
  <2>4. CASE s[k] \notin S
    <3>1. f[k] = f[k - 1] BY <1>0, <2>4
    <3>2. Len(f[k]) <= k BY <2>1, <2>2, <3>1
    <3> QED BY <2>1, <2>2, <2>3, <2>4, <3>1, <3>2
  <2>5. CASE s[k] \in S
    <3> DEFINE t == f[k - 1]
               m == Len(t)
    <3>0. t \in Seq(A) /\ m \in Nat BY <2>1
    <3>1. t \in Seq(A) /\ m \in Nat /\ f[k] = Append(t, s[k]) /\ s[k] \in A
      BY <1>0, <1>2, <2>5, <3>0
    <3>2. Len(f[k]) = m + 1 /\ (\A j \in 1 .. m : f[k][j] = t[j]) /\ f[k][m + 1] = s[k]
      BY <3>1
    <3> HIDE DEF t, m
    <3>3. Elems(f[k]) = Elems(t) \cup {s[k]}
      <4>1. 1 .. m + 1 = (1 .. m) \cup {m + 1} BY <3>1
      <4>2. Elems(t) = {t[j] : j \in 1 .. m} BY DEF Elems, m
      <4> QED BY ZenonT(60), <3>2, <4>1, <4>2 DEF Elems
    <3>4. Distinct(s) => Distinct(f[k])
      <4> SUFFICES ASSUME Distinct(s), NEW a \in 1 .. m + 1, NEW b \in 1 .. m + 1, f[k][a] = f[k][b]
                   PROVE a = b
        BY <3>2 DEF Distinct
      <4>1. s[k] \notin Elems(t)
        <5> SUFFICES ASSUME s[k] \in Elems(t) PROVE FALSE OBVIOUS
        <5>1. PICK j \in 1 .. k - 1 : s[j] = s[k] BY <2>2 DEF t
        <5>2. j \in 1 .. Len(s) /\ k \in 1 .. Len(s) /\ j # k BY SMTT(60), <2>1, <1>2
        <5> QED BY <5>1, <5>2 DEF Distinct
      <4>2. \A j \in 1 .. m : t[j] \in Elems(t) BY DEF Elems, m
      <4>3. Distinct(t) BY <2>2 DEF t
      <4>4. (a \in 1 .. m \/ a = m + 1) /\ (b \in 1 .. m \/ b = m + 1) BY <3>1
      <4>5. CASE a \in 1 .. m /\ b \in 1 .. m
        BY <3>2, <4>3, <4>5 DEF Distinct, m
      <4> QED BY <3>2, <4>1, <4>2, <4>4, <4>5
    <3>5. Len(f[k]) <= k BY <2>1, <2>2, <3>1, <3>2 DEF t, m
    <3>6. Elems(f[k]) = Part(k) \cap S BY <2>2, <2>3, <2>5, <3>3 DEF t
    <3> QED BY <2>1, <3>4, <3>5, <3>6
  <2> QED BY <2>4, <2>5
<1>5. \A k \in 0 .. n : k \in Good
  <2> HIDE DEF Good, n
  <2> QED BY <1>2, <1>3, <1>4, StepsInduction
<1>6. n \in Good /\ Part(n) = Elems(s)
  <2>1. n \in 0 .. n /\ Part(n) = Elems(s) BY <1>2 DEF Elems
  <2> HIDE DEF Good, n
  <2> QED BY <1>5, <2>1
<1>7. Only(s, S) = f[n] /\ n \in 0 .. n /\ f[n] \in Seq(A) BY <1>0, <1>2
<1> QED BY <1>2, <1>6, <1>7

(* A prefix whose members are all in S is kept in place. *)
LEMMA OnlyPrefix ==
  ASSUME NEW A, NEW s \in Seq(A), NEW S, NEW p \in 0 .. Len(s),
         \A j \in 1 .. p : s[j] \in S
  PROVE  p <= Len(Only(s, S)) /\ \A j \in 1 .. p : Only(s, S)[j] = s[j]
<1>1. PICK f \in [0 .. Len(s) -> Seq(A)] : OnlySteps(f, s, S) BY OnlyRun, Zenon
<1>0. OnlySteps(f, s, S)!1 /\ OnlySteps(f, s, S)!2 /\ OnlySteps(f, s, S)!3
  BY <1>1 DEF OnlySteps
<1> DEFINE n == Len(s)
           Least(k) == IF k < p THEN k ELSE p
           Good == {k \in 0 .. n : /\ k <= p => Len(f[k]) = k
                                   /\ k >= p => Len(f[k]) >= p
                                   /\ \A j \in 1 .. k : j <= p => f[k][j] = s[j]}
<1>2. n \in Nat /\ p \in Nat /\ (\A k \in 1 .. n : s[k] \in A) /\ \A k \in 0 .. n : f[k] \in Seq(A)
  OBVIOUS
<1>3. 0 \in Good
  <2>1. Len(f[0]) = 0 /\ 0 \in 0 .. n BY <1>0, <1>2
  <2> QED BY <1>2, <2>1
<1>4. ASSUME NEW k \in 1 .. n, k - 1 \in Good PROVE k \in Good
  <2> DEFINE t == f[k - 1]
             m == Len(t)
  <2>1. k \in 0 .. n /\ k - 1 \in 0 .. n /\ t \in Seq(A) /\ m \in Nat /\ k \in Nat
    BY <1>2
  <2>2. /\ k - 1 <= p => m = k - 1
        /\ k - 1 >= p => m >= p
        /\ \A j \in 1 .. k - 1 : j <= p => t[j] = s[j]
    BY <1>4
  <2>3. CASE s[k] \notin S
    <3>1. f[k] = t /\ k > p BY SMTT(60), <1>0, <1>2, <2>1, <2>3
    <3> HIDE DEF t, m
    <3> QED BY <1>2, <2>1, <2>2, <3>1 DEF m
  <2>4. CASE s[k] \in S
    <3>1. f[k] = Append(t, s[k]) /\ s[k] \in A BY <1>0, <1>2, <2>1, <2>4
    <3>2. Len(f[k]) = m + 1 /\ (\A j \in 1 .. m : f[k][j] = t[j]) /\ f[k][m + 1] = s[k]
      BY <2>1, <3>1
    <3> HIDE DEF t, m, n
    <3>3. \A j \in 1 .. k : j <= p => f[k][j] = s[j]
      <4> TAKE j \in 1 .. k
      <4> HAVE j <= p
      <4>1. CASE j = k BY <1>2, <2>1, <2>2, <3>2, <4>1
      <4>2. CASE j # k
        <5>1. j \in 1 .. k - 1 /\ j \in 1 .. m BY <1>2, <2>1, <2>2, <4>2
        <5> QED BY <2>2, <3>2, <5>1
      <4> QED BY <4>1, <4>2
    <3>4. k <= p => Len(f[k]) = k BY <1>2, <2>1, <2>2, <3>2
    <3>5. k >= p => Len(f[k]) >= p BY <1>2, <2>1, <2>2, <3>2
    <3> QED BY <2>1, <3>3, <3>4, <3>5
  <2> QED BY <2>3, <2>4
<1>5. \A k \in 0 .. n : k \in Good
  <2> HIDE DEF Good, n
  <2> QED BY <1>2, <1>3, <1>4, StepsInduction
<1>6. n \in Good /\ n >= p
  <2>1. n \in 0 .. n /\ n >= p BY <1>2
  <2> HIDE DEF Good, n
  <2> QED BY <1>5, <2>1
<1>7. Only(s, S) = f[n] /\ n \in 0 .. n /\ f[n] \in Seq(A) BY <1>0, <1>2
<1> QED BY <1>2, <1>6, <1>7

------------------------------
(* The invariant of the snapshot provider. *)

Reqs == 1 .. Len(Requests)
Waits == [req : Reqs, at : Nat]
LifeStates == {"none", "Loading", "Active", "Draining", "Terminated"}

\* Every variable has its shape.
Shapes ==
    /\ config \in Configs /\ clock \in 0 .. Horizon
    /\ instances \in Seq(All) /\ Distinct(instances)
    /\ life \in [All -> LifeStates]
    /\ inbox \in [All -> Seq(Reqs)] /\ queue \in [All -> Seq(Reqs)]
    /\ batch \in [All -> SUBSET Reqs]
    /\ cached \in [All -> SUBSET Hashes] /\ DOMAIN resident = All
    /\ inFlight \in [All -> Int]
    /\ counter \in Nat
    /\ arrived \in 0 .. Len(Requests)
    /\ pending \in Seq(Waits)
    /\ IsSequence(trace)
    /\ changed \in [All -> [signals : Nat, cache : Nat]]

\* The tables that construction, scale-up and termination keep: who has a view,
\* who answers cache queries, and from which entries.
Members ==
    /\ Elems(instances) = {i \in All : life[i] # "none"}
    /\ DOMAIN view = Elems(instances) /\ DOMAIN viewAt = Elems(instances)
    /\ queries = {i \in All : life[i] \notin {"none", "Terminated"}}
    /\ config.delay > 0 => DOMAIN entries = queries

\* A view read after the last change is the truth.
Views ==
    \A i \in Elems(instances) :
        /\ viewAt[i] \in 0 .. clock
        /\ changed[i].signals < viewAt[i] => view[i] = Truth(i)

\* So is a frozen copy of a cache.
Copies ==
    config.delay > 0 =>
        /\ entriesAt \in 0 .. clock
        /\ \A i \in DOMAIN entries : changed[i].cache < entriesAt => entries[i] = cached[i]

Readable == Shapes /\ Members /\ Views /\ Copies

(* What the assumptions say of the instances, a prompt and a configuration. *)
LEMMA Given ==
  /\ Initial \in Seq(All) /\ Distinct(Initial) /\ Late \in All
  /\ All = Elems(Initial) \cup {Late} /\ Late \notin Elems(Initial)
  /\ Len(Requests) \in Nat
  /\ \A c \in Configs : c.refresh \in Nat /\ c.delay \in Nat /\ c.latency \in Nat
                        /\ c.load \in 0 .. Len(Requests)
  /\ IsFiniteSet(All)
<1>1. Initial \in Seq(Elems(Initial)) /\ Elems(Initial) \subseteq All
  BY RouterAssumption DEF IsSequence, All, Elems
<1>2. Initial \in Seq(All) BY <1>1
<1>3. Len(Requests) \in Nat
  <2>1. Requests \in Seq(Elems(Requests)) BY RouterAssumption DEF IsSequence
  <2> QED BY <2>1
<1>4. \A c \in Configs : c.refresh \in Nat /\ c.delay \in Nat /\ c.latency \in Nat
                         /\ c.load \in 0 .. Len(Requests)
  BY RouterAssumption DEF ValidConfig
<1>5. Late \in All /\ All = Elems(Initial) \cup {Late} /\ Late \notin Elems(Initial)
  BY RouterAssumption DEF All, Elems
<1>6. Distinct(Initial) BY RouterAssumption DEF Distinct
<1>7. IsFiniteSet(All)
  <2>1. Len(Initial) \in Nat BY <1>1
  <2>2. IsFiniteSet(1 .. Len(Initial)) BY <2>1, FS_Interval
  <2> DEFINE T == Elems(Initial)
             f == [n \in 1 .. Len(Initial) |-> Initial[n]]
  <2>3. f \in Surjection(1 .. Len(Initial), T) BY DEF Surjection, Elems
  <2>4. IsFiniteSet(T)
    <3> HIDE DEF f, T
    <3> QED BY <2>2, <2>3, FS_Surjection
  <2> QED BY <1>5, <2>4, FS_AddElement
<1> QED BY <1>2, <1>3, <1>4, <1>5, <1>6, <1>7

(* Appending to a sequence. *)
LEMMA Appended ==
  ASSUME NEW s, IsSequence(s), NEW x
  PROVE  /\ IsSequence(Append(s, x))
         /\ Len(s) \in Nat /\ Len(Append(s, x)) = Len(s) + 1
         /\ \A n \in 1 .. Len(s) : Append(s, x)[n] = s[n]
         /\ Append(s, x)[Len(s) + 1] = x
         /\ Elems(Append(s, x)) = Elems(s) \cup {x}
<1> DEFINE A == Elems(s) \cup {x}
           t == Append(s, x)
<1>1. s \in Seq(A) /\ x \in A BY DEF IsSequence
<1>2. t \in Seq(A) /\ Len(s) \in Nat /\ Len(t) = Len(s) + 1
      /\ (\A n \in 1 .. Len(s) : t[n] = s[n]) /\ t[Len(s) + 1] = x
  <2> HIDE DEF A
  <2> QED BY <1>1
<1> HIDE DEF t
<1>3. Elems(t) = A
  <2>1. 1 .. Len(s) + 1 = (1 .. Len(s)) \cup {Len(s) + 1} BY <1>2
  <2> QED BY <1>2, <2>1 DEF Elems
<1> QED BY <1>2, <1>3 DEF t, IsSequence

(* The candidates are instances of the fleet that are routable. *)
LEMMA CandidatesShape ==
  ASSUME Shapes, Members, NEW r
  PROVE  /\ Candidates(r) \in Seq(All) /\ Distinct(Candidates(r))
         /\ Elems(Candidates(r)) \subseteq Elems(instances)
         /\ \A i \in Elems(Candidates(r)) : i \in All /\ life[i] = "Active"
<1> DEFINE S == {i \in All : IsRoutable(i) /\ Requests[r].model \in {"", ModelOf[i]}}
<1>1. Candidates(r) = Only(instances, S) BY DEF Candidates
<1>2. instances \in Seq(All) /\ Distinct(instances) BY DEF Shapes
<1>3. /\ Only(instances, S) \in Seq(All)
      /\ Elems(Only(instances, S)) = Elems(instances) \cap S
      /\ Distinct(instances) => Distinct(Only(instances, S))
  <2> HIDE DEF S
  <2> QED BY <1>2, OnlyKeeps
<1>4. \A i \in S : i \in All /\ life[i] = "Active" BY DEF IsRoutable
<1> HIDE DEF S
<1> QED BY <1>1, <1>2, <1>3, <1>4

(* Looking at some instances keeps the provider's invariant. *)
LEMMA LookKeeps ==
  ASSUME Readable, NEW cands, Elems(cands) \subseteq Elems(instances), Look(cands),
         UNCHANGED <<config, clock, instances, life, queue, batch, cached, resident, queries,
                     changed>>
  PROVE  Members' /\ Views' /\ Copies'
<1> USE DEF Readable
<1>1. clock \in 0 .. Horizon /\ clock \in Nat /\ config.refresh \in Nat /\ config.delay \in Nat
  BY Given, RouterAssumption DEF Shapes
<1>2. \A i : Truth(i)' = Truth(i) BY DEF Truth
<1>3. DOMAIN entries' = DOMAIN entries
  BY DEF Look, Refreshed, RefreshedAt, FreshEntries, CacheDue
<1>4. DOMAIN view' = DOMAIN view /\ DOMAIN viewAt' = DOMAIN viewAt
  BY DEF Look, Refreshed, RefreshedAt
<1>5. Members' BY <1>1, <1>3, <1>4 DEF Members
<1>6. Views'
  <2> SUFFICES ASSUME NEW i \in Elems(instances)
               PROVE  /\ viewAt'[i] \in 0 .. clock
                      /\ changed[i].signals < viewAt'[i] => view'[i] = Truth(i)
    BY <1>2 DEF Views
  <2>1. i \in DOMAIN view /\ i \in DOMAIN viewAt BY DEF Members
  <2>2. \/ view'[i] = Truth(i) /\ viewAt'[i] = clock
        \/ view'[i] = view[i] /\ viewAt'[i] = viewAt[i]
    BY <2>1 DEF Look, Refreshed, RefreshedAt
  <2> QED BY <1>1, <2>2 DEF Views
<1>7. Copies' BY <1>1, <1>3 DEF Copies, Look, FreshEntries, CacheDue
<1> QED BY <1>5, <1>6, <1>7

(* The initial state. *)
LEMMA InitReadable == Init => Readable
<1> SUFFICES ASSUME Init PROVE Readable OBVIOUS
<1>1. config \in Configs /\ config.delay \in Nat BY Given DEF Init
<1>2. Horizon \in Nat BY RouterAssumption
<1>3. Shapes
  <2>1. /\ clock \in 0 .. Horizon /\ arrived \in 0 .. Len(Requests) /\ counter \in Nat
    BY <1>2, Given DEF Init
  <2>2. instances \in Seq(All) /\ Distinct(instances) BY Given DEF Init
  <2>3. life \in [All -> LifeStates] BY DEF Init, LifeStates
  <2>4. inbox \in [All -> Seq(Reqs)] /\ queue \in [All -> Seq(Reqs)]
        /\ batch \in [All -> SUBSET Reqs] /\ cached \in [All -> SUBSET Hashes]
    BY DEF Init
  <2>5. DOMAIN resident = All /\ inFlight \in [All -> Int] BY DEF Init
  <2>6. pending \in Seq(Waits) /\ IsSequence(trace) BY DEF Init, IsSequence
  <2>7. changed \in [All -> [signals : Nat, cache : Nat]] BY DEF Init
  <2> QED BY <1>1, <2>1, <2>2, <2>3, <2>4, <2>5, <2>6, <2>7 DEF Shapes
<1>4. Members
  <2>1. Elems(instances) = {i \in All : life[i] # "none"} BY Given DEF Init
  <2>2. queries = Elems(Initial)
        /\ \A i \in All : life[i] \notin {"none", "Terminated"} <=> i \in Elems(Initial)
    BY Given DEF Init
  <2>3. DOMAIN view = Elems(Initial) /\ DOMAIN viewAt = Elems(Initial) /\ instances = Initial
    BY DEF Init
  <2>4. config.delay > 0 => DOMAIN entries = Elems(Initial) BY DEF Init
  <2>5. queries = {i \in All : life[i] \notin {"none", "Terminated"}}
    BY <2>2, Given
  <2> QED BY <2>1, <2>2, <2>3, <2>4, <2>5 DEF Members
<1>5. Views
  <2>1. \A i \in Elems(Initial) : viewAt[i] = 0 /\ changed[i].signals = 0
    BY Given DEF Init
  <2>2. instances = Initial /\ clock = 0 BY DEF Init
  <2> QED BY <2>1, <2>2 DEF Views
<1>6. Copies
  <2>1. config.delay > 0 => \A i \in DOMAIN entries : entries[i] = {} /\ cached[i] = {}
    BY Given DEF Init
  <2>2. clock = 0 /\ entriesAt = 0 BY DEF Init
  <2> QED BY <2>1, <2>2 DEF Copies
<1> QED BY <1>3, <1>4, <1>5, <1>6 DEF Readable

(* The first waiting request and the others. *)
LEMMA HeadTail ==
  ASSUME NEW A, NEW s \in Seq(A), s # <<>>
  PROVE  Head(s) \in A /\ Tail(s) \in Seq(A)
  OBVIOUS

(* An admission reads the views and leaves the tables apart. *)
LEMMA AdmissionReadable == Readable /\ Admission => Readable'
<1> SUFFICES ASSUME Readable, Admission PROVE Readable' OBVIOUS
<1> USE DEF Readable
<1> DEFINE r == arrived + 1
           cands == Candidates(r)
<1>1. Elems(cands) \subseteq Elems(instances) BY CandidatesShape
<1>2. Look(cands) BY DEF Admission
<1>3. UNCHANGED <<config, clock, instances, life, queue, batch, cached, resident, queries, changed>>
  BY DEF Admission, truthVars
<1> HIDE DEF cands
<1>4. Members' /\ Views' /\ Copies' BY <1>1, <1>2, <1>3, LookKeeps
<1>5. r \in Reqs
  <2>1. config.load \in 0 .. Len(Requests) /\ Len(Requests) \in Nat /\ arrived \in 0 .. Len(Requests)
    BY Given DEF Shapes
  <2>2. arrived < config.load BY DEF Admission
  <2> QED BY <2>1, <2>2 DEF Reqs
<1>6. pending' \in Seq(Waits)
  <2>1. clock \in Nat /\ config.latency \in Nat /\ pending \in Seq(Waits)
    BY Given, RouterAssumption DEF Shapes
  <2>2. [req |-> r, at |-> clock + config.latency] \in Waits
    BY <1>5, <2>1 DEF Waits
  <2>3. pending' = pending \/ pending' = Append(pending, [req |-> r, at |-> clock + config.latency])
    BY DEF Admission
  <2> QED BY <2>1, <2>2, <2>3
<1>7. arrived' \in 0 .. Len(Requests)
  <2>1. arrived' = r BY DEF Admission
  <2> QED BY <1>5, <2>1, Given DEF Reqs, Shapes
<1>8. Shapes'
  <2>1. UNCHANGED <<inbox, inFlight, counter, trace>>
    BY DEF Admission, truthVars, policyVars
  <2> QED BY <1>3, <1>6, <1>7, <2>1 DEF Shapes
<1> QED BY <1>4, <1>8

(* A decision re-reads views and copies, and sends its request to the target.*)
LEMMA RoutingReadable == Readable /\ Routing => Readable'
<1> SUFFICES ASSUME Readable, Routing PROVE Readable' OBVIOUS
<1> USE DEF Readable
<1> DEFINE r == Head(pending).req
           cands == Candidates(r)
<1>1. Elems(cands) \subseteq Elems(instances) BY CandidatesShape
<1>2. Look(cands) BY DEF Routing
<1>3. UNCHANGED <<config, clock, instances, life, queue, batch, cached, resident, queries, changed>>
  BY DEF Routing
<1> HIDE DEF cands
<1>4. Members' /\ Views' /\ Copies' BY <1>1, <1>2, <1>3, LookKeeps
<1>5. pending \in Seq(Waits) /\ pending # <<>> BY DEF Routing, Shapes
<1>6. r \in Reqs /\ Tail(pending) \in Seq(Waits)
  <2>1. Head(pending) \in Waits /\ Tail(pending) \in Seq(Waits)
    BY <1>5, HeadTail
  <2> QED BY <2>1 DEF Waits
<1>7. pending' \in Seq(Waits) BY <1>6 DEF Routing
<1>8. inbox' \in [All -> Seq(Reqs)] /\ inFlight' \in [All -> Int] /\ counter' \in Nat
      /\ IsSequence(trace')
  <2>1. CASE UNCHANGED <<policyVars, trace, inFlight, inbox>>
    BY <2>1 DEF Shapes, policyVars
  <2>2. ASSUME NEW t, inFlight' = [inFlight EXCEPT ![t] = @ + 1],
               inbox' = [inbox EXCEPT ![t] = Append(@, r)],
               counter' = counter + 1 \/ counter' = counter,
               NEW x, trace' = Append(trace, x)
        PROVE  inbox' \in [All -> Seq(Reqs)] /\ inFlight' \in [All -> Int] /\ counter' \in Nat
               /\ IsSequence(trace')
    <3>1. IsSequence(trace') /\ counter' \in Nat BY <2>2, Appended DEF Shapes
    <3> HIDE DEF r
    <3>2. inFlight' \in [All -> Int]
      <4>1. inFlight \in [All -> Int] BY DEF Shapes
      <4>2. inFlight' = [i \in All |-> IF i = t THEN inFlight[i] + 1 ELSE inFlight[i]]
        BY <2>2, <4>1
      <4> QED BY <4>1, <4>2
    <3>3. \A q \in Seq(Reqs) : Append(q, r) \in Seq(Reqs) BY <1>6
    <3>4. inbox' \in [All -> Seq(Reqs)] BY <2>2, <3>3 DEF Shapes
    <3> QED BY <3>1, <3>2, <3>4
  <2>3. \/ UNCHANGED <<policyVars, trace, inFlight, inbox>>
        \/ \E t, x : /\ inFlight' = [inFlight EXCEPT ![t] = @ + 1]
                     /\ inbox' = [inbox EXCEPT ![t] = Append(@, r)]
                     /\ counter' = counter + 1 \/ counter' = counter
                     /\ trace' = Append(trace, x)
    BY ZenonT(60) DEF Routing, Learn
  <2> QED BY <2>1, <2>2, <2>3
<1>9. Shapes'
  <2>1. UNCHANGED arrived BY DEF Routing
  <2> QED BY <1>3, <1>7, <1>8, <2>1 DEF Shapes
<1> QED BY <1>4, <1>9

(* What an instance does at a time is not before the last read of it. *)
LEMMA ViewsStay ==
  ASSUME Readable, UNCHANGED <<clock, instances, view, viewAt>>, NEW i \in All,
         changed'[i].signals = clock,
         \A j \in All \ {i} : changed'[j] = changed[j] /\ Truth(j)' = Truth(j)
  PROVE  Views'
<1> USE DEF Readable
<1>1. clock \in Nat BY RouterAssumption DEF Shapes
<1>2. Elems(instances) \subseteq All BY DEF Members
<1> SUFFICES ASSUME NEW j \in Elems(instances)
             PROVE  /\ viewAt[j] \in 0 .. clock
                    /\ changed'[j].signals < viewAt[j] => view[j] = Truth(j)'
  BY DEF Views
<1>3. viewAt[j] \in 0 .. clock /\ (changed[j].signals < viewAt[j] => view[j] = Truth(j))
  BY DEF Views
<1>4. CASE j = i BY <1>1, <1>3, <1>4
<1>5. CASE j # i BY <1>2, <1>3, <1>5
<1> QED BY <1>4, <1>5

(* A request that enters the wait queue changes the signals of its instance. *)
LEMMA EnqueueReadable ==
  ASSUME Readable, NEW i \in All, Enqueue(i)
  PROVE  Readable'
<1> USE DEF Readable
<1>1. clock \in Nat /\ inbox[i] \in Seq(Reqs) /\ inbox[i] # <<>>
  BY RouterAssumption DEF Shapes, Enqueue
<1>2. Head(inbox[i]) \in Reqs /\ Tail(inbox[i]) \in Seq(Reqs) BY <1>1, HeadTail
<1>3. queue' \in [All -> Seq(Reqs)] /\ inbox' \in [All -> Seq(Reqs)]
  BY SMTT(60), <1>2 DEF Enqueue, Shapes
<1>4. changed' \in [All -> [signals : Nat, cache : Nat]]
  BY ZenonT(60), <1>1 DEF Enqueue, Signals, Shapes
<1>5. changed'[i].signals = clock BY DEF Enqueue, Signals, Shapes
<1>6. \A j \in All \ {i} : changed'[j] = changed[j] /\ Truth(j)' = Truth(j)
  BY DEF Enqueue, Signals, Shapes, Truth
<1>7. Views' BY <1>5, <1>6, ViewsStay DEF Enqueue, providerVars
<1>8. Shapes' BY <1>3, <1>4 DEF Shapes, Enqueue, policyVars
<1>9. Members' BY DEF Members, Enqueue, providerVars
<1>10. Copies'
  <2>1. \A j \in All : changed'[j].cache = changed[j].cache
    BY DEF Enqueue, Signals, Shapes
  <2>2. \A j \in All : cached'[j] = cached[j] BY DEF Enqueue
  <2>3. config.delay > 0 => DOMAIN entries \subseteq All BY DEF Members
  <2>4. UNCHANGED <<config, clock, entries, entriesAt>>
    BY DEF Enqueue, providerVars
  <2> QED BY <2>1, <2>2, <2>3, <2>4 DEF Copies
<1> QED BY <1>7, <1>8, <1>9, <1>10

(* The hashes of a prompt. *)
LEMMA HashesTyped ==
  ASSUME NEW r \in Reqs
  PROVE  /\ HashesOf(r) \in Seq(Hashes)
         /\ Len(HashesOf(r)) = Len(Requests[r].prompt)
         /\ Requests[r].prompt \in Seq(Elems(Requests[r].prompt))
         /\ Elems(HashesOf(r)) \subseteq Hashes
<1> DEFINE p == Requests[r].prompt
<1>1. p \in Seq(Elems(p)) /\ \A n \in 1 .. Len(p) : SubSeq(p, 1, n) \in Hashes
  BY RouterAssumption DEF Reqs, IsSequence
<1>2. Len(p) \in Nat
  <2> HIDE DEF p
  <2> QED BY <1>1
<1>3. HashesOf(r) = [n \in 1 .. Len(p) |-> SubSeq(p, 1, n)]
  BY DEF HashesOf, ComputeBlockHashes
<1> HIDE DEF p
<1>4. HashesOf(r) \in Seq(Hashes) /\ Len(HashesOf(r)) = Len(p)
  BY <1>1, <1>2, <1>3
<1>5. Elems(HashesOf(r)) \subseteq Hashes BY <1>4 DEF Elems
<1> QED BY <1>1, <1>4, <1>5 DEF p

(* A request that is scheduled changes the signals and the cache. *)
LEMMA ScheduleReadable ==
  ASSUME Readable, NEW i \in All, Schedule(i)
  PROVE  Readable'
<1> USE DEF Readable
<1>1. clock \in Nat /\ queue[i] \in Seq(Reqs) /\ queue[i] # <<>>
  BY RouterAssumption DEF Shapes, Schedule
<1> DEFINE r == Head(queue[i])
           mine == Elems(HashesOf(r))
<1>2. r \in Reqs /\ Tail(queue[i]) \in Seq(Reqs) BY <1>1, HeadTail
<1>3. queue' \in [All -> Seq(Reqs)] /\ batch' \in [All -> SUBSET Reqs]
  BY SMTT(60), <1>2 DEF Schedule, Shapes
<1>4. changed' \in [All -> [signals : Nat, cache : Nat]]
  BY <1>1 DEF Schedule, Shapes
<1>5. changed'[i].signals = clock /\ changed'[i].cache = clock
  BY DEF Schedule, Shapes
<1>6. \A j \in All \ {i} : changed'[j] = changed[j] /\ Truth(j)' = Truth(j)
  <2> TAKE j \in All \ {i}
  <2>1. changed'[j] = changed[j] /\ queue'[j] = queue[j] /\ batch'[j] = batch[j]
    BY DEF Schedule, Shapes
  <2>2. resident'[j] = resident[j] BY DEF Schedule, Shapes
  <2> QED BY <2>1, <2>2 DEF Truth
<1>7. Views' BY <1>5, <1>6, ViewsStay DEF Schedule, providerVars
<1>8. cached' \in [All -> SUBSET Hashes]
  <2>1. mine \subseteq Hashes BY <1>2, HashesTyped
  <2>2. PICK gone : cached' = [cached EXCEPT ![i] = (@ \cup mine) \ gone]
    BY DEF Schedule
  <2> HIDE DEF mine
  <2> QED BY <2>1, <2>2 DEF Shapes
<1>9. Shapes'
  <2>1. DOMAIN resident' = All BY DEF Schedule, Shapes
  <2>2. UNCHANGED <<config, clock, instances, life, inbox, inFlight, counter, arrived, pending, trace>>
    BY DEF Schedule, policyVars
  <2> QED BY <1>3, <1>4, <1>8, <2>1, <2>2 DEF Shapes
<1>10. Members' BY DEF Members, Schedule, providerVars
<1>11. Copies'
  <2>1. \A j \in All \ {i} : changed'[j] = changed[j] /\ cached'[j] = cached[j]
    BY <1>6 DEF Schedule, Shapes
  <2>2. config.delay > 0 => DOMAIN entries \subseteq All BY DEF Members
  <2>3. UNCHANGED <<config, clock, entries, entriesAt>>
    BY DEF Schedule, providerVars
  <2>4. SUFFICES ASSUME config.delay > 0, NEW j \in DOMAIN entries, changed'[j].cache < entriesAt
                 PROVE  entries[j] = cached'[j]
    BY <2>3 DEF Copies
  <2>5. entriesAt \in 0 .. clock /\ (changed[j].cache < entriesAt => entries[j] = cached[j]) /\ j \in All
    BY <2>2, <2>4 DEF Copies
  <2>6. j # i BY <1>1, <1>5, <2>4, <2>5
  <2> QED BY <2>1, <2>4, <2>5, <2>6
<1> QED BY <1>7, <1>9, <1>10, <1>11

(* A completion may terminate its instance, which loses its cache query. *)
LEMMA CompleteReadable ==
  ASSUME Readable, NEW i \in All, Complete(i)
  PROVE  Readable'
<1> USE DEF Readable
<1>1. clock \in Nat BY RouterAssumption DEF Shapes
<1> DEFINE over == life[i] = "Draining" /\ queue[i] = <<>> /\ batch'[i] = {}
<1>2. batch' \in [All -> SUBSET Reqs] /\ \A j \in All \ {i} : batch'[j] = batch[j]
  <2>1. PICK r \in batch[i] : batch' = [batch EXCEPT ![i] = @ \ {r}]
    BY DEF Complete
  <2>2. batch \in [All -> SUBSET Reqs] BY DEF Shapes
  <2> QED BY <2>1, <2>2
<1>3. inFlight' \in [All -> Int] BY SMTT(60) DEF Complete, Shapes
<1>4. changed' \in [All -> [signals : Nat, cache : Nat]]
  BY ZenonT(60), <1>1 DEF Complete, Signals, Shapes
<1>5. changed'[i].signals = clock /\ \A j \in All : changed'[j].cache = changed[j].cache
  BY DEF Complete, Signals, Shapes
<1>6. \A j \in All \ {i} : changed'[j] = changed[j] /\ Truth(j)' = Truth(j)
  BY <1>2 DEF Complete, Signals, Shapes, Truth
<1>7. Views' BY <1>5, <1>6, ViewsStay DEF Complete
<1>8. life' \in [All -> LifeStates]
      /\ \A j \in All : life'[j] = IF over /\ j = i THEN "Terminated" ELSE life[j]
  BY DEF Complete, Shapes, LifeStates
<1>9. Shapes'
  <2>1. UNCHANGED <<config, clock, instances, inbox, queue, cached, resident, counter, arrived,
                    pending, trace>>
    BY DEF Complete, policyVars
  <2> QED BY <1>2, <1>3, <1>4, <1>8, <2>1 DEF Shapes
<1>10. queries' = IF over THEN queries \ {i} ELSE queries BY DEF Complete
<1>11. entries' = IF over /\ i \in DOMAIN entries
                  THEN [j \in DOMAIN entries \ {i} |-> entries[j]] ELSE entries
  BY DEF Complete
<1>12. UNCHANGED <<config, clock, instances, view, viewAt, entriesAt, cached>>
  BY DEF Complete
<1>13. over => life[i] = "Draining" OBVIOUS
<1> HIDE DEF over
<1>14. Members'
  <2>1. {j \in All : life'[j] # "none"} = {j \in All : life[j] # "none"}
    BY <1>8, <1>13
  <2>2. queries' = {j \in All : life'[j] \notin {"none", "Terminated"}}
    BY <1>8, <1>10, <1>13 DEF Members
  <2>3. config.delay > 0 => DOMAIN entries' = queries'
    BY <1>10, <1>11 DEF Members
  <2> QED BY <1>12, <2>1, <2>2, <2>3 DEF Members
<1>15. Copies'
  <2>1. config.delay > 0 => DOMAIN entries \subseteq All BY DEF Members
  <2>2. \A j \in DOMAIN entries' : j \in DOMAIN entries /\ entries'[j] = entries[j]
    BY <1>11
  <2> QED BY <1>5, <1>12, <2>1, <2>2 DEF Copies
<1> QED BY <1>7, <1>9, <1>14, <1>15

(* Scale-up gives the late instance its view, entry and query together. *)
LEMMA AddInstanceReadable == Readable /\ AddInstance => Readable'
<1> SUFFICES ASSUME Readable, AddInstance PROVE Readable' OBVIOUS
<1> USE DEF Readable
<1>1. Late \in All /\ life[Late] = "none" /\ clock \in Nat
  BY Given, RouterAssumption DEF Shapes, AddInstance
<1>2. UNCHANGED <<config, clock, truthVars, inFlight, entriesAt, policyVars, bucket,
                  arrived, pending, trace, admitted, changed>>
  BY DEF AddInstance
<1>3. instances' = Append(instances, Late) /\ instances \in Seq(All)
  BY DEF AddInstance, Shapes
<1>4. IsSequence(instances) BY <1>3 DEF IsSequence, Elems
<1>5. /\ Len(instances) \in Nat /\ Len(instances') = Len(instances) + 1
      /\ \A n \in 1 .. Len(instances) : instances'[n] = instances[n]
      /\ instances'[Len(instances) + 1] = Late
      /\ Elems(instances') = Elems(instances) \cup {Late}
  BY <1>3, <1>4, Appended
<1>6. Late \notin Elems(instances) BY <1>1 DEF Members
<1>7. Distinct(instances')
  <2> SUFFICES ASSUME NEW m \in 1 .. Len(instances) + 1, NEW n \in 1 .. Len(instances) + 1,
                      instances'[m] = instances'[n]
               PROVE  m = n
    BY <1>5 DEF Distinct
  <2>1. \A k \in 1 .. Len(instances) : instances[k] # Late BY <1>6 DEF Elems
  <2>2. m \in 1 .. Len(instances) \/ m = Len(instances) + 1 BY <1>5
  <2>3. n \in 1 .. Len(instances) \/ n = Len(instances) + 1 BY <1>5
  <2>4. CASE m \in 1 .. Len(instances) /\ n \in 1 .. Len(instances)
    BY <1>5, <2>4 DEF Distinct, Shapes
  <2> QED BY <1>5, <2>1, <2>2, <2>3, <2>4
<1>8. life' \in [All -> LifeStates] /\ \A i \in All : life'[i] = IF i = Late THEN "Loading" ELSE life[i]
  BY DEF AddInstance, Shapes, LifeStates
<1>9. Shapes'
  <2>1. instances' \in Seq(All) BY <1>1, <1>3
  <2> QED BY <1>2, <1>7, <1>8, <2>1 DEF Shapes, truthVars, policyVars
<1>10. /\ view' = Put(view, Late, NoView) /\ viewAt' = Put(viewAt, Late, 0)
       /\ entries' = IF config.delay > 0 THEN Put(entries, Late, cached[Late]) ELSE entries
       /\ queries' = queries \cup {Late}
  BY DEF AddInstance
<1>11. Members'
  <2>1. Elems(instances') = {i \in All : life'[i] # "none"}
    BY <1>1, <1>5, <1>8 DEF Members
  <2>2. queries' = {i \in All : life'[i] \notin {"none", "Terminated"}}
    BY <1>1, <1>8, <1>10 DEF Members
  <2>3. DOMAIN view' = Elems(instances') /\ DOMAIN viewAt' = Elems(instances')
    BY <1>5, <1>10 DEF Members, Put
  <2>4. config.delay > 0 => DOMAIN entries' = queries'
    BY <1>10 DEF Members, Put
  <2> QED BY <1>2, <2>1, <2>2, <2>3, <2>4 DEF Members
<1>12. \A i : Truth(i)' = Truth(i) BY <1>2 DEF Truth, truthVars
<1>13. Views'
  <2> SUFFICES ASSUME NEW i \in Elems(instances')
               PROVE  /\ viewAt'[i] \in 0 .. clock
                      /\ changed[i].signals < viewAt'[i] => view'[i] = Truth(i)
    BY <1>2, <1>12 DEF Views
  <2>1. CASE i = Late
    <3>1. viewAt'[i] = 0 /\ changed[i].signals \in Nat
      BY <1>1, <1>10, <2>1 DEF Put, Shapes
    <3> QED BY <1>1, <3>1
  <2>2. CASE i # Late
    <3>1. i \in Elems(instances) BY <1>5, <2>2
    <3>2. viewAt'[i] = viewAt[i] /\ view'[i] = view[i]
      BY <1>10, <2>2, <3>1 DEF Put, Members
    <3> QED BY <3>1, <3>2 DEF Views
  <2> QED BY <2>1, <2>2
<1>14. Copies'
  <2> SUFFICES ASSUME config.delay > 0, NEW i \in DOMAIN entries', changed[i].cache < entriesAt
               PROVE  entriesAt \in 0 .. clock /\ entries'[i] = cached[i]
    BY <1>2 DEF Copies, truthVars
  <2> QED BY <1>10 DEF Put, Copies
<1> QED BY <1>9, <1>11, <1>13, <1>14

(* A change of lifecycle between live states disturbs no table. *)
LEMMA LifeReadable ==
  ASSUME Readable, NEW i \in All, life[i] \in {"Loading", "Active"},
         NEW t \in {"Active", "Draining"}, life' = [life EXCEPT ![i] = t],
         UNCHANGED <<config, clock, instances, truthVars, inFlight, providerVars, policyVars,
                     bucket, arrived, pending, trace, admitted, changed>>
  PROVE  Readable'
<1> USE DEF Readable
<1>1. life' \in [All -> LifeStates] /\ \A j \in All : life'[j] = IF j = i THEN t ELSE life[j]
  BY DEF Shapes, LifeStates
<1>2. Shapes' BY <1>1 DEF Shapes, truthVars, policyVars
<1>3. Members'
  <2>1. {j \in All : life'[j] # "none"} = {j \in All : life[j] # "none"}
    BY <1>1
  <2>2. {j \in All : life'[j] \notin {"none", "Terminated"}}
          = {j \in All : life[j] \notin {"none", "Terminated"}}
    BY <1>1
  <2> QED BY <2>1, <2>2 DEF Members, providerVars
<1>4. Views' BY DEF Views, Truth, truthVars, providerVars
<1>5. Copies' BY DEF Copies, truthVars, providerVars
<1> QED BY <1>2, <1>3, <1>4, <1>5

(* The late instance becomes routable. *)
LEMMA InstanceLoadedReadable == Readable /\ InstanceLoaded => Readable'
<1> SUFFICES ASSUME Readable, InstanceLoaded PROVE Readable' OBVIOUS
<1>1. Late \in All /\ life[Late] = "Loading" BY Given DEF InstanceLoaded
<1>2. life' = [life EXCEPT ![Late] = "Active"]
      /\ UNCHANGED <<config, clock, instances, truthVars, inFlight, providerVars, policyVars,
                     bucket, arrived, pending, trace, admitted, changed>>
  BY DEF InstanceLoaded
<1> QED BY <1>1, <1>2, LifeReadable

(* A drained instance stays in every table. *)
LEMMA DrainReadable ==
  ASSUME Readable, NEW i \in All, Drain(i)
  PROVE  Readable'
<1>1. life[i] = "Active" BY DEF Drain, IsRoutable
<1>2. life' = [life EXCEPT ![i] = "Draining"]
      /\ UNCHANGED <<config, clock, instances, truthVars, inFlight, providerVars, policyVars,
                     bucket, arrived, pending, trace, admitted, changed>>
  BY DEF Drain
<1> QED BY <1>1, <1>2, LifeReadable

(* Time passes: what was read before stays as good as it was. *)
LEMMA TickReadable == Readable /\ Tick => Readable'
<1> SUFFICES ASSUME Readable, Tick PROVE Readable' OBVIOUS
<1> USE DEF Readable
<1>1. clock \in 0 .. Horizon /\ clock' = clock + 1 /\ clock' \in 0 .. Horizon /\ clock \in Nat
  BY RouterAssumption DEF Shapes, Tick
<1>2. UNCHANGED <<config, instances, life, truthVars, inFlight, providerVars, policyVars,
                  bucket, arrived, pending, trace, admitted, changed>>
  BY DEF Tick
<1>3. Shapes' BY <1>1, <1>2 DEF Shapes, truthVars, policyVars
<1>4. Members' BY <1>2 DEF Members, providerVars
<1>5. Views' BY <1>1, <1>2 DEF Views, Truth, truthVars, providerVars
<1>6. Copies' BY <1>1, <1>2 DEF Copies, truthVars, providerVars
<1> QED BY <1>3, <1>4, <1>5, <1>6

(* Nothing happens. *)
LEMMA StillReadable == Readable /\ UNCHANGED vars => Readable'
<1> SUFFICES ASSUME Readable, UNCHANGED vars PROVE Readable' OBVIOUS
<1> USE DEF vars, truthVars, providerVars, policyVars, Readable
<1>1. Shapes' BY DEF Shapes
<1>2. Members' BY DEF Members
<1>3. Views' BY DEF Views, Truth
<1>4. Copies' BY DEF Copies
<1> QED BY <1>1, <1>2, <1>3, <1>4

(* The provider's tables, views and copies in every reachable state: who has *)
(* a view and an entry, and that one read after the last change of an        *)
(* instance is what the instance holds (buildRouterState, Snapshot,          *)
(* RefreshCacheIfNeeded, AddInstance, removal at termination).               *)
THEOREM ProviderInvariant == Spec => []Readable
<1>1. Init => Readable BY InitReadable
<1>2. Readable /\ [Next]_vars => Readable'
  <2> SUFFICES ASSUME Readable, [Next]_vars PROVE Readable' OBVIOUS
  <2>1. CASE Admission BY <2>1, AdmissionReadable
  <2>2. CASE Routing BY <2>2, RoutingReadable
  <2>3. CASE AddInstance BY <2>3, AddInstanceReadable
  <2>4. CASE InstanceLoaded BY <2>4, InstanceLoadedReadable
  <2>5. CASE Tick BY <2>5, TickReadable
  <2>6. ASSUME NEW i \in All, Enqueue(i) \/ Schedule(i) \/ Complete(i) \/ Drain(i)
        PROVE  Readable'
    BY <2>6, EnqueueReadable, ScheduleReadable, CompleteReadable, DrainReadable
  <2>7. CASE UNCHANGED vars BY <2>7, StillReadable
  <2> QED BY <2>1, <2>2, <2>3, <2>4, <2>5, <2>6, <2>7 DEF Next
<1> QED BY <1>1, <1>2, PTL DEF Spec

(* Steps other than Routing record no decision. *)
LEMMA OnlyRoutingDecides ==
  ASSUME [Next]_vars, trace' # trace
  PROVE  Routing
<1>1. ~Admission BY DEF Admission
<1>2. ~AddInstance /\ ~InstanceLoaded /\ ~Tick
  BY DEF AddInstance, InstanceLoaded, Tick
<1>3. \A i \in All : ~Enqueue(i) /\ ~Schedule(i) /\ ~Complete(i) /\ ~Drain(i)
  BY DEF Enqueue, Schedule, Complete, Drain
<1>4. ~UNCHANGED vars BY DEF vars
<1> QED BY <1>1, <1>2, <1>3, <1>4 DEF Next

(* A decision is recorded with its candidates. *)
LEMMA DecisionTaken ==
  ASSUME Readable, Routing, trace' # trace
  PROVE  LET cands == Candidates(Head(pending).req)
         IN cands # <<>> /\ Look(cands) /\ trace'[Len(trace')].cands = cands
<1> DEFINE cands == Candidates(Head(pending).req)
<1>1. Look(cands) BY DEF Routing
<1>2. PICK x : trace' = Append(trace, x) /\ x.cands = cands /\ cands # <<>>
  BY DEF Routing
<1>3. IsSequence(trace) BY DEF Readable, Shapes
<1>4. trace'[Len(trace')] = x BY <1>2, <1>3, Appended
<1> QED BY <1>1, <1>2, <1>4

(* Every decision is made on views of every routable instance that are no    *)
(* older than their intervals, and the instances that answer cache queries   *)
(* are those that are not terminated.                                        *)
THEOREM RouterViewsSound == Spec => ViewsSound
<1>1. Readable => QueriesCoverRoutable
  BY DEF Readable, Members, QueriesCoverRoutable, IsRoutable
<1>2. Readable /\ [Next]_vars =>
        [trace' # trace =>
          \A i \in Elems(trace'[Len(trace')].cands) :
              /\ clock - changed[i].signals >= config.refresh => view'[i] = Truth(i)
              /\ (config.delay > 0 /\ clock - changed[i].cache >= config.delay)
                    => entries'[i] = cached[i]]_vars
  <2> SUFFICES ASSUME Readable, [Next]_vars, trace' # trace,
                      NEW i \in Elems(trace'[Len(trace')].cands)
               PROVE  /\ clock - changed[i].signals >= config.refresh => view'[i] = Truth(i)
                      /\ (config.delay > 0 /\ clock - changed[i].cache >= config.delay)
                            => entries'[i] = cached[i]
    OBVIOUS
  <2>1. Routing BY OnlyRoutingDecides
  <2> DEFINE cands == Candidates(Head(pending).req)
  <2>2. Look(cands) /\ i \in Elems(cands) BY <2>1, DecisionTaken
  <2>3. i \in All /\ life[i] = "Active" /\ i \in Elems(instances)
    BY <2>2, CandidatesShape DEF Readable
  <2> HIDE DEF cands
  <2>4. i \in DOMAIN view /\ i \in DOMAIN viewAt
        /\ (config.delay > 0 => i \in DOMAIN entries)
    BY <2>3 DEF Readable, Members
  <2>5. clock \in Nat /\ config.refresh \in Nat /\ config.delay \in Nat
        /\ changed[i].signals \in Nat /\ changed[i].cache \in Nat
    BY SMTT(60), <2>3, Given, RouterAssumption DEF Readable, Shapes
  <2>6. clock - changed[i].signals >= config.refresh => view'[i] = Truth(i)
    <3>1. viewAt[i] \in 0 .. clock /\ (changed[i].signals < viewAt[i] => view[i] = Truth(i))
      BY <2>3 DEF Readable, Views
    <3>2. view'[i] = IF config.refresh = 0 \/ clock - viewAt[i] >= config.refresh
                     THEN Truth(i) ELSE view[i]
      BY <2>2, <2>4 DEF Look, Refreshed, shouldRefresh
    <3> QED BY SMTT(60), <2>5, <3>1, <3>2
  <2>7. (config.delay > 0 /\ clock - changed[i].cache >= config.delay)
          => entries'[i] = cached[i]
    <3> SUFFICES ASSUME config.delay > 0, clock - changed[i].cache >= config.delay
                 PROVE  entries'[i] = cached[i]
      OBVIOUS
    <3>1. entriesAt \in 0 .. clock /\ (changed[i].cache < entriesAt => entries[i] = cached[i])
      BY <2>4 DEF Readable, Copies
    <3>2. entries'[i] = IF clock - entriesAt >= config.delay THEN cached[i] ELSE entries[i]
      BY <2>2, <2>4 DEF Look, FreshEntries, CacheDue
    <3> QED BY SMTT(60), <2>5, <3>1, <3>2
  <2> QED BY <2>6, <2>7
<1> QED BY <1>1, <1>2, ProviderInvariant, PTL DEF Spec, ViewsSound, ViewsRecent

------------------------------
(* Numbers: extremes, sums, quotients. *)

(* A finite set of integers has a least and a greatest element. *)
LEMMA Extremes ==
  ASSUME NEW S, S \subseteq Int, IsFiniteSet(S), S # {}
  PROVE  /\ \E x \in S : \A y \in S : x >= y
         /\ \E x \in S : \A y \in S : x <= y
<1> DEFINE OK(R) == /\ \E x \in R : \A y \in R : x >= y
                    /\ \E x \in R : \A y \in R : x <= y
           n == Cardinality(S)
           Good == {k \in 0 .. n : \A R \in SUBSET Int :
                       IsFiniteSet(R) /\ Cardinality(R) = k /\ R # {} => OK(R)}
<1>1. n \in Nat BY FS_CardinalityType
<1>2. 0 \in Good
  <2>1. \A R \in SUBSET Int : IsFiniteSet(R) /\ Cardinality(R) = 0 => R = {}
    BY FS_EmptySet
  <2>2. 0 \in 0 .. n BY <1>1
  <2> HIDE DEF n, OK
  <2> QED BY <2>1, <2>2
<1>3. ASSUME NEW k \in 1 .. n, k - 1 \in Good PROVE k \in Good
  <2>1. k \in 0 .. n /\ k \in Nat BY <1>1
  <2>2. SUFFICES ASSUME NEW R \in SUBSET Int, IsFiniteSet(R), Cardinality(R) = k, R # {}
                 PROVE  OK(R)
    BY <2>1
  <2>3. PICK z \in R : TRUE BY <2>2
  <2> DEFINE Q == R \ {z}
  <2>4. IsFiniteSet(Q) /\ Cardinality(Q) = k - 1
    BY <2>2, <2>3, FS_RemoveElement
  <2>5. R = Q \cup {z} /\ Q \in SUBSET Int /\ z \in Int BY <2>3
  <2>6. Q # {} => OK(Q) BY <1>3, <2>4, <2>5
  <2> HIDE DEF Q
  <2>7. CASE Q = {} BY <2>5, <2>7
  <2>8. CASE Q # {}
    <3>1. PICK a \in Q : \A y \in Q : a >= y BY <2>6, <2>8
    <3>2. PICK b \in Q : \A y \in Q : b <= y BY <2>6, <2>8
    <3>3. \E x \in R : \A y \in R : x >= y
      <4>1. CASE a >= z BY <2>5, <3>1, <4>1
      <4>2. CASE ~(a >= z)
        <5>1. \A y \in Q : z >= y BY <2>5, <3>1, <4>2
        <5> QED BY <2>5, <5>1
      <4> QED BY <4>1, <4>2
    <3>4. \E x \in R : \A y \in R : x <= y
      <4>1. CASE b <= z BY <2>5, <3>2, <4>1
      <4>2. CASE ~(b <= z)
        <5>1. \A y \in Q : z <= y BY <2>5, <3>2, <4>2
        <5> QED BY <2>5, <5>1
      <4> QED BY <4>1, <4>2
    <3> QED BY <3>3, <3>4
  <2> QED BY <2>7, <2>8
<1>4. \A k \in 0 .. n : k \in Good
  <2> HIDE DEF Good, n
  <2> QED BY <1>1, <1>2, <1>3, StepsInduction
<1>5. n \in Good
  <2>1. n \in 0 .. n BY <1>1
  <2> HIDE DEF Good, n
  <2> QED BY <1>4, <2>1
<1> QED BY <1>5

(* Max and Min are these. *)
LEMMA MaxMin ==
  ASSUME NEW S, S \subseteq Int, IsFiniteSet(S), S # {}
  PROVE  /\ Max(S) \in S /\ \A y \in S : Max(S) >= y
         /\ Min(S) \in S /\ \A y \in S : Min(S) <= y
<1>1. /\ \E x \in S : \A y \in S : x >= y
      /\ \E x \in S : \A y \in S : x <= y
  BY Extremes
<1>2. Max(S) \in S /\ \A y \in S : Max(S) >= y BY <1>1 DEF Max
<1>3. Min(S) \in S /\ \A y \in S : Min(S) <= y BY <1>1 DEF Min
<1> QED BY <1>2, <1>3

(* Of the values of a function on a nonempty finite set. *)
LEMMA MaxMinOf ==
  ASSUME NEW D, IsFiniteSet(D), D # {}, NEW raw, DOMAIN raw = D,
         \A i \in D : raw[i] \in Int
  PROVE  LET R == {raw[i] : i \in D}
         IN  /\ Max(R) \in Int /\ Max(R) \in R /\ \A i \in D : raw[i] <= Max(R)
             /\ Min(R) \in Int /\ Min(R) \in R /\ \A i \in D : Min(R) <= raw[i]
             /\ Min(R) <= Max(R)
<1> DEFINE R == {raw[i] : i \in D}
           f == [i \in D |-> raw[i]]
<1>1. f \in Surjection(D, R) BY DEF Surjection
<1>2. IsFiniteSet(R)
  <2> HIDE DEF f, R
  <2> QED BY <1>1, FS_Surjection
<1>3. R \subseteq Int /\ R # {} /\ \A i \in D : raw[i] \in R OBVIOUS
<1>4. /\ Max(R) \in R /\ \A y \in R : Max(R) >= y
      /\ Min(R) \in R /\ \A y \in R : Min(R) <= y
  <2> HIDE DEF R
  <2> QED BY <1>2, <1>3, MaxMin
<1> HIDE DEF R
<1>5. Max(R) \in Int /\ Min(R) \in Int BY <1>3, <1>4
<1>6. (\A i \in D : raw[i] <= Max(R)) /\ (\A i \in D : Min(R) <= raw[i]) /\ Min(R) <= Max(R)
  BY <1>3, <1>4, <1>5
<1> QED BY <1>4, <1>5, <1>6 DEF R

(* Of two numbers. *)
LEMMA MaxMinPair ==
  ASSUME NEW x \in Int, NEW y \in Int
  PROVE  /\ Max({x, y}) = IF x >= y THEN x ELSE y
         /\ Min({x, y}) = IF x <= y THEN x ELSE y
<1> DEFINE S == {x, y}
<1>1. S \subseteq Int /\ S # {} /\ IsFiniteSet(S)
  <2>1. IsFiniteSet({x}) BY FS_Singleton
  <2>2. IsFiniteSet({x} \cup {y}) /\ S = {x} \cup {y} BY <2>1, FS_AddElement
  <2> QED BY <2>2
<1>2. /\ Max(S) \in S /\ \A b \in S : Max(S) >= b
      /\ Min(S) \in S /\ \A b \in S : Min(S) <= b
  <2> HIDE DEF S
  <2> QED BY <1>1, MaxMin
<1>3. Max({x, y}) = IF x >= y THEN x ELSE y BY <1>2
<1>4. Min({x, y}) = IF x <= y THEN x ELSE y BY <1>2
<1> QED BY <1>3, <1>4

(* Quotients are integers and do not exceed what they are compared with. *)
LEMMA Quotient ==
  ASSUME NEW a \in Int, NEW b \in Nat \ {0}
  PROVE  /\ a \div b \in Int
         /\ a = b * (a \div b) + (a % b) /\ a % b \in 0 .. b - 1
  OBVIOUS

\* f is the recursion that defines Total.
TotalSteps(f, s) ==
    /\ f[0] = 0
    /\ \A k \in 1 .. Len(s) : f[k] = f[k - 1] + s[k]
    /\ Total(s) = f[Len(s)]

(* It is defined. *)
LEMMA TotalRun ==
  ASSUME NEW s \in Seq(Int)
  PROVE  \E f \in [0 .. Len(s) -> Int] : TotalSteps(f, s)
<1> DEFINE n == Len(s)
           T == [k \in 0 .. n |-> Int]
           F == [k \in 1 .. n |-> [t \in Int |-> t + s[k]]]
           Step(g, k) == IF k = 0 THEN 0 ELSE g[k - 1] + s[k]
           g == CHOOSE h : h = [k \in 0 .. n |-> Step(h, k)]
<1>1. n \in Nat /\ \A k \in 1 .. n : s[k] \in Int OBVIOUS
<1>2. \A k \in 1 .. n : \A t \in Int : F[k][t] \in Int BY <1>1
<1>3. StepsStay(n, Int, T, F, 0)
  <2>1. \A k \in 0 .. n : T[k] = Int OBVIOUS
  <2>2. \A k \in 1 .. n : k - 1 \in 0 .. n /\ k \in 0 .. n BY <1>1
  <2> HIDE DEF T, F, n
  <2> QED BY <1>1, <1>2, <2>1, <2>2 DEF StepsStay
<1>4. PICK f \in [0 .. n -> Int] : RunOf(n, T, F, 0, f)
  <2> HIDE DEF n, T, F
  <2> QED BY <1>1, <1>3, StepsDefined
<1>5. f[0] = 0 BY <1>4 DEF RunOf
<1>6. \A k \in 1 .. n : f[k] = f[k - 1] + s[k]
  <2> TAKE k \in 1 .. n
  <2>1. f[k] = F[k][f[k - 1]]
    <3> HIDE DEF F, T
    <3> QED BY <1>4 DEF RunOf
  <2>2. f[k - 1] \in Int
    <3>1. k - 1 \in 0 .. n BY <1>1
    <3> HIDE DEF T, F, n
    <3> QED BY <1>4, <3>1
  <2> QED BY <2>1, <2>2
<1>7. f = [k \in 0 .. n |-> Step(f, k)]
  <2>1. ASSUME NEW k \in 0 .. n PROVE f[k] = Step(f, k)
    <3>1. CASE k = 0 BY <1>5, <3>1
    <3>2. CASE k # 0
      <4>1. k \in 1 .. n BY <1>1, <3>2
      <4> QED BY <1>6, <3>2, <4>1
    <3> QED BY <3>1, <3>2
  <2>2. f = [k \in 0 .. n |-> f[k]] OBVIOUS
  <2> HIDE DEF Step
  <2> QED BY <2>1, <2>2
<1>8. g = [k \in 0 .. n |-> Step(g, k)]
  <2> HIDE DEF Step, n
  <2> QED BY <1>7, Zenon
<1>9. \A k \in 0 .. n : g[k] = f[k]
  <2> DEFINE Same == {k \in 0 .. n : g[k] = f[k]}
  <2>0. \A k \in 0 .. n : g[k] = Step(g, k)
    <3> HIDE DEF g, Step
    <3> QED BY <1>8
  <2> HIDE DEF g
  <2>1. 0 \in Same BY <1>1, <1>5, <2>0
  <2>2. ASSUME NEW k \in 1 .. n, k - 1 \in Same PROVE k \in Same
    <3>1. k \in 0 .. n /\ k # 0 /\ g[k - 1] = f[k - 1] BY <2>2, <1>1
    <3>2. g[k] = Step(g, k) BY <2>0, <3>1
    <3> QED BY <1>6, <3>1, <3>2
  <2>3. \A k \in 0 .. n : k \in Same
    <3> HIDE DEF Same, n
    <3> QED BY <1>1, <2>1, <2>2, StepsInduction
  <2> QED BY <2>3
<1>10. Total(s) = g[n] BY DEF Total
<1>11. f \in [0 .. n -> Int] /\ Total(s) = f[n]
  <2> HIDE DEF g, T, F
  <2> QED BY <1>1, <1>4, <1>9, <1>10
<1> HIDE DEF g, T, F
<1> QED BY <1>5, <1>6, <1>11 DEF TotalSteps

(* A sum is an integer; that of one number is the number. *)
LEMMA TotalInt ==
  ASSUME NEW s \in Seq(Int)
  PROVE  /\ Total(s) \in Int
         /\ Len(s) = 1 => Total(s) = s[1]
<1>1. PICK f \in [0 .. Len(s) -> Int] : TotalSteps(f, s) BY TotalRun, Zenon
<1>0. TotalSteps(f, s)!1 /\ TotalSteps(f, s)!2 /\ TotalSteps(f, s)!3
  BY <1>1 DEF TotalSteps
<1>2. Len(s) \in Nat /\ Len(s) \in 0 .. Len(s) OBVIOUS
<1>3. Total(s) \in Int BY <1>0, <1>2
<1>4. ASSUME Len(s) = 1 PROVE Total(s) = s[1]
  <2>1. 1 \in 1 .. Len(s) /\ s[1] \in Int BY <1>4
  <2>2. f[1] = f[0] + s[1] BY <1>0, <2>1
  <2> QED BY <1>0, <1>4, <2>1, <2>2
<1> QED BY <1>3, <1>4

------------------------------
(* The scorers. *)

\* What a policy sees: a nonempty set of candidates, each with its counts.
Measured(s) ==
    /\ IsFiniteSet(DOMAIN s) /\ DOMAIN s # {}
    /\ \A i \in DOMAIN s : /\ s[i].queue \in Nat /\ s[i].batch \in Nat
                           /\ s[i].used \in Nat /\ s[i].inFlight \in Nat
\* Every candidate has a score.
Whole(score, s) == DOMAIN score = DOMAIN s /\ \A i \in DOMAIN s : score[i] \in Int

(* The two min-max normalisations. *)
LEMMA Normalised ==
  ASSUME NEW s, Measured(s), NEW raw, Whole(raw, s)
  PROVE  Whole(LowestBest(raw), s) /\ Whole(HighestBest(raw), s)
<1> DEFINE D == DOMAIN s
           R == {raw[i] : i \in D}
           lo == Min(R)
           hi == Max(R)
<1>1. IsFiniteSet(D) /\ D # {} /\ DOMAIN raw = D /\ \A i \in D : raw[i] \in Int
  BY DEF Measured, Whole
<1>2. lo \in Int /\ hi \in Int /\ lo <= hi
  <2> HIDE DEF D
  <2> QED BY <1>1, MaxMinOf
<1>3. Scale \in Int BY DEF Scale
<1> HIDE DEF lo, hi
<1>4. LowestBest(raw) = [i \in D |-> IF hi = lo THEN Scale ELSE ((hi - raw[i]) * Scale) \div (hi - lo)]
  BY <1>1 DEF LowestBest, lo, hi
<1>5. HighestBest(raw) = [i \in D |-> IF hi = lo THEN Scale ELSE ((raw[i] - lo) * Scale) \div (hi - lo)]
  BY <1>1 DEF HighestBest, lo, hi
<1>6. ASSUME NEW i \in D, hi # lo
      PROVE  ((hi - raw[i]) * Scale) \div (hi - lo) \in Int /\ ((raw[i] - lo) * Scale) \div (hi - lo) \in Int
  <2>1. hi - lo \in Nat \ {0} BY <1>2, <1>6
  <2>2. (hi - raw[i]) * Scale \in Int /\ (raw[i] - lo) * Scale \in Int
    BY <1>1, <1>2, <1>3
  <2> QED BY <2>1, <2>2, Quotient
<1> HIDE DEF D
<1> QED BY <1>3, <1>4, <1>5, <1>6 DEF Whole, D

(* How many blocks match in a row from the first one. *)
LEMMA MatchBounded ==
  ASSUME NEW A, NEW hashes \in Seq(A), NEW held
  PROVE  MatchLength(hashes, held) \in 0 .. Len(hashes)
<1> DEFINE OK(n) == /\ \A k \in 1 .. n : hashes[k] \in held
                    /\ n = Len(hashes) \/ hashes[n + 1] \notin held
           Miss == {n \in 1 .. Len(hashes) : hashes[n] \notin held}
<1>1. Len(hashes) \in Nat OBVIOUS
<1>2. \E n \in 0 .. Len(hashes) : OK(n)
  <2>1. CASE Miss = {}
    <3>1. OK(Len(hashes)) BY <2>1
    <3>2. Len(hashes) \in 0 .. Len(hashes) BY <1>1
    <3> HIDE DEF OK
    <3> QED BY <3>1, <3>2
  <2>2. CASE Miss # {}
    <3>1. Miss \subseteq Nat OBVIOUS
    <3>2. PICK n \in Miss : \A y \in Miss : n <= y
      <4> HIDE DEF Miss
      <4> QED BY <2>2, <3>1, LeastNat
    <3>3. n \in 1 .. Len(hashes) /\ hashes[n] \notin held /\ n - 1 \in 0 .. Len(hashes)
      BY <1>1, <3>2
    <3>4. \A k \in 1 .. n - 1 : hashes[k] \in held
      <4> TAKE k \in 1 .. n - 1
      <4>1. k \in 1 .. Len(hashes) /\ ~(n <= k) BY <1>1, <3>3
      <4>2. k \notin Miss
        <5> HIDE DEF Miss
        <5> QED BY <3>2, <4>1
      <4> QED BY <4>1, <4>2
    <3>5. OK(n - 1) BY <3>3, <3>4
    <3> HIDE DEF OK, Miss
    <3> QED BY <3>3, <3>5
  <2> QED BY <2>1, <2>2
<1>3. MatchLength(hashes, held) = CHOOSE n \in 0 .. Len(hashes) : OK(n)
  BY DEF MatchLength
<1> HIDE DEF OK
<1> QED BY <1>2, <1>3

(* The scorers that look at the counts. *)
LEMMA CountScores ==
  ASSUME NEW s, Measured(s), NEW adapter
  PROVE  /\ Whole(scoreVLLMDP(s), s) /\ Whole(scoreQueueDepth(s), s)
         /\ Whole(scoreRunningRequests(s), s) /\ Whole(scoreKVUtilization(s), s)
         /\ Whole(scoreLoadBalance(s), s) /\ Whole(scoreActiveRequests(s), s)
         /\ Whole(scoreLoadAware(s), s) /\ Whole(scoreLoRAAffinity(adapter, s), s)
<1> DEFINE D == DOMAIN s
<1>1. IsFiniteSet(D) /\ D # {}
      /\ \A i \in D : /\ s[i].queue \in Nat /\ s[i].batch \in Nat
                      /\ s[i].used \in Nat /\ s[i].inFlight \in Nat
  BY DEF Measured
<1>2. Scale \in Nat BY DEF Scale
<1>3. KVBlocks \in Nat \ {0} /\ LoadAwareThreshold \in Nat \ {0}
  BY ScorerAssumption
<1>4. Whole(scoreVLLMDP(s), s) /\ Whole(scoreQueueDepth(s), s) /\ Whole(scoreRunningRequests(s), s)
  <2>1. Whole([i \in D |-> 4 * s[i].queue + s[i].batch], s) BY <1>1 DEF Whole
  <2>2. Whole([i \in D |-> s[i].queue], s) /\ Whole([i \in D |-> s[i].batch], s)
    BY <1>1 DEF Whole
  <2> QED BY <2>1, <2>2, Normalised DEF scoreVLLMDP, scoreQueueDepth, scoreRunningRequests
<1>5. Whole(scoreKVUtilization(s), s)
  <2>1. \A i \in D : (KVBlocks - s[i].used) * Scale \in Int BY <1>1, <1>2, <1>3
  <2>2. \A i \in D : ((KVBlocks - s[i].used) * Scale) \div KVBlocks \in Int
    BY <1>3, <2>1, Quotient
  <2> QED BY <2>2 DEF scoreKVUtilization, Whole
<1>6. Whole(scoreLoadBalance(s), s)
  <2>1. \A i \in D : 1 + EffectiveLoad(s[i]) \in Nat \ {0}
    BY <1>1 DEF EffectiveLoad
  <2>2. \A i \in D : Scale \div (1 + EffectiveLoad(s[i])) \in Int
    BY <1>2, <2>1, Quotient
  <2> QED BY <2>2 DEF scoreLoadBalance, Whole
<1>7. Whole(scoreActiveRequests(s), s)
  <2> DEFINE raw == [i \in D |-> s[i].inFlight]
             most == Max({raw[i] : i \in D})
  <2>1. DOMAIN raw = D /\ \A i \in D : raw[i] \in Int /\ raw[i] = s[i].inFlight
    BY <1>1
  <2>2. most \in Int /\ \A i \in D : raw[i] <= most
    <3> HIDE DEF raw, D
    <3> QED BY <1>1, <2>1, MaxMinOf
  <2>3. most = Max({s[i].inFlight : i \in D}) OBVIOUS
  <2> HIDE DEF most, raw
  <2>4. ASSUME NEW i \in D, s[i].inFlight # 0
        PROVE  ((most - s[i].inFlight) * Scale) \div most \in Int
    <3>1. most \in Nat \ {0} BY <1>1, <2>1, <2>2, <2>4
    <3>2. (most - s[i].inFlight) * Scale \in Int BY <1>1, <1>2, <2>2
    <3> QED BY <3>1, <3>2, Quotient
  <2>5. scoreActiveRequests(s) = [i \in D |-> IF s[i].inFlight = 0 THEN Scale
                                    ELSE ((most - s[i].inFlight) * Scale) \div most]
    BY <2>3 DEF scoreActiveRequests
  <2> QED BY <1>2, <2>4, <2>5 DEF Whole
<1>8. Whole(scoreLoadAware(s), s)
  <2>1. ASSUME NEW i \in D
        PROVE  ((LoadAwareThreshold - Min({s[i].queue, LoadAwareThreshold})) * Scale)
                  \div (2 * LoadAwareThreshold) \in Int
    <3>1. Min({s[i].queue, LoadAwareThreshold}) \in Int
      <4> DEFINE q == s[i].queue
      <4>1. q \in Int /\ LoadAwareThreshold \in Int BY <1>1, <1>3
      <4>2. Min({q, LoadAwareThreshold}) = IF q <= LoadAwareThreshold THEN q ELSE LoadAwareThreshold
        <5> HIDE DEF q
        <5> QED BY <4>1, MaxMinPair
      <4> QED BY <4>1, <4>2
    <3>2. (LoadAwareThreshold - Min({s[i].queue, LoadAwareThreshold})) * Scale \in Int
      BY <1>2, <1>3, <3>1
    <3>3. 2 * LoadAwareThreshold \in Nat \ {0} BY <1>3
    <3> QED BY <3>2, <3>3, Quotient
  <2> QED BY <2>1 DEF scoreLoadAware, Whole
<1>9. Whole(scoreLoRAAffinity(adapter, s), s)
  <2>1. Whole([i \in D |-> IF adapter \in s[i].resident THEN 1 ELSE 0], s)
    BY DEF Whole
  <2>2. Whole(HighestBest([i \in D |-> IF adapter \in s[i].resident THEN 1 ELSE 0]), s)
    BY <2>1, Normalised
  <2>3. Whole([i \in D |-> Scale], s) BY <1>2 DEF Whole
  <2> QED BY <2>2, <2>3 DEF scoreLoRAAffinity
<1> QED BY <1>4, <1>5, <1>6, <1>7, <1>8, <1>9

(* The two scorers that count cached blocks. *)
LEMMA CacheScores ==
  ASSUME NEW s, Measured(s), NEW A, NEW hashes \in Seq(A), NEW ix,
         NEW hits, Whole(hits, s)
  PROVE  Whole(scorePrefixAffinity(hashes, ix, s), s) /\ Whole(scorePrecisePrefix(hits, s), s)
<1>1. Whole(scorePrecisePrefix(hits, s), s)
  <2>1. Whole([i \in DOMAIN s |-> hits[i]], s) BY DEF Whole
  <2> QED BY <2>1, Normalised DEF scorePrecisePrefix
<1>2. ASSUME NEW i \in DOMAIN s, hashes # <<>>
      PROVE  (MatchLength(hashes, ix[i].lookup) * Scale) \div Len(hashes) \in Int
  <2> DEFINE m == MatchLength(hashes, ix[i].lookup)
  <2>1. m \in 0 .. Len(hashes) BY MatchBounded
  <2> HIDE DEF m
  <2>2. Len(hashes) \in Nat \ {0} /\ m \in Int BY <1>2, <2>1
  <2>3. m * Scale \in Int BY <2>2 DEF Scale
  <2>4. (m * Scale) \div Len(hashes) \in Int BY <2>2, <2>3, Quotient
  <2> QED BY <2>4 DEF m
<1>3. Whole(scorePrefixAffinity(hashes, ix, s), s)
  BY <1>2 DEF scorePrefixAffinity, Whole
<1> QED BY <1>1, <1>3

(* A sequence without repetitions is as long as it has elements. *)
LEMMA DistinctLen ==
  ASSUME NEW A, NEW s \in Seq(A), Distinct(s)
  PROVE  IsFiniteSet(Elems(s)) /\ Cardinality(Elems(s)) = Len(s)
<1> DEFINE I == 1 .. Len(s)
           E == Elems(s)
           f == [n \in I |-> s[n]]
<1>1. Len(s) \in Nat OBVIOUS
<1>2. f \in Bijection(I, E)
  BY DEF Bijection, Injection, Surjection, IsInjective, Distinct, Elems
<1>3. IsFiniteSet(I) /\ Cardinality(I) = Len(s) BY SMTT(60), <1>1, FS_Interval
<1>4. ExistsBijection(I, E) BY <1>2 DEF ExistsBijection
<1>5. IsFiniteSet(E) /\ Cardinality(E) = Cardinality(I)
  <2> HIDE DEF I, E
  <2> QED BY <1>3, <1>4, FS_Bijection
<1> QED BY <1>3, <1>5

(* Two sequences one after the other. *)
LEMMA Joined ==
  ASSUME NEW A, NEW s1 \in Seq(A), NEW s2 \in Seq(A)
  PROVE  /\ s1 \o s2 \in Seq(A) /\ Len(s1 \o s2) = Len(s1) + Len(s2)
         /\ Len(s1) \in Nat /\ Len(s2) \in Nat
         /\ \A i \in 1 .. Len(s1) : (s1 \o s2)[i] = s1[i]
         /\ \A k \in 1 .. Len(s2) : (s1 \o s2)[Len(s1) + k] = s2[k]
         /\ Elems(s1 \o s2) = Elems(s1) \cup Elems(s2)
         /\ Distinct(s1) /\ Distinct(s2) /\ (\A x \in Elems(s1) : x \notin Elems(s2))
               => Distinct(s1 \o s2)
<1> DEFINE t == s1 \o s2
           m == Len(s1)
           l == Len(s2)
<1>1. t \in Seq(A) /\ Len(t) = m + l
      /\ \A i \in 1 .. m + l : t[i] = IF i <= m THEN s1[i] ELSE s2[i - m]
  BY ConcatProperties
<1>2. m \in Nat /\ l \in Nat OBVIOUS
<1> HIDE DEF t, m, l
<1>3. \A i \in 1 .. m : i \in 1 .. m + l /\ t[i] = s1[i] BY <1>1, <1>2
<1>4. \A k \in 1 .. l : m + k \in 1 .. m + l /\ t[m + k] = s2[k]
  <2> TAKE k \in 1 .. l
  <2>1. m + k \in 1 .. m + l /\ ~(m + k <= m) /\ (m + k) - m = k BY <1>2
  <2> QED BY <1>1, <2>1
<1>5. \A i \in 1 .. m + l : i \in 1 .. m \/ \E k \in 1 .. l : i = m + k
  <2> TAKE i \in 1 .. m + l
  <2>1. CASE i <= m BY <1>2, <2>1
  <2>2. CASE ~(i <= m)
    <3>1. i - m \in 1 .. l /\ i = m + (i - m) BY <1>2, <2>2
    <3> QED BY <3>1
  <2> QED BY <2>1, <2>2
<1>6. Elems(t) = Elems(s1) \cup Elems(s2)
  <2>1. Elems(t) = {t[i] : i \in 1 .. m + l} BY <1>1 DEF Elems
  <2>2. Elems(s1) = {s1[i] : i \in 1 .. m} /\ Elems(s2) = {s2[i] : i \in 1 .. l}
    BY DEF Elems, m, l
  <2>3. \A x \in Elems(t) : x \in Elems(s1) \cup Elems(s2)
    <3> SUFFICES ASSUME NEW i \in 1 .. m + l PROVE t[i] \in Elems(s1) \cup Elems(s2)
      BY <2>1
    <3>1. CASE i \in 1 .. m BY <1>3, <2>2, <3>1
    <3>2. ASSUME NEW k \in 1 .. l, i = m + k PROVE t[i] \in Elems(s2)
      BY <1>4, <2>2, <3>2
    <3> QED BY <1>5, <3>1, <3>2
  <2>4. \A x \in Elems(s1) : x \in Elems(t) BY <1>3, <2>1, <2>2
  <2>5. \A x \in Elems(s2) : x \in Elems(t) BY <1>4, <2>1, <2>2
  <2> QED BY <2>3, <2>4, <2>5
<1>7. ASSUME Distinct(s1), Distinct(s2), \A x \in Elems(s1) : x \notin Elems(s2)
      PROVE  Distinct(t)
  <2> SUFFICES ASSUME NEW a \in 1 .. m + l, NEW b \in 1 .. m + l, t[a] = t[b]
               PROVE  a = b
    BY <1>1 DEF Distinct
  <2>0. (\A i \in 1 .. m : s1[i] \in Elems(s1)) /\ \A k \in 1 .. l : s2[k] \in Elems(s2)
    BY DEF Elems, m, l
  <2>1. CASE a \in 1 .. m /\ b \in 1 .. m BY <1>3, <1>7, <2>1 DEF Distinct, m
  <2>2. ASSUME NEW j \in 1 .. l, a = m + j, NEW k \in 1 .. l, b = m + k PROVE a = b
    <3>1. s2[j] = s2[k] BY <1>4, <2>2
    <3>2. j = k BY <1>7, <3>1 DEF Distinct, l
    <3> QED BY <2>2, <3>2
  <2>3. ASSUME a \in 1 .. m, NEW k \in 1 .. l, b = m + k PROVE FALSE
    BY <1>3, <1>4, <1>7, <2>0, <2>3
  <2>4. ASSUME b \in 1 .. m, NEW k \in 1 .. l, a = m + k PROVE FALSE
    BY <1>3, <1>4, <1>7, <2>0, <2>4
  <2> QED BY <1>5, <2>1, <2>2, <2>3, <2>4
<1> QED BY <1>1, <1>2, <1>3, <1>4, <1>6, <1>7 DEF t, m, l

\* The order of preference of the no-hit-lru scorer over candidates cands.
Ranked(cands, kept) ==
    Only(cands, Elems(cands) \ Elems(kept)) \o [k \in 1 .. Len(kept) |-> kept[Len(kept) + 1 - k]]

(* It is a permutation of the candidates that ends with kept, reversed. *)
LEMMA RankedShape ==
  ASSUME NEW cands \in Seq(All), Distinct(cands), NEW kept \in Seq(All), Distinct(kept),
         Elems(kept) \subseteq Elems(cands)
  PROVE  LET ranked == Ranked(cands, kept)
         IN  /\ ranked \in Seq(All) /\ Distinct(ranked)
             /\ Elems(ranked) = Elems(cands) /\ Len(ranked) = Len(cands)
             /\ \A j \in 1 .. Len(kept) : ranked[Len(cands) + 1 - j] = kept[j]
<1> DEFINE S == Elems(cands) \ Elems(kept)
           fresh == Only(cands, S)
           l == Len(kept)
           back == [k \in 1 .. l |-> kept[l + 1 - k]]
           ranked == fresh \o back
<1>1. fresh \in Seq(All) /\ Elems(fresh) = S /\ Distinct(fresh)
  <2>1. Elems(fresh) = Elems(cands) \cap S /\ fresh \in Seq(All) /\ Distinct(fresh)
    <3> HIDE DEF S
    <3> QED BY OnlyKeeps
  <2> QED BY <2>1
<1>2. l \in Nat /\ \A k \in 1 .. l : kept[k] \in All /\ l + 1 - k \in 1 .. l
  OBVIOUS
<1>3. back \in Seq(All) /\ Len(back) = l /\ \A k \in 1 .. l : back[k] = kept[l + 1 - k]
  BY <1>2
<1>4. Elems(back) = Elems(kept)
  <2>1. \A k \in 1 .. l : l + 1 - k \in 1 .. l /\ back[l + 1 - k] = kept[k]
    <3> TAKE k \in 1 .. l
    <3>1. l + 1 - k \in 1 .. l /\ l + 1 - (l + 1 - k) = k BY <1>2
    <3> QED BY <1>3, <3>1
  <2>2. Elems(back) = {back[k] : k \in 1 .. l} /\ Elems(kept) = {kept[k] : k \in 1 .. l}
    BY <1>3 DEF Elems
  <2> HIDE DEF back, l
  <2>3. \A k \in 1 .. l : back[k] \in Elems(kept) BY <1>2, <1>3, <2>2
  <2>4. \A k \in 1 .. l : kept[k] \in Elems(back) BY <2>1, <2>2
  <2> QED BY <2>2, <2>3, <2>4
<1>5. Distinct(back)
  <2> SUFFICES ASSUME NEW a \in 1 .. l, NEW b \in 1 .. l, back[a] = back[b] PROVE a = b
    BY <1>3 DEF Distinct
  <2>1. l + 1 - a = l + 1 - b BY <1>2, <1>3 DEF Distinct
  <2> QED BY <1>2, <2>1
<1>6. \A x \in Elems(fresh) : x \notin Elems(back) BY <1>1, <1>4
<1> DEFINE m == Len(fresh)
<1>7. Elems(cands) = Elems(fresh) \cup Elems(back) BY <1>1, <1>4
<1> HIDE DEF fresh, back, S
<1>8. /\ ranked \in Seq(All) /\ Len(ranked) = m + Len(back) /\ m \in Nat
      /\ \A k \in 1 .. Len(back) : ranked[m + k] = back[k]
      /\ Elems(ranked) = Elems(fresh) \cup Elems(back)
      /\ Distinct(ranked)
  <2> HIDE DEF l
  <2>1. fresh \in Seq(All) /\ back \in Seq(All) BY <1>1, <1>3
  <2>2. /\ fresh \o back \in Seq(All) /\ Len(fresh \o back) = Len(fresh) + Len(back)
        /\ Len(fresh) \in Nat
        /\ \A k \in 1 .. Len(back) : (fresh \o back)[Len(fresh) + k] = back[k]
        /\ Elems(fresh \o back) = Elems(fresh) \cup Elems(back)
        /\ Distinct(fresh) /\ Distinct(back) /\ (\A x \in Elems(fresh) : x \notin Elems(back))
              => Distinct(fresh \o back)
    BY <2>1, Joined
  <2> QED BY <1>1, <1>5, <1>6, <2>2
<1>0. ranked = Ranked(cands, kept) BY DEF Ranked, fresh, back, S
<1> HIDE DEF ranked, m, l
<1>12. Len(ranked) = Len(cands)
  <2>1. Cardinality(Elems(ranked)) = Len(ranked) BY <1>8, DistinctLen
  <2>2. Cardinality(Elems(cands)) = Len(cands) BY DistinctLen
  <2> QED BY <1>7, <1>8, <2>1, <2>2
<1>13. \A j \in 1 .. l : ranked[Len(cands) + 1 - j] = kept[j]
  <2> TAKE j \in 1 .. l
  <2>1. l + 1 - j \in 1 .. l /\ l + 1 - (l + 1 - j) = j BY <1>2
  <2>2. ranked[m + (l + 1 - j)] = back[l + 1 - j] /\ back[l + 1 - j] = kept[j]
    BY <1>3, <1>8, <2>1
  <2>3. m + (l + 1 - j) = Len(cands) + 1 - j BY <1>2, <1>3, <1>8, <1>12
  <2> QED BY <2>2, <2>3
<1> QED BY <1>0, <1>7, <1>8, <1>12, <1>13 DEF l

(* Products grow. *)
LEMMA ProductNat ==
  ASSUME NEW x \in Nat, NEW y \in Nat
  PROVE  x * y \in Nat
  OBVIOUS

(* A greater factor makes the product greater by at least the other one. *)
LEMMA ProductStep ==
  ASSUME NEW q \in Nat \ {0}, NEW x \in Int, NEW y \in Int, x > y
  PROVE  q * x >= q * y + q
<1> DEFINE d == x - y - 1
<1>1. d \in Nat /\ x = y + 1 + d OBVIOUS
<1> HIDE DEF d
<1>2. q * d \in Nat BY <1>1, ProductNat
<1>3. q * (y + 1 + d) = q * y + q + q * d BY <1>1
<1>4. q * x = q * y + q + q * d BY <1>1, <1>3
<1>5. q * y \in Int /\ q * x \in Int OBVIOUS
<1> QED BY <1>2, <1>4, <1>5

(* A share a / q of a whole. *)
LEMMA Share ==
  ASSUME NEW q \in Nat \ {0}, NEW a \in 0 .. q, NEW w \in Nat \ {0}
  PROVE  /\ (a * w) \div q \in 0 .. w
         /\ a = q => (a * w) \div q = w
         /\ a < q => (a * w) \div q < w
<1> DEFINE v == (a * w) \div q
           e == (a * w) % q
<1>1. a \in Nat /\ a * w \in Int /\ q * w \in Int /\ w \in Int OBVIOUS
<1>2. v \in Int /\ a * w = q * v + e /\ e \in 0 .. q - 1 BY <1>1, Quotient
<1> HIDE DEF v, e
<1>3. q * v \in Int BY <1>2
<1>4. a * w \in Nat BY <1>1, ProductNat
<1>5. v >= 0
  <2> SUFFICES ASSUME 0 > v PROVE FALSE BY <1>2
  <2>1. q * 0 >= q * v + q BY <1>2, ProductStep
  <2> QED BY <1>2, <1>3, <1>4, <2>1
<1>6. a * w <= q * w
  <2>1. CASE a = q BY <1>1, <2>1
  <2>2. CASE a < q
    <3>1. w * q >= w * a + w BY <1>1, <2>2, ProductStep
    <3>2. w * q = q * w /\ w * a = a * w BY <1>1
    <3> QED BY <1>1, <3>1, <3>2
  <2> QED BY <2>1, <2>2
<1>7. v <= w
  <2> SUFFICES ASSUME v > w PROVE FALSE BY <1>2
  <2>1. q * v >= q * w + q BY <1>1, <1>2, ProductStep
  <2> QED BY <1>1, <1>2, <1>3, <1>6, <2>1
<1>8. ASSUME a = q PROVE v = w
  <2> SUFFICES ASSUME w > v PROVE FALSE BY <1>2, <1>7
  <2>1. q * w >= q * v + q BY <1>1, <1>2, ProductStep
  <2> QED BY <1>1, <1>2, <1>3, <1>8, <2>1
<1>9. ASSUME a < q PROVE v < w
  <2> SUFFICES ASSUME v = w PROVE FALSE BY <1>2, <1>7
  <2>1. w * q >= w * a + w BY <1>1, <1>9, ProductStep
  <2>2. w * q = q * w /\ w * a = a * w BY <1>1
  <2> QED BY <1>1, <1>2, <2>1, <2>2
<1> QED BY <1>2, <1>5, <1>7, <1>8, <1>9 DEF v

(* The no-hit-lru scorer: for a cold request with several candidates the     *)
(* first of the order of preference scores highest, alone.                   *)
LEMMA NoHitScores ==
  ASSUME NEW cands \in Seq(All), Distinct(cands), cands # <<>>,
         NEW ord \in Seq(All), Distinct(ord),
         NEW s, DOMAIN s = Elems(cands), NEW hits
  PROVE  LET score == scoreNoHitLRU(cands, ord, hits, s)
             ranked == Ranked(cands, Only(ord, DOMAIN s))
         IN  /\ Whole(score, s)
             /\ ~IsWarm(hits, s) /\ Len(cands) > 1 =>
                  /\ ranked[1] \in DOMAIN s
                  /\ \A i \in DOMAIN s :
                        /\ score[i] \in 0 .. Scale
                        /\ i = ranked[1] => score[i] = Scale
                        /\ i # ranked[1] => score[i] < Scale
<1> DEFINE D == DOMAIN s
           n == Len(cands)
           kept == PruneLRU(ord, hits, s)
           ranked == Only(cands, D \ Elems(kept)) \o [k \in 1 .. Len(kept) |-> kept[Len(kept) + 1 - k]]
           score == scoreNoHitLRU(cands, ord, hits, s)
           rank(i) == (CHOOSE k \in 1 .. n : ranked[k] = i) - 1
<1>1. n \in Nat \ {0} /\ Cardinality(D) = n /\ Scale \in Nat \ {0}
  <2>1. n \in Nat \ {0} OBVIOUS
  <2>2. Cardinality(D) = n BY DistinctLen
  <2> QED BY <2>1, <2>2 DEF Scale
<1>2. CASE IsWarm(hits, s)
  <2>1. score = [i \in D |-> Scale \div 2] BY <1>2 DEF scoreNoHitLRU
  <2>2. Scale \div 2 \in Int BY <1>1
  <2> HIDE DEF score
  <2> QED BY <1>2, <2>1, <2>2 DEF Whole, score
<1>3. CASE ~IsWarm(hits, s) /\ ~(n > 1)
  <2>1. n = 1 BY <1>1, <1>3
  <2>2. score = [i \in D |-> Scale] BY <1>3, <2>1 DEF scoreNoHitLRU
  <2> HIDE DEF score
  <2> QED BY <1>1, <1>3, <2>2 DEF Whole, score
<1>4. CASE ~IsWarm(hits, s) /\ n > 1
  <2>1. ~(Cardinality(D) <= 1) BY <1>1, <1>4
  <2>2. kept = Only(ord, D) BY <1>4, <2>1 DEF PruneLRU
  <2>3. kept \in Seq(All) /\ Distinct(kept) /\ Elems(kept) \subseteq Elems(cands)
    <3> DEFINE o == Only(ord, D)
    <3>1. o \in Seq(All) /\ Distinct(o) /\ Elems(o) = Elems(ord) \cap D
      <4> HIDE DEF D
      <4> QED BY OnlyKeeps
    <3> HIDE DEF o, kept
    <3>2. kept = o BY <2>2 DEF o
    <3> QED BY <3>1, <3>2
  <2>10. score = [i \in D |-> ((n - 1 - rank(i)) * Scale) \div (n - 1)]
    <3> DEFINE cold == [i \in D |-> ((n - 1 - rank(i)) * Scale) \div (n - 1)]
    <3>1. n # 1 BY <1>1, <1>4
    <3>2. score = IF IsWarm(hits, s) THEN [i \in D |-> Scale \div 2]
                  ELSE IF n = 1 THEN [i \in D |-> Scale] ELSE cold
      BY DEF scoreNoHitLRU
    <3> HIDE DEF cold, score, n, D
    <3> QED BY <1>4, <3>1, <3>2 DEF cold
  <2> HIDE DEF kept
  <2>0. ranked = Ranked(cands, kept) BY DEF Ranked
  <2> HIDE DEF ranked
  <2>4. /\ ranked \in Seq(All) /\ Distinct(ranked)
        /\ Elems(ranked) = Elems(cands) /\ Len(ranked) = n
    BY <2>0, <2>3, RankedShape
  <2>5. score = [i \in D |-> ((n - 1 - rank(i)) * Scale) \div (n - 1)] BY <2>10
  <2>6. ASSUME NEW i \in D
        PROVE  rank(i) \in 0 .. n - 1 /\ ranked[rank(i) + 1] = i
    <3>1. \E k \in 1 .. n : ranked[k] = i BY <2>4 DEF Elems
    <3> DEFINE c == CHOOSE k \in 1 .. n : ranked[k] = i
    <3>2. c \in 1 .. n /\ ranked[c] = i BY <3>1
    <3> HIDE DEF c
    <3>3. c - 1 \in 0 .. n - 1 /\ (c - 1) + 1 = c BY <1>1, <3>2
    <3> QED BY <3>2, <3>3 DEF c
  <2>7. 1 \in 1 .. n /\ ranked[1] \in D
    <3>1. 1 \in 1 .. n BY <1>1
    <3>2. ranked[1] \in Elems(ranked) BY <2>4, <3>1 DEF Elems
    <3> QED BY <2>4, <3>1, <3>2
  <2> HIDE DEF rank, score
  <2>8. ASSUME NEW i \in D
        PROVE  /\ score[i] \in 0 .. Scale
               /\ i = ranked[1] => score[i] = Scale
               /\ i # ranked[1] => score[i] < Scale
    <3> DEFINE q == n - 1
               a == q - rank(i)
    <3>1. q \in Nat \ {0} /\ a \in 0 .. q BY <1>1, <1>4, <2>6
    <3>2. score[i] = (a * Scale) \div q BY <2>5
    <3> HIDE DEF a, q
    <3>3. /\ score[i] \in 0 .. Scale
          /\ a = q => score[i] = Scale
          /\ a < q => score[i] < Scale
      <4>1. /\ (a * Scale) \div q \in 0 .. Scale
            /\ a = q => (a * Scale) \div q = Scale
            /\ a < q => (a * Scale) \div q < Scale
        BY <1>1, <3>1, Share
      <4> QED BY <3>2, <4>1
    <3>4. i = ranked[1] => rank(i) + 1 = 1
      <4> DEFINE c == rank(i)
      <4>1. c + 1 \in 1 .. Len(ranked) /\ 1 \in 1 .. Len(ranked) /\ ranked[c + 1] = i
        BY <1>1, <2>4, <2>6
      <4> HIDE DEF c
      <4>2. i = ranked[1] => c + 1 = 1 BY <2>4, <4>1 DEF Distinct
      <4> QED BY <4>2 DEF c
    <3>5. i = ranked[1] => a = q BY <1>1, <2>6, <3>4 DEF a, q
    <3>6. i # ranked[1] => a < q
      <4>1. i # ranked[1] => rank(i) # 0 BY <2>6
      <4> QED BY <1>1, <2>6, <4>1 DEF a, q
    <3> QED BY <3>1, <3>3, <3>5, <3>6
  <2>9. Whole(score, s)
    <3>1. DOMAIN score = D BY <2>5
    <3>2. \A i \in D : score[i] \in Int BY <1>1, <2>8
    <3> QED BY <3>1, <3>2 DEF Whole
  <2>11. ranked = Ranked(cands, Only(ord, D)) BY <2>0, <2>2
  <2> QED BY <2>7, <2>8, <2>9, <2>11 DEF score
<1> QED BY <1>2, <1>3, <1>4

------------------------------
(* What is owed to the instances, and the counts in the views. *)

Counts(v) == v.queue \in Nat /\ v.batch \in Nat /\ v.used \in Nat

\* The router's count of requests in flight covers those an instance holds.
Loads ==
    /\ \A i \in All :
          inFlight[i] >= Len(inbox[i]) + Len(queue[i]) + Cardinality(batch[i])
    /\ \A i \in Elems(instances) : Counts(view[i])

(* What an instance answers are counts. *)
LEMMA TruthCounts ==
  ASSUME Shapes, NEW i \in All
  PROVE  /\ Counts(Truth(i))
         /\ IsFiniteSet(batch[i]) /\ Cardinality(batch[i]) \in Nat
         /\ Len(inbox[i]) \in Nat /\ Len(queue[i]) \in Nat /\ inFlight[i] \in Int
<1>1. batch[i] \subseteq Reqs /\ inbox[i] \in Seq(Reqs) /\ queue[i] \in Seq(Reqs)
      /\ inFlight[i] \in Int
  BY DEF Shapes
<1>2. Len(inbox[i]) \in Nat /\ Len(queue[i]) \in Nat BY <1>1
<1>3. IsFiniteSet(Reqs) BY Given, FS_Interval DEF Reqs
<1>4. IsFiniteSet(batch[i]) /\ Cardinality(batch[i]) \in Nat
  BY <1>1, <1>3, FS_Subset, FS_CardinalityType
<1> DEFINE U == UNION {Elems(HashesOf(r)) : r \in batch[i]}
<1>5. U \subseteq Hashes BY <1>1, HashesTyped
<1>6. IsFiniteSet(Hashes) BY IndexAssumption
<1>7. Cardinality(U) \in Nat
  <2> HIDE DEF U
  <2> QED BY <1>5, <1>6, FS_Subset, FS_CardinalityType
<1>8. Truth(i) = [queue |-> Len(queue[i]), batch |-> Cardinality(batch[i]),
                  used |-> Cardinality(U), resident |-> resident[i]]
  BY DEF Truth
<1> HIDE DEF U
<1>9. Counts(Truth(i)) BY <1>2, <1>4, <1>7, <1>8 DEF Counts
<1> QED BY <1>1, <1>2, <1>4, <1>9

(* At the start the instances are empty and the views are zero. *)
LEMMA InitLoads == Init => Loads
<1> SUFFICES ASSUME Init PROVE Loads OBVIOUS
<1>1. \A i \in All : inbox[i] = <<>> /\ queue[i] = <<>> /\ batch[i] = {} /\ inFlight[i] = 0
  BY DEF Init
<1>2. Cardinality({}) = 0 BY FS_EmptySet
<1>3. \A i \in All : inFlight[i] >= Len(inbox[i]) + Len(queue[i]) + Cardinality(batch[i])
  <2> TAKE i \in All
  <2>1. Len(inbox[i]) = 0 /\ Len(queue[i]) = 0 /\ inFlight[i] = 0 BY <1>1
  <2>2. Cardinality(batch[i]) = 0 BY <1>1, <1>2, Zenon
  <2> QED BY <2>1, <2>2
<1>4. \A i \in Elems(instances) : Counts(view[i])
  <2>1. instances = Initial /\ view = [i \in Elems(Initial) |-> NoView]
    BY DEF Init
  <2>2. Counts(NoView) BY DEF Counts, NoView
  <2> QED BY <2>1, <2>2
<1> QED BY <1>3, <1>4 DEF Loads

(* Looking keeps the counts. *)
LEMMA LookLoads ==
  ASSUME Readable, Loads, NEW cands, Elems(cands) \subseteq Elems(instances), Look(cands)
  PROVE  \A i \in Elems(instances) : Counts(view'[i])
<1> TAKE i \in Elems(instances)
<1>1. i \in All /\ i \in DOMAIN view BY DEF Readable, Members
<1>2. view'[i] = Truth(i) \/ view'[i] = view[i] BY <1>1 DEF Look, Refreshed
<1>3. Counts(Truth(i)) BY <1>1, TruthCounts DEF Readable
<1> QED BY <1>2, <1>3 DEF Loads

(* The count follows what is handed over. *)
LEMMA Covers ==
  ASSUME NEW f \in Int, NEW a \in Nat, NEW b \in Nat, NEW c \in Nat, f >= a + b + c,
         NEW g, NEW x, NEW y, NEW z,
         \/ g = f /\ x = a - 1 /\ y = b + 1 /\ z = c
         \/ g = f /\ x = a /\ y = b - 1 /\ z \in Nat /\ z <= c + 1
         \/ g = f - 1 /\ x = a /\ y = b /\ z = c - 1
         \/ g = f + 1 /\ x = a + 1 /\ y = b /\ z = c
  PROVE  g >= x + y + z
  OBVIOUS

(* One instance's counts change. *)
LEMMA LoadsStay ==
  ASSUME Loads, NEW i \in All,
         inFlight'[i] >= Len(inbox'[i]) + Len(queue'[i]) + Cardinality(batch'[i]),
         \A j \in All \ {i} : /\ inFlight'[j] = inFlight[j] /\ inbox'[j] = inbox[j]
                              /\ queue'[j] = queue[j] /\ batch'[j] = batch[j],
         \A j \in Elems(instances') : Counts(view'[j])
  PROVE  Loads'
<1>1. \A j \in All : inFlight'[j] >= Len(inbox'[j]) + Len(queue'[j]) + Cardinality(batch'[j])
  BY DEF Loads
<1> QED BY <1>1 DEF Loads

(* A request moves from the heap to the wait queue. *)
LEMMA EnqueueLoads ==
  ASSUME Readable, Loads, NEW i \in All, Enqueue(i)
  PROVE  Loads'
<1>1. inbox[i] \in Seq(Reqs) /\ queue[i] \in Seq(Reqs) /\ inbox[i] # <<>>
  BY DEF Enqueue, Readable, Shapes
<1>2. inbox'[i] = Tail(inbox[i]) /\ queue'[i] = Append(queue[i], Head(inbox[i]))
  BY DEF Enqueue, Readable, Shapes
<1>3. Len(inbox'[i]) = Len(inbox[i]) - 1 /\ Len(queue'[i]) = Len(queue[i]) + 1
  BY <1>1, <1>2
<1>4. UNCHANGED <<inFlight, batch, instances, view>>
  BY DEF Enqueue, providerVars
<1>5. inFlight'[i] >= Len(inbox'[i]) + Len(queue'[i]) + Cardinality(batch'[i])
  <2>1. /\ Len(inbox[i]) \in Nat /\ Len(queue[i]) \in Nat /\ inFlight[i] \in Int
        /\ Cardinality(batch[i]) \in Nat
    BY TruthCounts DEF Readable
  <2>2. inFlight[i] >= Len(inbox[i]) + Len(queue[i]) + Cardinality(batch[i])
    BY DEF Loads
  <2>3. inFlight'[i] = inFlight[i] /\ Cardinality(batch'[i]) = Cardinality(batch[i])
    BY <1>4
  <2>4. Len(inbox'[i]) = Len(inbox[i]) - 1 /\ Len(queue'[i]) = Len(queue[i]) + 1
    BY <1>3
  <2> DEFINE f == inFlight[i]
             a == Len(inbox[i])
             b == Len(queue[i])
             c == Cardinality(batch[i])
             g == inFlight'[i]
             x == Len(inbox'[i])
             y == Len(queue'[i])
             z == Cardinality(batch'[i])
  <2>5. f \in Int /\ a \in Nat /\ b \in Nat /\ c \in Nat /\ f >= a + b + c
    BY <2>1, <2>2
  <2>6. g = f /\ x = a - 1 /\ y = b + 1 /\ z = c BY <2>3, <2>4
  <2>7. g >= x + y + z
    <3> HIDE DEF f, a, b, c, g, x, y, z
    <3> QED BY <2>5, <2>6
  <2> QED BY <2>7
<1>6. \A j \in All \ {i} : inbox'[j] = inbox[j] /\ queue'[j] = queue[j]
  BY DEF Enqueue, Readable, Shapes
<1>7. \A j \in Elems(instances') : Counts(view'[j]) BY <1>4 DEF Loads
<1> QED BY <1>4, <1>5, <1>6, <1>7, LoadsStay

(* A request moves from the wait queue to the batch. *)
LEMMA ScheduleLoads ==
  ASSUME Readable, Loads, NEW i \in All, Schedule(i)
  PROVE  Loads'
<1>1. queue[i] \in Seq(Reqs) /\ queue[i] # <<>>
  BY DEF Schedule, Readable, Shapes
<1>2. queue'[i] = Tail(queue[i]) /\ batch'[i] = batch[i] \cup {Head(queue[i])}
  BY DEF Schedule, Readable, Shapes
<1>3. Len(queue'[i]) = Len(queue[i]) - 1 BY <1>1, <1>2
<1>4. Cardinality(batch'[i]) <= Cardinality(batch[i]) + 1 /\ Cardinality(batch'[i]) \in Nat
  <2>1. IsFiniteSet(batch[i]) /\ Cardinality(batch[i]) \in Nat
    BY TruthCounts DEF Readable
  <2>2. Cardinality(batch'[i]) = IF Head(queue[i]) \in batch[i] THEN Cardinality(batch[i])
                                 ELSE Cardinality(batch[i]) + 1
    BY <1>2, <2>1, FS_AddElement
  <2> QED BY <2>1, <2>2
<1>5. UNCHANGED <<inFlight, inbox, instances, view>>
  BY DEF Schedule, providerVars
<1>6. inFlight'[i] >= Len(inbox'[i]) + Len(queue'[i]) + Cardinality(batch'[i])
  <2>1. /\ Len(inbox[i]) \in Nat /\ Len(queue[i]) \in Nat /\ inFlight[i] \in Int
        /\ Cardinality(batch[i]) \in Nat
    BY TruthCounts DEF Readable
  <2>2. inFlight[i] >= Len(inbox[i]) + Len(queue[i]) + Cardinality(batch[i])
    BY DEF Loads
  <2>3. inFlight'[i] = inFlight[i] /\ Len(inbox'[i]) = Len(inbox[i]) BY <1>5
  <2> QED BY <1>3, <1>4, <2>1, <2>2, <2>3, Covers, Zenon
<1>7. \A j \in All \ {i} : queue'[j] = queue[j] /\ batch'[j] = batch[j]
  BY DEF Schedule, Readable, Shapes
<1>8. \A j \in Elems(instances') : Counts(view'[j]) BY <1>5 DEF Loads
<1> QED BY <1>5, <1>6, <1>7, <1>8, LoadsStay

(* A request leaves the batch and the count of those in flight. *)
LEMMA CompleteLoads ==
  ASSUME Readable, Loads, NEW i \in All, Complete(i)
  PROVE  Loads'
<1>1. PICK r \in batch[i] : batch' = [batch EXCEPT ![i] = @ \ {r}]
  BY DEF Complete
<1>2. batch'[i] = batch[i] \ {r} /\ \A j \in All \ {i} : batch'[j] = batch[j]
  BY <1>1 DEF Readable, Shapes
<1>3. inFlight'[i] = inFlight[i] - 1 /\ \A j \in All \ {i} : inFlight'[j] = inFlight[j]
  BY DEF Complete, Readable, Shapes
<1>4. UNCHANGED <<inbox, queue, instances, view>> BY DEF Complete
<1>5. inFlight'[i] >= Len(inbox'[i]) + Len(queue'[i]) + Cardinality(batch'[i])
  <2>1. /\ Len(inbox[i]) \in Nat /\ Len(queue[i]) \in Nat /\ inFlight[i] \in Int
        /\ IsFiniteSet(batch[i]) /\ Cardinality(batch[i]) \in Nat
    BY TruthCounts DEF Readable
  <2>2. Cardinality(batch'[i]) = Cardinality(batch[i]) - 1
    BY <1>1, <1>2, <2>1, FS_RemoveElement
  <2>3. inFlight[i] >= Len(inbox[i]) + Len(queue[i]) + Cardinality(batch[i])
    BY DEF Loads
  <2>4. Len(inbox'[i]) = Len(inbox[i]) /\ Len(queue'[i]) = Len(queue[i])
    BY <1>4
  <2> QED BY <1>3, <2>1, <2>2, <2>3, <2>4, Covers, Zenon
<1>6. \A j \in Elems(instances') : Counts(view'[j]) BY <1>4 DEF Loads
<1> QED BY <1>2, <1>3, <1>4, <1>5, <1>6, LoadsStay

(* Admission moves no request of an instance. *)
LEMMA AdmissionLoads == Readable /\ Loads /\ Admission => Loads'
<1> SUFFICES ASSUME Readable, Loads, Admission PROVE Loads' OBVIOUS
<1> DEFINE cands == Candidates(arrived + 1)
<1>1. Elems(cands) \subseteq Elems(instances) BY CandidatesShape DEF Readable
<1>2. Look(cands) /\ UNCHANGED <<truthVars, inFlight, instances>>
  BY DEF Admission
<1> HIDE DEF cands
<1>3. \A i \in Elems(instances) : Counts(view'[i]) BY <1>1, <1>2, LookLoads
<1> QED BY <1>2, <1>3 DEF Loads, truthVars

(* A routed request is in flight and in the heap of its target. *)
LEMMA RoutingLoads == Readable /\ Loads /\ Routing => Loads'
<1> SUFFICES ASSUME Readable, Loads, Routing PROVE Loads' OBVIOUS
<1> DEFINE r == Head(pending).req
           cands == Candidates(r)
<1>1. Elems(cands) \subseteq Elems(instances) BY CandidatesShape DEF Readable
<1>2. Look(cands) /\ UNCHANGED <<queue, batch, instances>> BY DEF Routing
<1> HIDE DEF cands
<1>3. \A i \in Elems(instances) : Counts(view'[i]) BY <1>1, <1>2, LookLoads
<1>4. r \in Reqs
  <2>1. pending \in Seq(Waits) /\ pending # <<>>
    BY DEF Routing, Readable, Shapes
  <2>2. Head(pending) \in Waits BY <2>1, HeadTail
  <2> QED BY <2>2 DEF Waits
<1>5. ASSUME NEW t, inFlight' = [inFlight EXCEPT ![t] = @ + 1],
             inbox' = [inbox EXCEPT ![t] = Append(@, r)]
      PROVE  Loads'
  <2> HIDE DEF r
  <2> SUFFICES ASSUME NEW i \in All
               PROVE  inFlight'[i] >= Len(inbox'[i]) + Len(queue'[i]) + Cardinality(batch'[i])
    BY <1>2, <1>3 DEF Loads
  <2>1. /\ Len(inbox[i]) \in Nat /\ Len(queue[i]) \in Nat /\ inFlight[i] \in Int
        /\ Cardinality(batch[i]) \in Nat /\ inbox[i] \in Seq(Reqs)
    BY TruthCounts DEF Readable, Shapes
  <2>2. inFlight[i] >= Len(inbox[i]) + Len(queue[i]) + Cardinality(batch[i])
    BY DEF Loads
  <2>3. CASE i = t
    <3>1. inFlight'[i] = inFlight[i] + 1 /\ inbox'[i] = Append(inbox[i], r)
      BY <1>5, <2>3 DEF Readable, Shapes
    <3>2. Len(inbox'[i]) = Len(inbox[i]) + 1 BY <1>4, <2>1, <3>1
    <3>3. Len(queue'[i]) = Len(queue[i]) /\ Cardinality(batch'[i]) = Cardinality(batch[i])
      BY <1>2
    <3> QED BY <2>1, <2>2, <3>1, <3>2, <3>3, Covers, ZenonT(60)
  <2>4. CASE i # t
    <3>1. inFlight'[i] = inFlight[i] /\ inbox'[i] = inbox[i]
      BY <1>5, <2>4 DEF Readable, Shapes
    <3> QED BY <1>2, <2>2, <3>1
  <2> QED BY <2>3, <2>4
<1>6. CASE UNCHANGED <<inFlight, inbox>> BY <1>2, <1>3, <1>6 DEF Loads
<1>7. \/ UNCHANGED <<inFlight, inbox>>
      \/ \E t : /\ inFlight' = [inFlight EXCEPT ![t] = @ + 1]
                /\ inbox' = [inbox EXCEPT ![t] = Append(@, r)]
  BY DEF Routing
<1> QED BY <1>5, <1>6, <1>7

(* The remaining actions move no request. *)
LEMMA OtherLoads ==
  ASSUME Readable, Loads,
         AddInstance \/ InstanceLoaded \/ Tick \/ (\E i \in All : Drain(i)) \/ UNCHANGED vars
  PROVE  Loads'
<1>1. UNCHANGED <<truthVars, inFlight>>
  BY DEF AddInstance, InstanceLoaded, Tick, Drain, vars
<1>2. CASE AddInstance
  <2>1. IsSequence(instances)
    <3>1. instances \in Seq(All) BY DEF Readable, Shapes
    <3> QED BY <3>1 DEF IsSequence, Elems
  <2>2. Elems(instances') = Elems(instances) \cup {Late}
    BY <1>2, <2>1, Appended DEF AddInstance
  <2>3. \A i \in Elems(instances') : view'[i] = IF i = Late THEN NoView ELSE view[i]
    BY <1>2, <2>2 DEF AddInstance, Put, Readable, Members
  <2>4. Counts(NoView) BY DEF Counts, NoView
  <2>5. \A i \in Elems(instances') : Counts(view'[i])
    BY <2>2, <2>3, <2>4 DEF Loads
  <2> QED BY <1>1, <2>5 DEF Loads, truthVars
<1>3. CASE ~AddInstance
  <2>1. UNCHANGED <<instances, view>>
    BY <1>3 DEF InstanceLoaded, Tick, Drain, vars, providerVars
  <2> QED BY <1>1, <2>1 DEF Loads, truthVars
<1> QED BY <1>2, <1>3

------------------------------
(* Scores, targets and regret of one decision. *)

(* The router sees at least one candidate and counts for each. *)
LEMMA StateMeasured ==
  ASSUME Readable, Loads, NEW r, Candidates(r) # <<>>
  PROVE  /\ Measured(StateOf(Candidates(r)))
         /\ DOMAIN StateOf(Candidates(r)) = Elems(Candidates(r))
<1> DEFINE cands == Candidates(r)
           s == StateOf(cands)
<1>1. cands \in Seq(All) /\ Distinct(cands) /\ Elems(cands) \subseteq Elems(instances)
      /\ \A i \in Elems(cands) : i \in All
  BY CandidatesShape DEF Readable
<1>2. cands # <<>> OBVIOUS
<1> HIDE DEF cands
<1>3. IsFiniteSet(Elems(cands)) /\ Elems(cands) # {}
  <2>1. IsFiniteSet(Elems(cands)) BY <1>1, DistinctLen
  <2>2. cands[1] \in Elems(cands) BY <1>1, <1>2 DEF Elems
  <2> QED BY <2>1, <2>2
<1>4. DOMAIN s = Elems(cands) BY DEF StateOf
<1>5. ASSUME NEW i \in Elems(cands)
      PROVE  s[i].queue \in Nat /\ s[i].batch \in Nat /\ s[i].used \in Nat /\ s[i].inFlight \in Nat
  <2>1. i \in All /\ i \in Elems(instances) /\ i \in DOMAIN view
    BY <1>1, <1>5 DEF Readable, Members
  <2> DEFINE v == Refreshed(cands)[i]
  <2>2. v = Truth(i) \/ v = view[i] BY <2>1 DEF Refreshed
  <2>3. Counts(Truth(i)) /\ Counts(view[i])
    BY <2>1, TruthCounts DEF Readable, Loads
  <2> HIDE DEF v
  <2>4. Counts(v) BY <2>2, <2>3
  <2>5. s[i].queue = v.queue /\ s[i].batch = v.batch /\ s[i].used = v.used
        /\ s[i].inFlight = inFlight[i]
    BY DEF StateOf, v
  <2>6. inFlight[i] \in Nat
    <3>1. /\ Len(inbox[i]) \in Nat /\ Len(queue[i]) \in Nat /\ inFlight[i] \in Int
          /\ Cardinality(batch[i]) \in Nat
      BY <2>1, TruthCounts DEF Readable
    <3>2. inFlight[i] >= Len(inbox[i]) + Len(queue[i]) + Cardinality(batch[i])
      BY <2>1 DEF Loads
    <3> DEFINE f == inFlight[i]
               a == Len(inbox[i])
               b == Len(queue[i])
               c == Cardinality(batch[i])
    <3>3. f \in Int /\ a \in Nat /\ b \in Nat /\ c \in Nat /\ f >= a + b + c
      BY <3>1, <3>2
    <3>4. f \in Nat
      <4> HIDE DEF f, a, b, c
      <4> QED BY <3>3
    <3> QED BY <3>4
  <2> QED BY <2>4, <2>5, <2>6 DEF Counts
<1>6. Measured(s)
  <2> HIDE DEF s
  <2> QED BY <1>3, <1>4, <1>5 DEF Measured
<1> QED BY <1>4, <1>6 DEF cands

(* So are the answers of the cache queries. *)
LEMMA HitsWhole ==
  ASSUME NEW r \in Reqs, NEW s
  PROVE  Whole([i \in DOMAIN s |-> CacheQuery(HashesOf(r), i)], s)
<1>1. \A held : MatchLength(HashesOf(r), held) \in Int
  <2>1. HashesOf(r) \in Seq(Hashes) BY HashesTyped
  <2>2. Len(HashesOf(r)) \in Nat BY <2>1
  <2> QED BY <2>1, <2>2, MatchBounded
<1>2. \A i : CacheQuery(HashesOf(r), i) \in Int BY <1>1 DEF CacheQuery
<1> QED BY <1>2 DEF Whole

OrderShape == order \in Seq(All) /\ Distinct(order)

(* Every scorer scores every candidate. *)
LEMMA ScoreWhole ==
  ASSUME Readable, OrderShape, NEW r \in Reqs,
         NEW cands \in Seq(All), Distinct(cands), cands # <<>>,
         NEW s, Measured(s), DOMAIN s = Elems(cands),
         NEW name \in ScorerNames
  PROVE  Whole(ScoreOf(name, r, cands, s), s)
<1> DEFINE hashes == HashesOf(r)
           hits == [i \in DOMAIN s |-> CacheQuery(hashes, i)]
<1>1. hashes \in Seq(Hashes) /\ Whole(hits, s) BY HashesTyped, HitsWhole
<1>2. Whole(scoreNoHitLRU(cands, order, hits, s), s)
  <2> HIDE DEF hits
  <2> QED BY NoHitScores DEF OrderShape
<1>3. Whole(scorePrefixAffinity(hashes, index, s), s) /\ Whole(scorePrecisePrefix(hits, s), s)
  <2> HIDE DEF hits, hashes
  <2> QED BY <1>1, CacheScores
<1>4. /\ Whole(scoreVLLMDP(s), s) /\ Whole(scoreQueueDepth(s), s)
      /\ Whole(scoreRunningRequests(s), s) /\ Whole(scoreKVUtilization(s), s)
      /\ Whole(scoreLoadBalance(s), s) /\ Whole(scoreActiveRequests(s), s)
      /\ Whole(scoreLoadAware(s), s) /\ Whole(scoreLoRAAffinity(Requests[r].adapter, s), s)
  BY CountScores
<1>5. \/ ScoreOf(name, r, cands, s) = scoreNoHitLRU(cands, order, hits, s)
      \/ ScoreOf(name, r, cands, s) = scorePrefixAffinity(hashes, index, s)
      \/ ScoreOf(name, r, cands, s) = scorePrecisePrefix(hits, s)
      \/ ScoreOf(name, r, cands, s) = scoreVLLMDP(s)
      \/ ScoreOf(name, r, cands, s) = scoreQueueDepth(s)
      \/ ScoreOf(name, r, cands, s) = scoreRunningRequests(s)
      \/ ScoreOf(name, r, cands, s) = scoreKVUtilization(s)
      \/ ScoreOf(name, r, cands, s) = scoreLoadBalance(s)
      \/ ScoreOf(name, r, cands, s) = scoreActiveRequests(s)
      \/ ScoreOf(name, r, cands, s) = scoreLoadAware(s)
      \/ ScoreOf(name, r, cands, s) = scoreLoRAAffinity(Requests[r].adapter, s)
  BY DEF ScoreOf, ScorerNames
<1> HIDE DEF hits, hashes
<1> QED BY <1>2, <1>3, <1>4, <1>5

(* Clamping. *)
LEMMA Clamped ==
  ASSUME NEW x \in Int
  PROVE  Clamp(x) \in 0 .. Scale /\ (x \in 0 .. Scale => Clamp(x) = x)
<1>1. Scale \in Nat BY DEF Scale
<1> DEFINE y == Min({x, Scale})
<1>2. y = IF x <= Scale THEN x ELSE Scale BY <1>1, MaxMinPair
<1> HIDE DEF y
<1>3. y \in Int BY <1>1, <1>2
<1>4. Max({0, y}) = IF 0 >= y THEN 0 ELSE y BY <1>3, MaxMinPair
<1>5. Clamp(x) = Max({0, y}) BY DEF Clamp, y
<1> QED BY <1>1, <1>2, <1>3, <1>4, <1>5

(* What the configuration says of the scorers. *)
LEMMA ScorersGiven ==
  ASSUME Readable
  PROVE  /\ Len(config.scorers) \in Nat
         /\ \A n \in 1 .. Len(config.scorers) :
               /\ config.scorers[n].name \in ScorerNames
               /\ config.scorers[n].weight \in Nat \ {0}
         /\ config.scorers # <<>> => config.routing = "weighted"
<1> DEFINE R == [name : ScorerNames, weight : Nat \ {0}]
<1>1. config.scorers \in Seq(R)
      /\ (config.routing = "weighted" <=> config.scorers # <<>>)
  BY RouterAssumption DEF ValidConfig, Readable, Shapes
<1>3. \A x \in R : x.name \in ScorerNames /\ x.weight \in Nat \ {0} OBVIOUS
<1> HIDE DEF R
<1> DEFINE q == config.scorers
<1>4. q \in Seq(R) BY <1>1
<1>2. Len(q) \in Nat /\ \A n \in 1 .. Len(q) : q[n] \in R
  <2> HIDE DEF q
  <2> QED BY <1>4
<1> QED BY <1>1, <1>2, <1>3

(* The weighted sum of the scores is an integer; with one scorer it is its   *)
(* score times its weight.                                                   *)
LEMMA CompositeWhole ==
  ASSUME Readable, OrderShape, NEW r \in Reqs,
         NEW cands \in Seq(All), Distinct(cands), cands # <<>>,
         NEW s, Measured(s), DOMAIN s = Elems(cands)
  PROVE  /\ Whole(Composite(r, cands, s), s)
         /\ Len(config.scorers) = 1 =>
              \A i \in DOMAIN s :
                 Composite(r, cands, s)[i] =
                    Clamp(ScoreOf(config.scorers[1].name, r, cands, s)[i]) * config.scorers[1].weight
<1> DEFINE N == Len(config.scorers)
           dim == [n \in 1 .. N |-> ScoreOf(config.scorers[n].name, r, cands, s)]
           terms(i) == [n \in 1 .. N |-> Clamp(dim[n][i]) * config.scorers[n].weight]
<1>1. N \in Nat /\ \A n \in 1 .. N : config.scorers[n].name \in ScorerNames
                                     /\ config.scorers[n].weight \in Nat \ {0}
  BY ScorersGiven
<1>2. \A n \in 1 .. N : Whole(dim[n], s) /\ dim[n] = ScoreOf(config.scorers[n].name, r, cands, s)
  <2> TAKE n \in 1 .. N
  <2>1. dim[n] = ScoreOf(config.scorers[n].name, r, cands, s) OBVIOUS
  <2>2. config.scorers[n].name \in ScorerNames BY <1>1
  <2> HIDE DEF dim
  <2> QED BY <2>1, <2>2, ScoreWhole
<1>3. Composite(r, cands, s) = [i \in DOMAIN s |-> Total(terms(i))]
  BY DEF Composite
<1> HIDE DEF dim
<1>4. ASSUME NEW i \in DOMAIN s
      PROVE  /\ terms(i) \in Seq(Int) /\ Len(terms(i)) = N
             /\ \A n \in 1 .. N : terms(i)[n] = Clamp(dim[n][i]) * config.scorers[n].weight
  <2>1. \A n \in 1 .. N : Clamp(dim[n][i]) * config.scorers[n].weight \in Int
    <3> TAKE n \in 1 .. N
    <3>1. dim[n][i] \in Int BY <1>2 DEF Whole
    <3>2. Clamp(dim[n][i]) \in 0 .. Scale BY <3>1, Clamped
    <3>3. Clamp(dim[n][i]) \in Int /\ config.scorers[n].weight \in Int
      <4>1. Scale \in Nat BY DEF Scale
      <4> QED BY <1>1, <3>2, <4>1
    <3> QED BY <3>3
  <2> QED BY <1>1, <2>1
<1> HIDE DEF terms
<1>5. Whole(Composite(r, cands, s), s)
  <2>1. \A i \in DOMAIN s : Total(terms(i)) \in Int BY <1>4, TotalInt
  <2> QED BY <1>3, <2>1 DEF Whole
<1>6. ASSUME N = 1, NEW i \in DOMAIN s
      PROVE  Composite(r, cands, s)[i] =
                Clamp(ScoreOf(config.scorers[1].name, r, cands, s)[i]) * config.scorers[1].weight
  <2>1. Total(terms(i)) = terms(i)[1] BY <1>4, <1>6, TotalInt
  <2>2. 1 \in 1 .. N BY <1>6
  <2>3. terms(i)[1] = Clamp(dim[1][i]) * config.scorers[1].weight
    BY <1>4, <1>6, <2>2
  <2>4. dim[1] = ScoreOf(config.scorers[1].name, r, cands, s) BY <1>2, <2>2
  <2> QED BY <1>3, <1>6, <2>1, <2>3, <2>4
<1> QED BY <1>5, <1>6

(* A policy that chooses by score or by load chooses a candidate, and no     *)
(* other one would have been better.                                         *)
LEMMA ChosenBest ==
  ASSUME Readable, OrderShape, NEW r \in Reqs,
         NEW cands \in Seq(All), Distinct(cands), cands # <<>>,
         NEW s, Measured(s), DOMAIN s = Elems(cands),
         config.routing \in {"weighted", "least-loaded"},
         NEW target \in Targets(r, cands, s)
  PROVE  target \in Elems(cands) /\ Regret(r, cands, s, target) = 0
<1> DEFINE score == IF config.routing = "weighted" THEN Composite(r, cands, s)
                    ELSE [i \in DOMAIN s |-> 0 - EffectiveLoad(s[i])]
<1>1. \A i \in DOMAIN s : EffectiveLoad(s[i]) \in Int
  BY DEF Measured, EffectiveLoad
<1>2. Whole(score, s)
  <2>1. CASE config.routing = "weighted" BY <2>1, CompositeWhole
  <2>2. CASE config.routing # "weighted" BY <1>1, <2>2 DEF Whole
  <2> QED BY <2>1, <2>2
<1>3. target \in DOMAIN s /\ \A j \in DOMAIN s : score[target] >= score[j]
  <2>1. CASE config.routing = "weighted"
    <3>1. target \in TopScore(Composite(r, cands, s)) BY <2>1 DEF Targets
    <3>2. score = Composite(r, cands, s) /\ DOMAIN score = DOMAIN s
      BY <1>2, <2>1 DEF Whole
    <3> HIDE DEF score
    <3> QED BY <3>1, <3>2 DEF TopScore
  <2>2. CASE config.routing = "least-loaded"
    <3>1. target \in LowestLoad(s) BY <2>2 DEF Targets
    <3>2. target \in DOMAIN s /\ \A j \in DOMAIN s : EffectiveLoad(s[target]) <= EffectiveLoad(s[j])
      BY <3>1 DEF LowestLoad
    <3>3. \A j \in DOMAIN s : score[j] = 0 - EffectiveLoad(s[j]) BY <2>2
    <3> HIDE DEF score
    <3> QED BY <1>1, <3>2, <3>3
  <2> QED BY <2>1, <2>2
<1> DEFINE R == {score[i] : i \in DOMAIN s}
<1>4. Regret(r, cands, s, target) = Max(R) - score[target] BY DEF Regret
<1> HIDE DEF score
<1>5. Max(R) \in Int /\ Max(R) \in R /\ \A i \in DOMAIN s : score[i] <= Max(R)
  <2> DEFINE D == DOMAIN s
  <2>1. IsFiniteSet(D) /\ D # {} /\ DOMAIN score = D /\ \A i \in D : score[i] \in Int
    BY <1>2 DEF Measured, Whole
  <2> HIDE DEF D
  <2>2. Max({score[i] : i \in D}) \in Int /\ Max({score[i] : i \in D}) \in {score[i] : i \in D}
        /\ \A j \in D : score[j] <= Max({score[i] : i \in D})
    BY ZenonT(60), <2>1, MaxMinOf
  <2> QED BY <2>2 DEF D
<1>6. PICK k \in DOMAIN s : Max(R) = score[k] BY <1>5
<1>7. Max(R) = score[target]
  <2> HIDE DEF R
  <2>1. score[k] \in Int /\ score[target] \in Int BY <1>2, <1>3 DEF Whole
  <2> QED BY <1>3, <1>5, <1>6, <2>1
<1>8. score[target] \in Int BY <1>2, <1>3 DEF Whole
<1> QED BY <1>3, <1>4, <1>7, <1>8

SoleNoHit == Len(config.scorers) = 1 /\ Uses("no-hit-lru")

(* A cold request goes to the first in the order of preference. *)
LEMMA ColdTarget ==
  ASSUME Readable, OrderShape, SoleNoHit, NEW r \in Reqs,
         NEW cands \in Seq(All), Distinct(cands), cands # <<>>, Len(cands) > 1,
         NEW s, Measured(s), DOMAIN s = Elems(cands),
         ~IsWarm([i \in DOMAIN s |-> CacheQuery(HashesOf(r), i)], s),
         NEW target \in Targets(r, cands, s)
  PROVE  target = Ranked(cands, Only(order, DOMAIN s))[1]
<1> DEFINE hits == [i \in DOMAIN s |-> CacheQuery(HashesOf(r), i)]
           ranked == Ranked(cands, Only(order, DOMAIN s))
           score == scoreNoHitLRU(cands, order, hits, s)
           sum == Composite(r, cands, s)
           w == config.scorers[1].weight
<1>1. config.scorers[1].name = "no-hit-lru" /\ w \in Nat \ {0} /\ config.routing = "weighted"
  <2>1. config.scorers[1].name = "no-hit-lru" BY DEF SoleNoHit, Uses
  <2>2. 1 \in 1 .. Len(config.scorers) /\ config.scorers # <<>>
    <3> DEFINE q == config.scorers
    <3>1. Len(q) = 1 BY DEF SoleNoHit
    <3>2. 1 \in 1 .. Len(q) /\ q # <<>>
      <4> HIDE DEF q
      <4> QED BY SMTT(60), <3>1
    <3> QED BY <3>2
  <2>3. config.scorers[1].weight \in Nat \ {0} /\ config.routing = "weighted"
    BY <2>2, ScorersGiven
  <2> QED BY <2>1, <2>3
<1>2. ScoreOf("no-hit-lru", r, cands, s) = score BY DEF ScoreOf
<1>3. /\ ranked[1] \in DOMAIN s
      /\ \A i \in DOMAIN s : /\ score[i] \in 0 .. Scale
                             /\ i = ranked[1] => score[i] = Scale
                             /\ i # ranked[1] => score[i] < Scale
  <2>1. ~IsWarm(hits, s) OBVIOUS
  <2> HIDE DEF hits
  <2> QED BY <2>1, NoHitScores DEF OrderShape
<1> HIDE DEF score, ranked, hits
<1>4. \A i \in DOMAIN s : sum[i] = Clamp(score[i]) * w
  <2>1. Len(config.scorers) = 1 BY DEF SoleNoHit
  <2>2. \A i \in DOMAIN s :
           sum[i] = Clamp(ScoreOf(config.scorers[1].name, r, cands, s)[i]) * w
    BY <2>1, CompositeWhole
  <2> QED BY <1>1, <1>2, <2>2
<1>5. \A i \in DOMAIN s : sum[i] = score[i] * w
  <2> TAKE i \in DOMAIN s
  <2>1. score[i] \in 0 .. Scale BY <1>3
  <2>2. score[i] \in Int
    <3>1. Scale \in Int BY DEF Scale
    <3> QED BY <2>1, <3>1
  <2>3. Clamp(score[i]) = score[i] BY <2>1, <2>2, Clamped
  <2> QED BY <1>4, <2>3
<1>6. target \in DOMAIN s /\ \A j \in DOMAIN s : sum[target] >= sum[j]
  <2>1. target \in TopScore(sum) BY <1>1 DEF Targets
  <2>2. DOMAIN sum = DOMAIN s BY CompositeWhole DEF Whole
  <2> HIDE DEF sum
  <2> QED BY <2>1, <2>2 DEF TopScore
<1> HIDE DEF sum, w
<1>7. SUFFICES ASSUME target # ranked[1] PROVE FALSE BY DEF ranked
<1> DEFINE x == score[target]
           S == Scale
<1>8. x \in Int /\ S \in Int /\ x < S /\ w \in Nat \ {0}
  <2>1. Scale \in Nat BY DEF Scale
  <2> QED BY <1>1, <1>3, <1>6, <1>7, <2>1
<1>9. x * w >= S * w BY <1>3, <1>5, <1>6
<1> HIDE DEF x, S
<1>10. w * S >= w * x + w BY <1>8, ProductStep
<1>11. w * S = S * w /\ w * x = x * w /\ S * w \in Int /\ x * w \in Int BY <1>8
<1> QED BY <1>8, <1>9, <1>10, <1>11

(* The order after a cold request: its target, then what was before it. *)
LEMMA OrderObserved ==
  ASSUME OrderShape, NEW hits, NEW s, NEW target \in All
  PROVE  LET new == ObserveCold(PruneLRU(order, hits, s), IsWarm(hits, s), target)
         IN  /\ new \in Seq(All) /\ Distinct(new)
             /\ ~IsWarm(hits, s) => new # <<>> /\ new[1] = target
             /\ \A p \in 0 .. Len(order) :
                   ~IsWarm(hits, s) /\ (\A j \in 1 .. p : order[j] \in DOMAIN s /\ order[j] # target)
                      => /\ p + 1 <= Len(new)
                         /\ \A j \in 1 .. p : new[j + 1] = order[j]
<1> DEFINE kept == PruneLRU(order, hits, s)
           new == ObserveCold(kept, IsWarm(hits, s), target)
<1>1. order \in Seq(All) /\ Distinct(order) /\ Len(order) \in Nat
  BY DEF OrderShape
<1>2. kept = order \/ kept = Only(order, DOMAIN s) BY DEF PruneLRU
<1>3. kept \in Seq(All) /\ Distinct(kept) BY <1>1, <1>2, OnlyKeeps
<1>4. ASSUME NEW p \in 0 .. Len(order), \A j \in 1 .. p : order[j] \in DOMAIN s
      PROVE  p <= Len(kept) /\ \A j \in 1 .. p : kept[j] = order[j]
  <2>1. p <= Len(Only(order, DOMAIN s)) /\ \A j \in 1 .. p : Only(order, DOMAIN s)[j] = order[j]
    BY <1>1, <1>4, OnlyPrefix
  <2>2. p <= Len(order) BY <1>1
  <2> QED BY <1>2, <2>1, <2>2
<1> DEFINE S == Elems(kept) \ {target}
           rest == Only(kept, S)
<1> HIDE DEF kept
<1>5. rest \in Seq(All) /\ Distinct(rest) /\ Elems(rest) = Elems(kept) \ {target}
  <2>1. rest \in Seq(All) /\ Distinct(rest) /\ Elems(rest) = Elems(kept) \cap S
    <3> HIDE DEF S
    <3> QED BY <1>3, OnlyKeeps
  <2> QED BY <2>1
<1> HIDE DEF rest
<1>6. CASE IsWarm(hits, s)
  <2>1. new = kept BY <1>6 DEF ObserveCold
  <2> HIDE DEF new
  <2>2. new \in Seq(All) /\ Distinct(new) BY <1>3, <2>1
  <2> QED BY <1>6, <2>2 DEF new, kept
<1>7. CASE ~IsWarm(hits, s)
  <2>1. new = <<target>> \o rest BY <1>7 DEF ObserveCold, rest
  <2> DEFINE one == <<target>>
  <2>2. one \in Seq(All) /\ Len(one) = 1 /\ one[1] = target /\ Elems(one) = {target} /\ Distinct(one)
    BY DEF Elems, Distinct
  <2> HIDE DEF one
  <2>3. \A x \in Elems(one) : x \notin Elems(rest) BY <1>5, <2>2
  <2>8. /\ one \o rest \in Seq(All) /\ Len(one \o rest) = Len(one) + Len(rest)
        /\ Len(one) \in Nat /\ Len(rest) \in Nat
        /\ \A i \in 1 .. Len(one) : (one \o rest)[i] = one[i]
        /\ \A k \in 1 .. Len(rest) : (one \o rest)[Len(one) + k] = rest[k]
        /\ Elems(one \o rest) = Elems(one) \cup Elems(rest)
        /\ Distinct(one) /\ Distinct(rest) /\ (\A x \in Elems(one) : x \notin Elems(rest))
              => Distinct(one \o rest)
    <3>1. one \in Seq(All) /\ rest \in Seq(All) BY <1>5, <2>2
    <3> QED BY <3>1, Joined, ZenonT(60)
  <2>4. /\ one \o rest \in Seq(All) /\ Len(one \o rest) = 1 + Len(rest)
        /\ Len(rest) \in Nat
        /\ \A i \in 1 .. 1 : (one \o rest)[i] = one[i]
        /\ \A k \in 1 .. Len(rest) : (one \o rest)[1 + k] = rest[k]
        /\ Distinct(one \o rest)
    BY <1>5, <2>2, <2>3, <2>8
  <2>5. new = one \o rest BY <2>1 DEF one
  <2> HIDE DEF new
  <2>6. new \in Seq(All) /\ Distinct(new) /\ new # <<>> /\ new[1] = target
    BY <2>2, <2>4, <2>5
  <2>7. ASSUME NEW p \in 0 .. Len(order),
               \A j \in 1 .. p : order[j] \in DOMAIN s /\ order[j] # target
        PROVE  p + 1 <= Len(new) /\ \A j \in 1 .. p : new[j + 1] = order[j]
    <3>1. p <= Len(kept) /\ \A j \in 1 .. p : kept[j] = order[j] BY <1>4, <2>7
    <3>2. Len(kept) \in Nat /\ p \in 0 .. Len(kept) /\ p \in Nat
      BY <1>1, <1>3, <3>1
    <3>3. \A j \in 1 .. p : kept[j] \in Elems(kept) \ {target}
      BY <2>7, <3>1, <3>2 DEF Elems
    <3>4. p <= Len(rest) /\ \A j \in 1 .. p : rest[j] = kept[j]
      BY <1>3, <3>2, <3>3, OnlyPrefix DEF rest
    <3>5. p + 1 <= Len(new) BY <2>4, <2>5, <3>2, <3>4
    <3>6. \A j \in 1 .. p : new[j + 1] = order[j]
      <4> TAKE j \in 1 .. p
      <4>1. j \in 1 .. Len(rest) /\ 1 + j = j + 1 BY <2>4, <3>2, <3>4
      <4> QED BY SMTT(60), <2>4, <2>5, <3>1, <3>4, <4>1
    <3> QED BY <3>5, <3>6
  <2> QED BY <2>6, <2>7 DEF new, kept
<1> QED BY <1>6, <1>7

------------------------------
(* The history of decisions. *)

Taken(k) ==
    /\ trace[k].cands \in Seq(All) /\ Distinct(trace[k].cands) /\ trace[k].cands # <<>>
    /\ config.routing = "round-robin" =>
          trace[k].chosen = trace[k].cands[((k - 1) % Len(trace[k].cands)) + 1]
    /\ config.routing \in {"weighted", "least-loaded"} =>
          trace[k].chosen \in Elems(trace[k].cands) /\ trace[k].regret = 0

\* Cold decisions over the same candidates, from n to m.
Stretch(n, m) == \A k \in n .. m : trace[k].cold /\ trace[k].cands = trace[n].cands

\* Within such a stretch no target occurs twice, and the last ones are at the head
\* of the cold order, the latest first.
Spread ==
    \A n \in 1 .. Len(trace) :
        /\ \A m \in n + 1 .. Len(trace) :
              Stretch(n, m) /\ m - n < Len(trace[n].cands) => trace[n].chosen # trace[m].chosen
        /\ Stretch(n, Len(trace)) /\ Len(trace) - n < Len(trace[n].cands) =>
              /\ Len(trace) - n + 1 <= Len(order)
              /\ \A k \in n .. Len(trace) : order[Len(trace) - k + 1] = trace[k].chosen

History ==
    /\ OrderShape
    /\ config.routing = "round-robin" => counter = Len(trace)
    /\ \A k \in 1 .. Len(trace) : Taken(k)
    /\ SoleNoHit => Spread

\* A cold decision for target leaves it and the p targets before it in the order.
Queued(cands, target) ==
    \A p \in 0 .. Len(order) :
        p < Len(cands) /\ (\A j \in 1 .. p : order[j] \in Elems(cands)) =>
            /\ \A j \in 1 .. p : order[j] # target
            /\ p + 1 <= Len(order') /\ order'[1] = target
            /\ \A j \in 1 .. p : order'[j + 1] = order[j]

(* A decision extends the stretches it continues. *)
LEMMA SpreadStep ==
  ASSUME IsSequence(trace), OrderShape, Spread,
         \A k \in 1 .. Len(trace) : trace[k].chosen \in Elems(trace[k].cands),
         NEW cands \in Seq(All), cands # <<>>, NEW x, trace' = Append(trace, x), x.cands = cands,
         x.cold => Queued(cands, x.chosen)
  PROVE  Spread'
<1> DEFINE T == Len(trace)
           L == Len(cands)
           Goes(n, m) == \A k \in n .. m : trace'[k].cold /\ trace'[k].cands = trace'[n].cands
<1>1. T \in Nat /\ Len(trace') = T + 1 /\ (\A k \in 1 .. T : trace'[k] = trace[k]) /\ trace'[T + 1] = x
  BY Appended
<1>2. L \in Nat \ {0} /\ Len(order) \in Nat BY DEF OrderShape
<1> HIDE DEF L, T
<1>3. ASSUME NEW n \in 1 .. T, Goes(n, T + 1), (T + 1) - n < Len(trace[n].cands)
      PROVE  /\ x.cold /\ Len(trace[n].cands) = L /\ Stretch(n, T) /\ T - n < Len(trace[n].cands)
             /\ \A k \in n .. T : trace[k].cands = cands
  <2>1. \A k \in n .. T + 1 : trace'[k].cold /\ trace'[k].cands = trace'[n].cands
    BY <1>3
  <2>2. T + 1 \in n .. T + 1 /\ n \in n .. T + 1 /\ (\A k \in n .. T : k \in n .. T + 1 /\ k \in 1 .. T)
    BY <1>1
  <2>3. x.cold /\ x.cands = trace[n].cands BY <1>1, <2>1, <2>2
  <2>4. \A k \in n .. T : trace[k].cold /\ trace[k].cands = trace[n].cands
    BY <1>1, <2>1, <2>2
  <2>5. Stretch(n, T) BY <2>4 DEF Stretch
  <2>6. Len(trace[n].cands) = L /\ L \in Nat BY <1>2, <2>3 DEF L
  <2>7. T - n < Len(trace[n].cands) BY <1>1, <1>3, <2>6
  <2> QED BY <2>3, <2>4, <2>5, <2>6, <2>7
<1>4. ASSUME NEW n \in 1 .. T, Goes(n, T + 1), (T + 1) - n < Len(trace[n].cands)
      PROVE  /\ trace[n].chosen # x.chosen
             /\ (T + 1) - n + 1 <= Len(order')
             /\ order'[1] = x.chosen
             /\ \A k \in n .. T : order'[(T + 1) - k + 1] = trace[k].chosen
  <2> DEFINE p == T - n + 1
  <2>1. /\ x.cold /\ Len(trace[n].cands) = L /\ Stretch(n, T) /\ T - n < Len(trace[n].cands)
        /\ \A k \in n .. T : trace[k].cands = cands
    BY <1>3, <1>4
  <2>2. p <= Len(order) /\ \A k \in n .. T : order[T - k + 1] = trace[k].chosen
    BY <2>1 DEF Spread, T
  <2>3. p \in 1 .. Len(order) /\ p \in 0 .. Len(order) /\ p \in Nat
    BY <1>1, <1>2, <2>2
  <2>4. p < L BY <1>1, <1>2, <1>4, <2>1
  <2>5. \A k \in n .. T : T - k + 1 \in 1 .. p BY <1>1
  <2>6. \A j \in 1 .. p : order[j] \in Elems(cands)
    <3> TAKE j \in 1 .. p
    <3> DEFINE k == T - j + 1
    <3>1. k \in n .. T /\ k \in 1 .. T /\ T - k + 1 = j BY <1>1, <2>3
    <3> HIDE DEF k
    <3>2. order[j] = trace[k].chosen BY <2>2, <3>1
    <3>3. trace[k].chosen \in Elems(trace[k].cands) /\ trace[k].cands = cands
      BY <2>1, <3>1 DEF T
    <3> QED BY <3>2, <3>3
  <2>7. /\ \A j \in 1 .. p : order[j] # x.chosen
        /\ p + 1 <= Len(order') /\ order'[1] = x.chosen
        /\ \A j \in 1 .. p : order'[j + 1] = order[j]
    <3>1. Queued(cands, x.chosen) BY <2>1
    <3> HIDE DEF p
    <3> QED BY <2>3, <2>4, <2>6, <3>1 DEF Queued, L
  <2>8. trace[n].chosen # x.chosen
    <3>1. n \in n .. T /\ T - n + 1 \in 1 .. p BY <1>1, <2>5
    <3> QED BY <2>2, <2>7, <3>1
  <2>9. (T + 1) - n + 1 <= Len(order')
    <3>1. (T + 1) - n + 1 = p + 1 BY <1>1
    <3> HIDE DEF p
    <3> QED BY <2>7, <3>1
  <2>10. \A k \in n .. T : order'[(T + 1) - k + 1] = trace[k].chosen
    <3> TAKE k \in n .. T
    <3>1. T - k + 1 \in 1 .. p /\ (T + 1) - k + 1 = (T - k + 1) + 1
      BY <1>1, <2>5
    <3>2. order'[(T - k + 1) + 1] = order[T - k + 1] BY <2>7, <3>1
    <3> QED BY <2>2, <3>1, <3>2
  <2> QED BY <2>7, <2>8, <2>9, <2>10
<1>5. ASSUME NEW n \in 1 .. T + 1, NEW m \in n + 1 .. T + 1,
             Goes(n, m), m - n < Len(trace'[n].cands)
      PROVE  trace'[n].chosen # trace'[m].chosen
  <2>1. n \in 1 .. T /\ trace'[n] = trace[n] BY <1>1
  <2>2. CASE m = T + 1
    <3>0. Goes(n, T + 1)
      <4>1. Goes(n, m) BY <1>5
      <4> HIDE DEF Goes
      <4> QED BY <2>2, <4>1, Zenon
    <3>3. (T + 1) - n < Len(trace[n].cands) BY <1>1, <1>5, <2>1, <2>2, SMT
    <3>1. Goes(n, T + 1) /\ (T + 1) - n < Len(trace[n].cands) BY <3>0, <3>3
    <3>2. trace[n].chosen # x.chosen BY <1>4, <2>1, <3>1
    <3> QED BY <1>1, <2>1, <2>2, <3>2
  <2>3. CASE m # T + 1
    <3>1. m \in n + 1 .. T /\ m \in 1 .. T /\ \A k \in n .. m : k \in 1 .. T
      BY <1>1, <2>3
    <3>2. Stretch(n, m) BY <1>1, <1>5, <2>1, <3>1 DEF Stretch
    <3> QED BY <1>1, <1>5, <2>1, <3>1, <3>2 DEF Spread, T
  <2> QED BY <2>2, <2>3
<1>6. ASSUME NEW n \in 1 .. T + 1, Goes(n, T + 1), (T + 1) - n < Len(trace'[n].cands)
      PROVE  /\ (T + 1) - n + 1 <= Len(order')
             /\ \A k \in n .. T + 1 : order'[(T + 1) - k + 1] = trace'[k].chosen
  <2>1. CASE n = T + 1
    <3>1. x.cold
      <4>1. T + 1 \in n .. T + 1 BY <1>1, <2>1
      <4>2. trace'[T + 1].cold BY <1>6, <4>1
      <4> QED BY <1>1, <4>2
    <3>2. 1 <= Len(order') /\ order'[1] = x.chosen
      <4>1. Queued(cands, x.chosen) BY <3>1
      <4>2. 0 \in 0 .. Len(order) /\ 0 < Len(cands) /\ \A j \in 1 .. 0 : order[j] \in Elems(cands)
        BY <1>2 DEF L
      <4> QED BY <4>1, <4>2 DEF Queued
    <3>3. \A k \in n .. T + 1 : k = T + 1 /\ (T + 1) - k + 1 = 1 BY <1>1, <2>1
    <3>4. (T + 1) - n + 1 = 1 BY <1>1, <2>1
    <3> QED BY <1>1, <3>2, <3>3, <3>4
  <2>2. CASE n # T + 1
    <3>1. n \in 1 .. T /\ trace'[n] = trace[n] BY <1>1, <2>2
    <3>2. /\ (T + 1) - n + 1 <= Len(order')
          /\ order'[1] = x.chosen
          /\ \A k \in n .. T : order'[(T + 1) - k + 1] = trace[k].chosen
      BY <1>4, <1>6, <3>1
    <3>3. \A k \in n .. T + 1 : order'[(T + 1) - k + 1] = trace'[k].chosen
      <4> TAKE k \in n .. T + 1
      <4>1. CASE k = T + 1
        <5>1. (T + 1) - k + 1 = 1 BY <1>1, <4>1
        <5> QED BY <1>1, <3>2, <4>1, <5>1
      <4>2. CASE k # T + 1
        <5>1. k \in n .. T /\ k \in 1 .. T BY <1>1, <4>2
        <5> QED BY <1>1, <3>2, <5>1
      <4> QED BY <4>1, <4>2
    <3> QED BY <3>2, <3>3
  <2> QED BY <2>1, <2>2
<1>7. \A n, m : Stretch(n, m)' <=> Goes(n, m) BY DEF Stretch
<1> HIDE DEF Goes
<1> DEFINE Each(n, l) ==
              /\ \A m \in n + 1 .. l :
                    Goes(n, m) /\ m - n < Len(trace'[n].cands) => trace'[n].chosen # trace'[m].chosen
              /\ Goes(n, l) /\ l - n < Len(trace'[n].cands) =>
                    /\ l - n + 1 <= Len(order')
                    /\ \A k \in n .. l : order'[l - k + 1] = trace'[k].chosen
<1>8. ASSUME NEW n \in 1 .. T + 1
      PROVE  Each(n, T + 1)
  <2>1. \A m \in n + 1 .. T + 1 :
           Goes(n, m) /\ m - n < Len(trace'[n].cands) => trace'[n].chosen # trace'[m].chosen
    BY <1>5
  <2>2. Goes(n, T + 1) /\ (T + 1) - n < Len(trace'[n].cands) =>
           /\ (T + 1) - n + 1 <= Len(order')
           /\ \A k \in n .. T + 1 : order'[(T + 1) - k + 1] = trace'[k].chosen
    BY <1>6
  <2> QED BY <2>1, <2>2
<1>9. ASSUME NEW n \in 1 .. Len(trace')
      PROVE  Each(n, Len(trace'))
  <2>1. Len(trace') = T + 1 BY <1>1
  <2> HIDE DEF Each
  <2> QED BY <1>8, <2>1, Zenon
<1> QED BY <1>7, <1>9, ZenonT(60) DEF Spread

(* A cold decision of no-hit-lru alone is for an instance that is none of the *)
(* last ones, as long as those are fewer than the candidates.                *)
LEMMA ColdQueued ==
  ASSUME Readable, OrderShape, SoleNoHit, NEW r \in Reqs,
         NEW cands \in Seq(All), Distinct(cands), cands # <<>>,
         NEW s, Measured(s), DOMAIN s = Elems(cands),
         ~IsWarm([i \in DOMAIN s |-> CacheQuery(HashesOf(r), i)], s),
         NEW target \in Targets(r, cands, s), target \in All, Learn(r, cands, s, target)
  PROVE  Queued(cands, target)
<1> DEFINE hits == [i \in DOMAIN s |-> CacheQuery(HashesOf(r), i)]
           new == ObserveCold(PruneLRU(order, hits, s), IsWarm(hits, s), target)
<1>1. order' = new BY DEF Learn, SoleNoHit
<1>2. ~IsWarm(hits, s) OBVIOUS
<1> HIDE DEF hits
<1>3. /\ new # <<>> /\ new[1] = target /\ new \in Seq(All)
      /\ \A p \in 0 .. Len(order) :
            (\A j \in 1 .. p : order[j] \in DOMAIN s /\ order[j] # target)
               => /\ p + 1 <= Len(new)
                  /\ \A j \in 1 .. p : new[j + 1] = order[j]
  BY SMTT(60), <1>2, OrderObserved
<1> HIDE DEF new
<1>4. ASSUME NEW p \in 0 .. Len(order), p < Len(cands), \A j \in 1 .. p : order[j] \in Elems(cands)
      PROVE  \A j \in 1 .. p : order[j] # target
  <2> TAKE j \in 1 .. p
  <2> DEFINE kept == Only(order, DOMAIN s)
             ranked == Ranked(cands, kept)
  <2>1. order \in Seq(All) /\ Distinct(order) /\ Len(order) \in Nat /\ Len(cands) \in Nat
    BY DEF OrderShape
  <2>2. p \in Nat /\ j \in Nat /\ j >= 1 /\ Len(cands) > 1 BY <1>4, <2>1
  <2>3. p <= Len(kept) /\ \A k \in 1 .. p : kept[k] = order[k]
    BY <1>4, <2>1, OnlyPrefix
  <2>4. kept \in Seq(All) /\ Distinct(kept) /\ Elems(kept) \subseteq Elems(cands)
    BY <2>1, OnlyKeeps
  <2>5. target = ranked[1] BY <2>2, ColdTarget DEF hits
  <2> HIDE DEF kept
  <2>6. /\ ranked \in Seq(All) /\ Distinct(ranked) /\ Len(ranked) = Len(cands)
        /\ \A k \in 1 .. Len(kept) : ranked[Len(cands) + 1 - k] = kept[k]
    BY <2>4, RankedShape
  <2>7. j \in 1 .. Len(kept) BY <2>2, <2>3, <2>4
  <2>8. ranked[Len(cands) + 1 - j] = order[j] BY <2>3, <2>6, <2>7
  <2>9. Len(cands) + 1 - j \in 1 .. Len(ranked) /\ 1 \in 1 .. Len(ranked) /\ Len(cands) + 1 - j # 1
    BY <1>4, <2>1, <2>2, <2>6
  <2> HIDE DEF ranked
  <2> QED BY <2>5, <2>6, <2>8, <2>9 DEF Distinct
<1>5. ASSUME NEW p \in 0 .. Len(order), p < Len(cands), \A j \in 1 .. p : order[j] \in Elems(cands)
      PROVE  /\ p + 1 <= Len(new)
             /\ \A j \in 1 .. p : new[j + 1] = order[j]
  <2>1. \A j \in 1 .. p : order[j] \in DOMAIN s /\ order[j] # target
    BY <1>4, <1>5
  <2> QED BY <1>3, <2>1
<1> QED BY <1>1, <1>3, <1>4, <1>5 DEF Queued

(* What a routing step records, and what the policy keeps of it. *)
Recorded(x, r, cands, s) ==
    /\ trace' = Append(trace, x) /\ cands # <<>>
    /\ x.req = r /\ x.cands = cands /\ x.chosen \in Targets(r, cands, s)
    /\ x.cold = ~IsWarm([i \in DOMAIN s |-> CacheQuery(HashesOf(r), i)], s)
    /\ x.regret = Regret(r, cands, s, x.chosen)
    /\ Learn(r, cands, s, x.chosen)

(* A routing step records one decision, or leaves the policy alone. *)
LEMMA DecisionRecorded ==
  ASSUME Routing
  PROVE  LET r == Head(pending).req
         IN \/ UNCHANGED <<trace, counter, order, index>>
            \/ \E x : Recorded(x, r, Candidates(r), StateOf(Candidates(r)))
<1> DEFINE r == Head(pending).req
           cands == Candidates(r)
           s == StateOf(cands)
           cold == ~IsWarm([i \in DOMAIN s |-> CacheQuery(HashesOf(r), i)], s)
           loss(t) == Regret(r, cands, s, t)
           learnt(t) == Learn(r, cands, s, t)
           targets == Targets(r, cands, s)
           record(t) == [req |-> r, chosen |-> t, cands |-> cands, cold |-> cold,
                         regret |-> loss(t)]
<1>1. \/ UNCHANGED <<trace, counter, order, index>>
      \/ cands # <<>> /\ \E t \in targets : learnt(t) /\ trace' = Append(trace, record(t))
  BY DEF Routing, policyVars
<1>2. ASSUME NEW t \in targets, cands # <<>>, learnt(t), trace' = Append(trace, record(t))
      PROVE  \E x : Recorded(x, r, cands, s)
  <2>1. /\ record(t).req = r /\ record(t).cands = cands /\ record(t).chosen = t /\ record(t).cold = cold
        /\ record(t).regret = loss(t)
    <3> HIDE DEF cands, s, cold, loss
    <3> QED OBVIOUS
  <2> DEFINE x == record(t)
  <2>2. /\ trace' = Append(trace, x) /\ x.req = r /\ x.cands = cands /\ x.chosen = t /\ x.cold = cold
        /\ x.regret = loss(t)
    BY <1>2, <2>1
  <2> HIDE DEF x
  <2>3. x.chosen \in targets /\ learnt(x.chosen) /\ x.regret = loss(x.chosen)
    <3> HIDE DEF targets, learnt, loss
    <3> QED BY <1>2, <2>2
  <2>4. Recorded(x, r, cands, s)
    <3>1. cands # <<>> BY <1>2
    <3> QED BY <2>2, <2>3, <3>1, Zenon DEF Recorded
  <2> QED BY <2>4
<1> HIDE DEF targets, learnt, record
<1>3. ASSUME ~UNCHANGED <<trace, counter, order, index>>
      PROVE  \E x : Recorded(x, r, cands, s)
  BY <1>1, <1>2, <1>3
<1> QED BY <1>3

(* Nothing else touches the history of decisions. *)
LEMMA HistoryStays ==
  ASSUME History, UNCHANGED <<config, trace, counter, order>>
  PROVE  History'
<1>1. config' = config /\ trace' = trace /\ counter' = counter /\ order' = order
  OBVIOUS
<1>2. OrderShape' BY <1>1 DEF History, OrderShape, Distinct
<1>3. \A k \in 1 .. Len(trace') : Taken(k)' BY <1>1 DEF History, Taken
<1>4. SoleNoHit' => Spread'
  <2>1. SoleNoHit' <=> SoleNoHit BY <1>1 DEF SoleNoHit, Uses
  <2>2. Spread' <=> Spread
    <3> DEFINE Goes(t, n, m) == \A k \in n .. m : t[k].cold /\ t[k].cands = t[n].cands
               Each(t, o) ==
                 \A n \in 1 .. Len(t) :
                   /\ \A m \in n + 1 .. Len(t) :
                         Goes(t, n, m) /\ m - n < Len(t[n].cands) => t[n].chosen # t[m].chosen
                   /\ Goes(t, n, Len(t)) /\ Len(t) - n < Len(t[n].cands) =>
                         /\ Len(t) - n + 1 <= Len(o)
                         /\ \A k \in n .. Len(t) : o[Len(t) - k + 1] = t[k].chosen
    <3>1. Spread <=> Each(trace, order) BY Zenon DEF Spread, Stretch
    <3>2. Spread' <=> Each(trace', order') BY Zenon DEF Spread, Stretch
    <3> HIDE DEF Each
    <3> QED BY <1>1, <3>1, <3>2
  <2> QED BY <2>1, <2>2 DEF History
<1>5. config'.routing = "round-robin" => counter' = Len(trace')
  BY <1>1 DEF History
<1> QED BY <1>2, <1>3, <1>4, <1>5 DEF History

(* A routing step adds a decision of the policy to the history. *)
LEMMA RoutingHistory == Readable /\ Loads /\ History /\ Routing => History'
<1> SUFFICES ASSUME Readable, Loads, History, Routing PROVE History' OBVIOUS
<1> DEFINE r == Head(pending).req
           cands == Candidates(r)
           s == StateOf(cands)
<1>1. config' = config /\ IsSequence(trace) /\ OrderShape
  BY DEF Routing, Readable, Shapes, History
<1>2. r \in Reqs
  <2>1. pending \in Seq(Waits) /\ pending # <<>>
    BY DEF Routing, Readable, Shapes
  <2>2. Head(pending) \in Waits BY <2>1, HeadTail
  <2> QED BY <2>2 DEF Waits
<1>3. \/ UNCHANGED <<trace, counter, order>>
      \/ \E x : Recorded(x, r, cands, s)
  BY DecisionRecorded
<1>4. CASE UNCHANGED <<trace, counter, order>> BY <1>1, <1>4, HistoryStays
<1>5. ASSUME NEW x, Recorded(x, r, cands, s)
      PROVE  History'
  <2>1. cands \in Seq(All) /\ Distinct(cands) /\ cands # <<>>
    BY <1>5, CandidatesShape DEF Recorded, Readable
  <2>2. Measured(s) /\ DOMAIN s = Elems(cands) BY <2>1, StateMeasured
  <2> HIDE DEF r, s, cands
  <2>3. /\ trace' = Append(trace, x) /\ x.cands = cands /\ x.chosen \in Targets(r, cands, s)
        /\ x.cold = ~IsWarm([i \in DOMAIN s |-> CacheQuery(HashesOf(r), i)], s)
        /\ x.regret = Regret(r, cands, s, x.chosen) /\ Learn(r, cands, s, x.chosen)
    BY <1>5 DEF Recorded
  <2>4. config.routing \in {"weighted", "least-loaded"}
           => x.chosen \in Elems(cands) /\ x.regret = 0
    BY <1>1, <1>2, <2>1, <2>2, <2>3, ChosenBest
  <2>5. config.routing = "round-robin" =>
           /\ x.chosen = cands[(Len(trace) % Len(cands)) + 1]
           /\ counter' = Len(trace) + 1
    <3>1. config.routing = "round-robin" => counter = Len(trace) BY DEF History
    <3> QED BY <2>3, <3>1 DEF Targets, RoundRobinPick, Learn
  <2>6. /\ Len(trace) \in Nat /\ Len(trace') = Len(trace) + 1
        /\ (\A k \in 1 .. Len(trace) : trace'[k] = trace[k]) /\ trace'[Len(trace) + 1] = x
    BY <1>1, <2>3, Appended
  <2>7. ASSUME NEW k \in 1 .. Len(trace')
        PROVE  Taken(k)'
    <3>1. CASE k = Len(trace) + 1
      <4>1. trace'[k] = x /\ k - 1 = Len(trace) BY <2>6, <3>1
      <4> QED BY <1>1, <2>1, <2>3, <2>4, <2>5, <4>1 DEF Taken
    <3>2. CASE k # Len(trace) + 1
      <4>1. k \in 1 .. Len(trace) /\ trace'[k] = trace[k] BY <2>6, <3>2
      <4>2. Taken(k) BY <4>1 DEF History
      <4> QED BY <1>1, <4>1, <4>2 DEF Taken
    <3> QED BY <3>1, <3>2
  <2>8. Uses("no-hit-lru") => x.chosen \in All
    <3>1. ASSUME Uses("no-hit-lru")
          PROVE  config.routing = "weighted"
      <4>1. Len(config.scorers) \in Nat /\ (config.scorers # <<>> => config.routing = "weighted")
        BY ScorersGiven
      <4>2. PICK n \in 1 .. Len(config.scorers) : config.scorers[n].name = "no-hit-lru"
        BY <3>1 DEF Uses
      <4> DEFINE q == config.scorers
      <4>3. q # <<>>
        <5>1. n \in 1 .. Len(q) BY <4>2
        <5> HIDE DEF q
        <5> QED BY <5>1
      <4> QED BY <4>1, <4>3
    <3> QED BY <2>1, <2>4, <3>1 DEF Elems
  <2>9. OrderShape'
    <3>1. CASE Uses("no-hit-lru")
      <4> DEFINE hits == [i \in DOMAIN s |-> CacheQuery(HashesOf(r), i)]
                 new == ObserveCold(PruneLRU(order, hits, s), IsWarm(hits, s), x.chosen)
      <4>1. order' = new BY <2>3, <3>1 DEF Learn
      <4> HIDE DEF hits
      <4>2. new \in Seq(All) /\ Distinct(new)
        BY <1>1, <2>8, <3>1, OrderObserved
      <4> QED BY <4>1, <4>2 DEF OrderShape, Distinct
    <3>2. CASE ~Uses("no-hit-lru")
      <4>1. order' = order BY <2>3, <3>2 DEF Learn
      <4> QED BY <1>1, <4>1 DEF OrderShape, Distinct
    <3> QED BY <3>1, <3>2
  <2>10. ASSUME SoleNoHit
         PROVE  Spread'
    <3>1. config.routing = "weighted" /\ Uses("no-hit-lru")
      <4>1. config.scorers # <<>>
        <5> DEFINE q == config.scorers
        <5>1. Len(q) = 1 BY <2>10 DEF SoleNoHit
        <5>2. q # <<>>
          <6> HIDE DEF q
          <6> QED BY <5>1
        <5> QED BY <5>2
      <4> QED BY <2>10, <4>1, ScorersGiven DEF SoleNoHit
    <3>2. \A k \in 1 .. Len(trace) : trace[k].chosen \in Elems(trace[k].cands)
      BY <3>1 DEF History, Taken
    <3>3. x.cold => Queued(cands, x.chosen)
      <4>1. ASSUME x.cold PROVE Queued(cands, x.chosen)
        <5>1. ~IsWarm([i \in DOMAIN s |-> CacheQuery(HashesOf(r), i)], s)
          BY <2>3, <4>1
        <5>2. x.chosen \in All BY <2>8, <3>1
        <5> QED BY <1>1, <1>2, <2>1, <2>2, <2>3, <2>10, <5>1, <5>2, ColdQueued
      <4> QED BY <4>1
    <3>4. Spread BY <2>10 DEF History
    <3> QED BY <1>1, <2>1, <2>3, <3>2, <3>3, <3>4, SpreadStep
  <2>11. SoleNoHit' <=> SoleNoHit BY <1>1 DEF SoleNoHit, Uses
  <2>12. config'.routing = "round-robin" => counter' = Len(trace')
    BY <1>1, <2>5, <2>6
  <2> QED BY <2>7, <2>9, <2>10, <2>11, <2>12 DEF History
<1> HIDE DEF r, s, cands
<1> QED BY <1>3, <1>4, <1>5

------------------------------
(* Taking turns. *)

(* A remainder is what is left of a multiple. *)
LEMMA Remainder ==
  ASSUME NEW b \in Nat \ {0}, NEW a \in Int, NEW p \in 0 .. b - 1
  PROVE  (b * a + p) % b = p
<1> DEFINE x == b * a + p
           c == x \div b
           e == x % b
<1>1. x \in Int OBVIOUS
<1> HIDE DEF x
<1>2. c \in Int /\ x = b * c + e /\ e \in 0 .. b - 1 BY <1>1, Quotient
<1> HIDE DEF c, e
<1>3. b * a + p = b * c + e BY <1>2 DEF x
<1>4. b * a \in Int /\ b * c \in Int /\ e \in Int /\ p \in Int BY <1>2
<1>5. ~(a > c)
  <2> SUFFICES ASSUME a > c PROVE FALSE OBVIOUS
  <2>1. b * a >= b * c + b BY <1>2, ProductStep
  <2> QED BY <1>2, <1>3, <1>4, <2>1
<1>6. ~(c > a)
  <2> SUFFICES ASSUME c > a PROVE FALSE OBVIOUS
  <2>1. b * c >= b * a + b BY <1>2, ProductStep
  <2> QED BY <1>2, <1>3, <1>4, <2>1
<1>7. a = c BY <1>2, <1>5, <1>6
<1>8. e = p
  <2> DEFINE y == b * a
             z == b * c
  <2>1. y = z BY <1>7
  <2>2. y + p = z + e /\ y \in Int /\ z \in Int BY <1>3, <1>4
  <2> HIDE DEF y, z
  <2> QED BY <1>4, <2>1, <2>2
<1> QED BY <1>8 DEF e, x

\* x and y are turns of p among b targets, d the distance to the turn of q.
TwoTurns(b, p, q, x, y, d) ==
    /\ b \in Nat \ {0} /\ p \in 0 .. b - 1 /\ q \in 0 .. b - 1
    /\ x \in Int /\ y \in Int /\ x < y /\ x % b = p /\ y % b = p
    /\ d \in Int /\ (q >= p => d = q - p) /\ (q < p => d = q - p + b)

\* x + d is a turn of q before y.
TurnBefore(b, q, x, y, d) == d \in Nat /\ x + d < y /\ (x + d) % b = q

(* Between two turns of one target every other target has one. *)
LEMMA NextTurn ==
  ASSUME NEW b, NEW p, NEW q, NEW x, NEW y, NEW d, TwoTurns(b, p, q, x, y, d)
  PROVE  TurnBefore(b, q, x, y, d)
<1> SUFFICES d \in Nat /\ x + d < y /\ (x + d) % b = q BY DEF TurnBefore
<1>0. /\ b \in Nat \ {0} /\ p \in 0 .. b - 1 /\ q \in 0 .. b - 1
      /\ x \in Int /\ y \in Int /\ x < y /\ x % b = p /\ y % b = p
      /\ d \in Int /\ (q >= p => d = q - p) /\ (q < p => d = q - p + b)
  BY DEF TwoTurns
<1> DEFINE u == x \div b
           v == y \div b
<1>1. u \in Int /\ v \in Int /\ x = b * u + p /\ y = b * v + p
  BY ZenonT(60), <1>0, Quotient
<1> HIDE DEF u, v
<1>2. b * u \in Int /\ b * v \in Int BY <1>0, <1>1
<1>3. v > u
  <2> SUFFICES ASSUME ~(v > u) PROVE FALSE OBVIOUS
  <2>1. CASE v = u BY <1>0, <1>1, <2>1
  <2>2. CASE u > v
    <3>1. b * u >= b * v + b BY <1>0, <1>1, <2>2, ProductStep
    <3> QED BY <1>0, <1>1, <1>2, <3>1
  <2> QED BY <1>0, <1>1, <2>1, <2>2
<1>4. b * v >= b * u + b BY <1>0, <1>1, <1>3, ProductStep
<1>5. d \in 0 .. b - 1 BY <1>0
<1>6. x + d < y BY <1>0, <1>1, <1>2, <1>4, <1>5
<1>7. CASE q >= p
  <2>1. x + d = b * u + q BY <1>0, <1>1, <1>2, <1>7
  <2>2. (b * u + q) % b = q BY <1>0, <1>1, Remainder
  <2> QED BY <1>0, <1>5, <1>6, <2>1, <2>2
<1>8. CASE q < p
  <2>1. b * (u + 1) = b * u + b BY <1>0, <1>1
  <2>2. x + d = b * u + b + q BY <1>0, <1>1, <1>2, <1>8
  <2>3. x + d = b * (u + 1) + q BY <1>0, <2>1, <2>2
  <2>4. (b * (u + 1) + q) % b = q BY <1>0, <1>1, Remainder
  <2> QED BY <1>0, <1>5, <1>6, <2>3, <2>4
<1> QED BY <1>0, <1>7, <1>8

\* The turns of p among b targets from n to m.
Turns(n, m, b, p) == {k \in n .. m : (k - 1) % b = p}

(* In any stretch of turns no target has two more than another. *)
LEMMA TurnsFair ==
  ASSUME NEW n \in Nat, NEW m \in Nat, NEW b \in Nat \ {0},
         NEW p \in 0 .. b - 1, NEW q \in 0 .. b - 1
  PROVE  Cardinality(Turns(n, m, b, p)) <= Cardinality(Turns(n, m, b, q)) + 1
<1> DEFINE A == {k \in n .. m : (k - 1) % b = p}
           B == {k \in n .. m : (k - 1) % b = q}
           d == IF q >= p THEN q - p ELSE q - p + b
<1>1. IsFiniteSet(A) /\ IsFiniteSet(B)
  <2>1. IsFiniteSet(n .. m) BY FS_Interval
  <2>2. A \in SUBSET (n .. m) /\ B \in SUBSET (n .. m) OBVIOUS
  <2> HIDE DEF A, B
  <2> QED BY <2>1, <2>2, FS_Subset
<1>2. Cardinality(A) \in Nat /\ Cardinality(B) \in Nat
  <2> HIDE DEF A, B
  <2> QED BY <1>1, FS_CardinalityType
<1>3. CASE A = {}
  <2>1. Cardinality(A) = 0
    <3> HIDE DEF A
    <3> QED BY <1>3, FS_EmptySet
  <2> HIDE DEF A, B
  <2>2. Cardinality(A) <= Cardinality(B) + 1 BY <1>2, <2>1
  <2> QED BY <2>2 DEF A, B, Turns
<1>4. CASE A # {}
  <2>1. PICK last \in A : \A k \in A : last >= k
    <3>1. A \subseteq Int OBVIOUS
    <3> HIDE DEF A
    <3> QED BY <1>1, <1>4, <3>1, Extremes
  <2> DEFINE C == A \ {last}
             f == [k \in C |-> k + d]
  <2>2. ASSUME NEW k \in C
        PROVE  f[k] \in B
    <3>1. /\ k \in n .. m /\ (k - 1) % b = p /\ k < last
          /\ last \in n .. m /\ (last - 1) % b = p
      BY <2>1
    <3> DEFINE x == k - 1
               y == last - 1
    <3>2. x \in Int /\ y \in Int /\ x < y /\ x % b = p /\ y % b = p BY <3>1
    <3>6. d \in Int /\ (q >= p => d = q - p) /\ (q < p => d = q - p + b)
      OBVIOUS
    <3>7. TwoTurns(b, p, q, x, y, d) BY <3>2, <3>6 DEF TwoTurns
    <3> HIDE DEF x, y
    <3>8. TurnBefore(b, q, x, y, d)
      <4> HIDE DEF d
      <4> QED BY <3>7, NextTurn, Zenon
    <3>3. d \in Nat /\ x + d < y /\ (x + d) % b = q
      BY <3>8, Zenon DEF TurnBefore
    <3>4. f[k] = k + d OBVIOUS
    <3> HIDE DEF d, f, C
    <3>5. f[k] \in n .. m /\ f[k] - 1 = x + d BY <3>1, <3>3, <3>4 DEF x, y
    <3> QED BY <3>3, <3>5
  <2>3. f \in Injection(C, B)
    <3>1. f \in [C -> B]
      <4> HIDE DEF B, C, d
      <4> QED BY <2>2
    <3>2. d \in Int /\ C \subseteq Int OBVIOUS
    <3>3. \A j, k \in C : f[j] = f[k] => j = k
      <4> HIDE DEF d, C
      <4> QED BY <3>2
    <3>4. DOMAIN f = C OBVIOUS
    <3> HIDE DEF f, B, C
    <3> QED BY <3>1, <3>3, <3>4 DEF Injection, IsInjective
  <2> HIDE DEF A, B, f, C
  <2>4. Cardinality(C) <= Cardinality(B) BY <1>1, <2>3, FS_Injection
  <2>5. Cardinality(C) = Cardinality(A) - 1
    BY <1>1, <2>1, FS_RemoveElement DEF C
  <2>6. Cardinality(A) <= Cardinality(B) + 1 BY <1>2, <2>4, <2>5
  <2> QED BY <2>6 DEF A, B, Turns
<1> HIDE DEF A, B
<1> QED BY <1>3, <1>4

------------------------------
(* What the history of decisions says of the policies. *)

(* Round-robin takes turns over a stretch with the same candidates. *)
LEMMA TakesTurns ==
  ASSUME History, config.routing = "round-robin", NEW n \in 1 .. Len(trace), NEW m \in 1 .. Len(trace),
         n <= m, \A k \in n .. m : trace[k].cands = trace[n].cands, Len(trace) \in Nat,
         NEW i \in Elems(trace[n].cands), NEW j \in Elems(trace[n].cands)
  PROVE  Cardinality({k \in n .. m : trace[k].chosen = i})
            <= Cardinality({k \in n .. m : trace[k].chosen = j}) + 1
<1> DEFINE cands == trace[n].cands
           b == Len(cands)
<1>1. cands \in Seq(All) /\ Distinct(cands) /\ cands # <<>>
  BY DEF History, Taken
<1>2. \A k \in n .. m : trace[k].chosen = cands[((k - 1) % b) + 1]
  <2> TAKE k \in n .. m
  <2>1. k \in 1 .. Len(trace) /\ trace[k].cands = cands OBVIOUS
  <2>2. Taken(k) BY <2>1 DEF History
  <2>3. trace[k].chosen = trace[k].cands[((k - 1) % Len(trace[k].cands)) + 1]
    BY <2>2 DEF Taken
  <2> HIDE DEF cands
  <2> QED BY <2>1, <2>3
<1>3. i \in Elems(cands) /\ j \in Elems(cands) OBVIOUS
<1> HIDE DEF cands
<1>4. b \in Nat \ {0} BY <1>1
<1>5. ASSUME NEW x \in Elems(cands)
      PROVE  \E p \in 0 .. b - 1 :
                {k \in n .. m : trace[k].chosen = x} = Turns(n, m, b, p)
  <2>1. PICK e \in 1 .. b : cands[e] = x BY DEF Elems
  <2> DEFINE p == e - 1
  <2>2. p \in 0 .. b - 1 /\ p + 1 = e BY <1>4
  <2>3. \A k \in n .. m : trace[k].chosen = x <=> (k - 1) % b = p
    <3> TAKE k \in n .. m
    <3> DEFINE w == (k - 1) % b
    <3>1. w \in 0 .. b - 1
      <4>1. k - 1 \in Int OBVIOUS
      <4> HIDE DEF b
      <4> QED BY <1>4, <4>1, Quotient
    <3>2. trace[k].chosen = cands[w + 1] BY <1>2
    <3> HIDE DEF w
    <3>3. w + 1 \in 1 .. Len(cands) /\ e \in 1 .. Len(cands) BY <1>4, <3>1
    <3>4. cands[w + 1] = cands[e] <=> w + 1 = e BY <1>1, <3>3 DEF Distinct
    <3>5. w + 1 = e <=> w = p BY <1>4, <3>1
    <3>6. trace[k].chosen = x <=> w = p BY <2>1, <3>2, <3>4, <3>5
    <3> QED BY <3>6 DEF w
  <2> HIDE DEF p, b
  <2> QED BY <2>2, <2>3 DEF Turns
<1>6. PICK p \in 0 .. b - 1 :
         {k \in n .. m : trace[k].chosen = i} = Turns(n, m, b, p)
  BY <1>3, <1>5
<1>7. PICK q \in 0 .. b - 1 :
         {k \in n .. m : trace[k].chosen = j} = Turns(n, m, b, q)
  BY <1>3, <1>5
<1>8. n \in Nat /\ m \in Nat OBVIOUS
<1> HIDE DEF b
<1>9. Cardinality(Turns(n, m, b, p)) <= Cardinality(Turns(n, m, b, q)) + 1
  BY <1>4, <1>8, TurnsFair
<1> QED BY <1>6, <1>7, <1>9

(* The three properties of the policies. *)
LEMMA HistoryFair ==
  ASSUME Readable, History
  PROVE  RoutingFair
<1>1. Len(trace) \in Nat BY Appended DEF Readable, Shapes
<1>2. RegretStructurallyZero BY DEF History, Taken, RegretStructurallyZero
<1>3. RoundRobinFair
  <2> SUFFICES ASSUME config.routing = "round-robin",
                      NEW n \in 1 .. Len(trace), NEW m \in 1 .. Len(trace),
                      n <= m, \A k \in n .. m : trace[k].cands = trace[n].cands,
                      NEW i \in Elems(trace[n].cands), NEW j \in Elems(trace[n].cands)
               PROVE  Cardinality({k \in n .. m : trace[k].chosen = i})
                         <= Cardinality({k \in n .. m : trace[k].chosen = j}) + 1
    BY Zenon DEF RoundRobinFair
  <2> QED BY ZenonT(60), <1>1, TakesTurns
<1>4. ColdRequestsSpread
  <2> DEFINE last(n) == Min({Len(trace), n + Len(trace[n].cands) - 1})
  <2> SUFFICES ASSUME SoleNoHit, NEW n \in 1 .. Len(trace), NEW m \in n + 1 .. last(n),
                      \A k \in n .. m : trace[k].cold /\ trace[k].cands = trace[n].cands
               PROVE  trace[n].chosen # trace[m].chosen
    BY Zenon DEF ColdRequestsSpread, SoleNoHit
  <2>1. Len(trace[n].cands) \in Nat BY DEF History, Taken
  <2> DEFINE x == Len(trace)
             y == n + Len(trace[n].cands) - 1
  <2>2. x \in Int /\ y \in Int BY <1>1, <2>1
  <2>3. last(n) = IF x <= y THEN x ELSE y
    <3>1. last(n) = Min({x, y}) OBVIOUS
    <3> HIDE DEF x, y, last
    <3> QED BY <2>2, <3>1, MaxMinPair
  <2>4. m \in n + 1 .. Len(trace) /\ m - n < Len(trace[n].cands)
    <3> DEFINE l == last(n)
    <3>1. m \in n + 1 .. l /\ l = IF x <= y THEN x ELSE y BY <2>3
    <3> HIDE DEF l, last
    <3> QED BY <1>1, <2>1, <3>1
  <2>5. Stretch(n, m) BY Zenon DEF Stretch
  <2>6. Spread BY DEF History
  <2> QED BY <2>4, <2>5, <2>6, Zenon DEF Spread
<1> QED BY <1>2, <1>3, <1>4 DEF RoutingFair

(* At the start nothing has been decided. *)
LEMMA InitHistory == Init => History
<1> SUFFICES ASSUME Init PROVE History OBVIOUS
<1>1. trace = <<>> /\ order = <<>> /\ counter = 0 BY DEF Init
<1>2. Len(trace) = 0 /\ Len(order) = 0 /\ order \in Seq(All) BY <1>1
<1>3. \A k \in 1 .. Len(trace) : FALSE BY <1>2
<1> QED BY <1>1, <1>2, <1>3 DEF History, OrderShape, Distinct, Spread

(* Over a history of decisions each policy does what it is for: no-hit-lru   *)
(* spreads cold requests, round-robin takes turns, and the policies that go  *)
(* by score take a best one (Route of sim/routing.go and                     *)
(* computeCounterfactual of sim/cluster).                                    *)
THEOREM RouterRoutingFair == Spec => []RoutingFair
<1> DEFINE Inv == Loads /\ History
<1>1. Init => Inv BY InitLoads, InitHistory
<1>2. Readable /\ Inv /\ [Next]_vars => Inv'
  <2> SUFFICES ASSUME Readable, Loads, History, [Next]_vars PROVE Loads' /\ History'
    OBVIOUS
  <2>1. CASE Admission
    <3>1. UNCHANGED <<config, trace, counter, order>>
      BY <2>1 DEF Admission, policyVars
    <3> QED BY <2>1, <3>1, AdmissionLoads, HistoryStays
  <2>2. CASE Routing BY <2>2, RoutingLoads, RoutingHistory
  <2>3. CASE AddInstance \/ InstanceLoaded \/ Tick \/ (\E i \in All : Drain(i)) \/ UNCHANGED vars
    <3>1. UNCHANGED <<config, trace, counter, order>>
      BY <2>3 DEF AddInstance, InstanceLoaded, Tick, Drain, policyVars, vars
    <3> QED BY <2>3, <3>1, OtherLoads, HistoryStays
  <2>4. ASSUME NEW i \in All, Enqueue(i) \/ Schedule(i) \/ Complete(i)
        PROVE  Loads' /\ History'
    <3>1. UNCHANGED <<config, trace, counter, order>>
      BY <2>4 DEF Enqueue, Schedule, Complete, policyVars
    <3> QED BY <2>4, <3>1, EnqueueLoads, ScheduleLoads, CompleteLoads, HistoryStays
  <2> QED BY <2>1, <2>2, <2>3, <2>4 DEF Next
<1>3. Readable /\ Inv => RoutingFair BY HistoryFair
<1> HIDE DEF Inv
<1> QED BY <1>1, <1>2, <1>3, ProviderInvariant, PTL DEF Spec

------------------------------
(* The token bucket and the quantities with a bound. *)

(* A sum grows by what is appended. *)
LEMMA TotalAppend ==
  ASSUME NEW s \in Seq(Int), NEW x \in Int
  PROVE  Total(Append(s, x)) = Total(s) + x /\ Total(s) \in Int
<1> DEFINE t == Append(s, x)
           n == Len(s)
<1>1. /\ n \in Nat /\ t \in Seq(Int) /\ Len(t) = n + 1 /\ t[n + 1] = x
      /\ \A k \in 1 .. n : t[k] = s[k] /\ s[k] \in Int
  OBVIOUS
<1> HIDE DEF t
<1>2. PICK f \in [0 .. Len(s) -> Int] : TotalSteps(f, s) BY TotalRun, Zenon
<1>3. PICK g \in [0 .. Len(t) -> Int] : TotalSteps(g, t)
  BY <1>1, TotalRun, Zenon
<1>4. /\ f[0] = 0 /\ (\A k \in 1 .. Len(s) : f[k] = f[k - 1] + s[k]) /\ Total(s) = f[Len(s)]
      /\ g[0] = 0 /\ (\A k \in 1 .. Len(t) : g[k] = g[k - 1] + t[k]) /\ Total(t) = g[Len(t)]
  BY <1>2, <1>3 DEF TotalSteps
<1> DEFINE Same == {k \in 0 .. n : g[k] = f[k]}
<1>5. 0 \in Same BY <1>1, <1>4
<1>6. ASSUME NEW k \in 1 .. n, k - 1 \in Same PROVE k \in Same
  <2>1. k \in 1 .. Len(t) /\ k \in 1 .. Len(s) /\ g[k - 1] = f[k - 1] /\ k \in 0 .. n
    BY <1>1, <1>6
  <2>2. g[k] = g[k - 1] + t[k] /\ f[k] = f[k - 1] + s[k] /\ t[k] = s[k]
    BY <1>1, <1>4, <2>1
  <2> QED BY <2>1, <2>2
<1>7. n \in Same
  <2>1. \A k \in 0 .. n : k \in Same
    <3> HIDE DEF Same, n
    <3> QED BY <1>1, <1>5, <1>6, StepsInduction
  <2> QED BY <1>1, <2>1
<1>8. g[n] = f[n] /\ f[n] \in Int /\ n + 1 \in 1 .. Len(t) /\ (n + 1) - 1 = n
  BY <1>1, <1>7
<1>9. g[n + 1] = g[(n + 1) - 1] + t[n + 1] BY <1>4, <1>8
<1> QED BY <1>1, <1>4, <1>8, <1>9 DEF t

\* The tokens each admission record took from the bucket.
Spent(a) == [n \in 1 .. Len(a) |-> IF a[n].ok THEN Cost(a[n].req) ELSE 0]

\* The bucket is between empty and full, refilled in the past, and the admission
\* records are of requests.
Bucket ==
    /\ bucket \in [tokens : Nat, last : Nat]
    /\ bucket.tokens <= BucketCapacity /\ bucket.last <= clock
    /\ IsSequence(admitted) /\ \A n \in 1 .. Len(admitted) : admitted[n].req \in Reqs
    /\ BucketBound

(* A request costs what its prompt is long. *)
LEMMA CostWhole == ASSUME NEW r \in Reqs PROVE Cost(r) \in Nat
<1>1. Requests[r].prompt \in Seq(Elems(Requests[r].prompt))
  BY RouterAssumption DEF IsSequence, Reqs
<1> DEFINE p == Requests[r].prompt
           A == Elems(p)
<1>2. p \in Seq(A) BY <1>1
<1>3. Len(p) \in Nat
  <2> HIDE DEF p, A
  <2> QED BY <1>2
<1> QED BY <1>3 DEF Cost

(* Every record costs something whole. *)
LEMMA SpentWhole ==
  ASSUME NEW a, IsSequence(a), \A n \in 1 .. Len(a) : a[n].req \in Reqs
  PROVE  Spent(a) \in Seq(Int) /\ Len(Spent(a)) = Len(a)
<1>1. Len(a) \in Nat BY Appended
<1>2. \A n \in 1 .. Len(a) : (IF a[n].ok THEN Cost(a[n].req) ELSE 0) \in Int
  BY CostWhole
<1> QED BY <1>1, <1>2 DEF Spent

(* One more record adds its cost. *)
LEMMA SpentAppend ==
  ASSUME NEW a, IsSequence(a), \A n \in 1 .. Len(a) : a[n].req \in Reqs,
         NEW y, y.req \in Reqs
  PROVE  Total(Spent(Append(a, y))) = Total(Spent(a)) + (IF y.ok THEN Cost(y.req) ELSE 0)
<1> DEFINE x == IF y.ok THEN Cost(y.req) ELSE 0
           b == Append(a, y)
<1>1. /\ IsSequence(b) /\ Len(a) \in Nat /\ Len(b) = Len(a) + 1
      /\ (\A n \in 1 .. Len(a) : b[n] = a[n]) /\ b[Len(a) + 1] = y
  BY Appended
<1>2. x \in Int BY CostWhole
<1>3. Spent(a) \in Seq(Int) /\ Len(Spent(a)) = Len(a) BY SpentWhole
<1> HIDE DEF b
<1>4. Spent(b) = Append(Spent(a), x)
  <2>1. \A n \in 1 .. Len(a) : Spent(b)[n] = Spent(a)[n] BY <1>1 DEF Spent
  <2>2. Spent(b)[Len(a) + 1] = x BY <1>1 DEF Spent
  <2>3. \A n \in 1 .. Len(b) : b[n].req \in Reqs
    <3> TAKE n \in 1 .. Len(b)
    <3>1. CASE n = Len(a) + 1 BY <1>1, <3>1
    <3>2. CASE n # Len(a) + 1
      <4>1. n \in 1 .. Len(a) BY <1>1, <3>2
      <4> QED BY <1>1, <4>1
    <3> QED BY <3>1, <3>2
  <2>4. Spent(b) \in Seq(Int) /\ Len(Spent(b)) = Len(a) + 1
    BY <1>1, <2>3, SpentWhole
  <2> DEFINE u == Spent(b)
             v == Spent(a)
             w == Append(v, x)
  <2>5. w \in Seq(Int) /\ Len(w) = Len(v) + 1 /\ w[Len(v) + 1] = x
        /\ \A n \in 1 .. Len(v) : w[n] = v[n]
    <3>1. v \in Seq(Int) BY <1>3
    <3> HIDE DEF v, x
    <3> QED BY <1>2, <3>1
  <2> HIDE DEF u, v, w, x
  <2>6. u \in Seq(Int) /\ Len(u) = Len(w) /\ \A n \in 1 .. Len(u) : u[n] = w[n]
    <3>1. u \in Seq(Int) /\ Len(u) = Len(a) + 1 /\ Len(v) = Len(a)
          /\ (\A n \in 1 .. Len(a) : u[n] = v[n]) /\ u[Len(a) + 1] = x
      BY <1>3, <2>1, <2>2, <2>4 DEF u, v
    <3>2. Len(a) \in Nat /\ Len(w) = Len(a) + 1 /\ w[Len(a) + 1] = x
          /\ \A n \in 1 .. Len(a) : w[n] = v[n]
      BY <1>1, <2>5, <3>1
    <3>3. \A n \in 1 .. Len(u) : u[n] = w[n]
      <4> TAKE n \in 1 .. Len(u)
      <4>1. n \in 1 .. Len(a) \/ n = Len(a) + 1 BY <3>1, <3>2
      <4> QED BY <3>1, <3>2, <4>1
    <3> QED BY <3>1, <3>2, <3>3
  <2>7. u = w BY <2>5, <2>6
  <2> QED BY <2>7 DEF u, v, w
<1> HIDE DEF x
<1>5. Total(Append(Spent(a), x)) = Total(Spent(a)) + x
  BY <1>2, <1>3, TotalAppend
<1> QED BY <1>4, <1>5 DEF x, b

(* The refill: never above the capacity, never more than was due. *)
LEMMA Refill ==
  ASSUME Bucket, clock \in Nat
  PROVE  /\ Refilled \in [tokens : Nat, last : Nat]
         /\ Refilled.tokens <= BucketCapacity /\ Refilled.last = clock
         /\ Refilled.tokens + RefillRate * bucket.last <= bucket.tokens + RefillRate * clock
<1> DEFINE d == clock - bucket.last
           x == BucketCapacity
           y == bucket.tokens + d * RefillRate
           a == RefillRate * bucket.last
           b == RefillRate * clock
<1>1. /\ bucket.tokens \in Nat /\ bucket.last \in Nat /\ bucket.last <= clock
      /\ bucket.tokens <= BucketCapacity
      /\ BucketCapacity \in Nat /\ RefillRate \in Nat
  BY RouterAssumption DEF Bucket
<1>2. d \in Nat BY <1>1
<1>3. d * RefillRate \in Nat
  <2> HIDE DEF d
  <2> QED BY <1>1, <1>2, ProductNat
<1>4. d * RefillRate = b - a /\ a \in Int /\ b \in Int BY <1>1
<1>5. x \in Int /\ y \in Int /\ x >= 0 /\ y >= 0 /\ y = bucket.tokens + (b - a)
  BY <1>1, <1>3, <1>4
<1>6. Refilled = [tokens |-> Min({x, y}), last |-> clock] BY DEF Refilled
<1> HIDE DEF x, y, a, b
<1>7. Min({x, y}) = IF x <= y THEN x ELSE y BY <1>5, MaxMinPair
<1>8. Refilled.tokens = (IF x <= y THEN x ELSE y) /\ Refilled.last = clock
      /\ Refilled = [tokens |-> Refilled.tokens, last |-> Refilled.last]
  BY <1>6, <1>7
<1>9. Refilled.tokens \in Nat /\ Refilled.tokens <= x /\ Refilled.tokens <= y
  BY <1>5, <1>8
<1>10. Refilled.tokens + a <= bucket.tokens + b BY <1>1, <1>4, <1>5, <1>9
<1> QED BY <1>8, <1>9, <1>10 DEF x, a, b

(* An admission takes from the bucket what it records. *)
LEMMA AdmissionBucket == Readable /\ Bucket /\ Admission => Bucket'
<1> SUFFICES ASSUME Readable, Bucket, Admission PROVE Bucket' OBVIOUS
<1> DEFINE r == arrived + 1
           ok == Admits(r, StateOf(Candidates(r)))
           y == [req |-> r, clock |-> clock, ok |-> ok]
           cost == Cost(r)
           sum == Total(Spent(admitted))
<1>1. /\ admitted' = Append(admitted, y) /\ config' = config /\ clock' = clock
      /\ config.admission # "token-bucket" => bucket' = bucket
      /\ config.admission = "token-bucket" =>
            bucket' = [Refilled EXCEPT !.tokens = IF ok THEN @ - cost ELSE @]
  BY DEF Admission
<1>2. r \in Reqs /\ clock \in Nat
  <2>1. arrived < config.load /\ arrived \in 0 .. Len(Requests) /\ config.load \in 0 .. Len(Requests)
        /\ Len(Requests) \in Nat
    BY Given DEF Admission, Readable, Shapes
  <2>2. clock \in 0 .. Horizon /\ Horizon \in Nat
    BY RouterAssumption DEF Readable, Shapes
  <2> QED BY <2>1, <2>2 DEF Reqs
<1>3. y.req = r /\ (y.ok <=> ok) OBVIOUS
<1>4. cost \in Nat BY <1>2, CostWhole
<1>5. /\ IsSequence(admitted') /\ Len(admitted') = Len(admitted) + 1 /\ Len(admitted) \in Nat
      /\ (\A n \in 1 .. Len(admitted) : admitted'[n] = admitted[n])
      /\ admitted'[Len(admitted) + 1] = y
  BY <1>1, Appended DEF Bucket
<1> HIDE DEF y, r
<1>6. \A n \in 1 .. Len(admitted') : admitted'[n].req \in Reqs
  <2> TAKE n \in 1 .. Len(admitted')
  <2>1. CASE n = Len(admitted) + 1 BY <1>2, <1>3, <1>5, <2>1
  <2>2. CASE n # Len(admitted) + 1
    <3>1. n \in 1 .. Len(admitted) BY <1>5, <2>2
    <3> QED BY <1>5, <3>1 DEF Bucket
  <2> QED BY <2>1, <2>2
<1>7. CASE config.admission # "token-bucket"
  <2>1. bucket' = bucket /\ config'.admission # "token-bucket" BY <1>1, <1>7
  <2> QED BY <1>1, <1>5, <1>6, <2>1 DEF Bucket, BucketBound
<1>8. CASE config.admission = "token-bucket"
  <2>1. /\ Refilled \in [tokens : Nat, last : Nat]
        /\ Refilled.tokens <= BucketCapacity /\ Refilled.last = clock
        /\ Refilled.tokens + RefillRate * bucket.last <= bucket.tokens + RefillRate * clock
    BY <1>2, Refill
  <2>2. ok => Refilled.tokens >= cost BY <1>8 DEF Admits
  <2>3. Total(Spent(admitted')) = sum + (IF ok THEN cost ELSE 0)
    <3>1. Total(Spent(Append(admitted, y))) = Total(Spent(admitted)) + (IF y.ok THEN Cost(y.req) ELSE 0)
      BY <1>2, <1>3, SpentAppend DEF Bucket
    <3> QED BY <1>1, <1>3, <3>1
  <2>4. sum \in Int BY SpentWhole, TotalInt DEF Bucket
  <2>5. sum + bucket.tokens <= BucketCapacity + RefillRate * bucket.last
    BY <1>8 DEF Bucket, BucketBound, Spent
  <2> HIDE DEF ok, cost, sum
  <2> DEFINE rest == IF ok THEN Refilled.tokens - cost ELSE Refilled.tokens
  <2>6. /\ bucket' = [tokens |-> rest, last |-> clock] /\ rest \in Nat
        /\ rest <= BucketCapacity
    BY <1>1, <1>2, <1>4, <1>8, <2>1, <2>2, RouterAssumption
  <2> HIDE DEF rest
  <2>7. bucket' \in [tokens : Nat, last : Nat] /\ bucket'.tokens = rest /\ bucket'.last = clock
    BY <1>2, <2>6
  <2>8. (sum + (IF ok THEN cost ELSE 0)) + rest <= BucketCapacity + RefillRate * clock
    <3> DEFINE a == RefillRate * bucket.last
               b == RefillRate * clock
               t == Refilled.tokens
               u == bucket.tokens
    <3>1. a \in Int /\ b \in Int /\ t \in Nat /\ u \in Nat /\ BucketCapacity \in Nat
      BY <1>2, <2>1, RouterAssumption DEF Bucket
    <3>2. t + a <= u + b /\ sum + u <= BucketCapacity + a BY <2>1, <2>5
    <3>3. rest = IF ok THEN t - cost ELSE t BY DEF rest
    <3> HIDE DEF a, b, t, u
    <3>4. sum + t <= BucketCapacity + b BY <2>4, <3>1, <3>2
    <3>5. (sum + (IF ok THEN cost ELSE 0)) + rest = sum + t
      BY <1>4, <2>4, <3>1, <3>3
    <3> QED BY <3>4, <3>5 DEF b
  <2>9. BucketBound'
    <3>1. Total(Spent(admitted')) + bucket'.tokens <= BucketCapacity + RefillRate * bucket'.last
      BY <2>3, <2>7, <2>8
    <3> QED BY <3>1 DEF BucketBound, Spent
  <2>10. bucket'.tokens <= BucketCapacity /\ bucket'.last <= clock'
    BY <1>1, <1>2, <2>6, <2>7
  <2> QED BY <1>5, <1>6, <2>7, <2>9, <2>10 DEF Bucket
<1> QED BY <1>7, <1>8

(* No other action touches the bucket, and the clock only goes forward. *)
LEMMA OtherBucket ==
  ASSUME Readable, Bucket, [Next]_vars, ~Admission
  PROVE  Bucket'
<1>1. UNCHANGED <<config, bucket, admitted>>
  BY DEF Next, Routing, AddInstance, InstanceLoaded, Tick, Enqueue, Schedule, Complete, Drain, vars
<1>2. clock' = clock \/ clock' = clock + 1 BY ZenonT(60)
     DEF Next, Routing, AddInstance, InstanceLoaded, Tick, Enqueue, Schedule, Complete, Drain, vars
<1>3. clock \in Nat /\ bucket.last \in Nat
  BY RouterAssumption DEF Bucket, Readable, Shapes
<1>4. bucket.last <= clock' BY <1>2, <1>3 DEF Bucket
<1> QED BY SMTT(60), <1>1, <1>4 DEF Bucket, BucketBound

(* The bucket starts full. *)
LEMMA InitBucket == Init => Bucket
<1> SUFFICES ASSUME Init PROVE Bucket OBVIOUS
<1>1. bucket = [tokens |-> BucketCapacity, last |-> 0] /\ admitted = <<>> /\ clock = 0
      /\ BucketCapacity \in Nat /\ RefillRate \in Nat
  BY RouterAssumption DEF Init
<1>2. IsSequence(admitted) /\ Len(admitted) = 0 /\ \A n \in 1 .. Len(admitted) : admitted[n].req \in Reqs
  <2>1. <<>> \in Seq(Elems(<<>>)) /\ Len(<<>>) = 0 OBVIOUS
  <2> QED BY <1>1, <2>1 DEF IsSequence
<1>3. Total(Spent(admitted)) = 0
  <2>1. Spent(admitted) \in Seq(Int) /\ Len(Spent(admitted)) = 0
    BY <1>2, SpentWhole
  <2> DEFINE s == Spent(admitted)
  <2> HIDE DEF s
  <2>2. s \in Seq(Int) /\ Len(s) = 0 BY <2>1 DEF s
  <2>3. PICK f \in [0 .. Len(s) -> Int] : TotalSteps(f, s)
    BY <2>2, TotalRun, Zenon
  <2>4. f[0] = 0 /\ Total(s) = f[Len(s)] BY <2>3 DEF TotalSteps
  <2> QED BY <2>2, <2>4 DEF s
<1>4. Total(Spent(admitted)) + bucket.tokens <= BucketCapacity + RefillRate * bucket.last
  BY <1>1, <1>3
<1> QED BY <1>1, <1>2, <1>4 DEF Bucket, BucketBound, Spent

\* Every request is counted once on its way, and a cache holds at most its blocks.
Amounts ==
    /\ \A i \in All : inFlight[i] <= Len(trace)
    /\ Len(trace) + Len(pending) <= arrived
    /\ \A i \in All : Cardinality(cached[i]) <= KVBlocks

(* Eviction makes room. *)
LEMMA EvictionFits ==
  ASSUME NEW C \in SUBSET Hashes, NEW M \in SUBSET Hashes,
         NEW gone \in kSubset(Max({0, Cardinality(C \cup M) - KVBlocks}), C \ M)
  PROVE  Cardinality((C \cup M) \ gone) <= KVBlocks
<1> DEFINE U == C \cup M
           c == Cardinality(U)
<1>1. IsFiniteSet(U) /\ c \in Nat
  <2>1. IsFiniteSet(Hashes) /\ U \in SUBSET Hashes BY IndexAssumption
  <2> HIDE DEF U
  <2> QED BY <2>1, FS_Subset, FS_CardinalityType
<1>2. KVBlocks \in Nat BY ScorerAssumption
<1>3. Max({0, c - KVBlocks}) = IF 0 >= c - KVBlocks THEN 0 ELSE c - KVBlocks
  <2> DEFINE d == c - KVBlocks
  <2>1. d \in Int /\ 0 \in Int BY <1>1, <1>2
  <2> HIDE DEF d
  <2>2. Max({0, d}) = IF 0 >= d THEN 0 ELSE d BY <2>1, MaxMinPair
  <2> QED BY <2>2 DEF d
<1>4. gone \subseteq U /\ Cardinality(gone) = Max({0, c - KVBlocks})
  BY DEF kSubset
<1>5. U \cap gone = gone BY <1>4
<1>6. Cardinality(U \ gone) = Cardinality(U) - Cardinality(U \cap gone)
  <2> HIDE DEF U
  <2> QED BY <1>1, FS_Difference
<1>7. Cardinality(U \ gone) = c - (IF 0 >= c - KVBlocks THEN 0 ELSE c - KVBlocks)
  BY <1>3, <1>4, <1>5, <1>6
<1> HIDE DEF c
<1>8. Cardinality(U \ gone) <= KVBlocks BY <1>1, <1>2, <1>7
<1> QED BY <1>8

(* Nothing is on its way at the start. *)
LEMMA InitAmounts == Init => Amounts
<1> SUFFICES ASSUME Init PROVE Amounts OBVIOUS
<1>1. /\ trace = <<>> /\ pending = <<>> /\ arrived = 0 /\ KVBlocks \in Nat
      /\ \A i \in All : inFlight[i] = 0 /\ cached[i] = {}
  BY ScorerAssumption DEF Init
<1>2. Cardinality({}) = 0 BY FS_EmptySet
<1>3. Len(trace) = 0 /\ Len(pending) = 0 BY <1>1
<1>4. \A i \in All : Cardinality(cached[i]) <= KVBlocks
  <2> TAKE i \in All
  <2>1. Cardinality(cached[i]) = 0 BY <1>1, <1>2, Zenon
  <2> QED BY <1>1, <2>1
<1> QED BY <1>1, <1>3, <1>4 DEF Amounts

(* Every step keeps the counts. *)
LEMMA NextAmounts == Readable /\ Amounts /\ [Next]_vars => Amounts'
<1> SUFFICES ASSUME Readable, Amounts, [Next]_vars PROVE Amounts' OBVIOUS
<1>1. /\ IsSequence(trace) /\ Len(trace) \in Nat /\ pending \in Seq(Waits) /\ Len(pending) \in Nat
      /\ arrived \in Nat /\ \A i \in All : inFlight[i] \in Int
  <2>1. IsSequence(trace) /\ pending \in Seq(Waits) /\ arrived \in 0 .. Len(Requests)
        /\ inFlight \in [All -> Int]
    BY DEF Readable, Shapes
  <2>2. Len(trace) \in Nat BY <2>1, Appended
  <2>3. Len(pending) \in Nat BY <2>1
  <2>4. Len(Requests) \in Nat BY Given
  <2> QED BY <2>1, <2>2, <2>3, <2>4
<1>2. CASE Admission
  <2>1. arrived' = arrived + 1 /\ UNCHANGED <<trace, inFlight, cached>>
    BY <1>2 DEF Admission, truthVars
  <2>2. PICK w : pending' = Append(pending, w) \/ pending' = pending
    BY <1>2 DEF Admission
  <2>3. Len(Append(pending, w)) = Len(pending) + 1
    <3>1. IsSequence(pending)
      <4>1. pending \in Seq(Waits) BY <1>1
      <4> QED BY <4>1 DEF IsSequence, Elems
    <3> QED BY <3>1, Appended
  <2>4. Len(pending') <= Len(pending) + 1 /\ Len(pending') \in Nat
    BY <1>1, <2>2, <2>3
  <2> QED BY <1>1, <2>1, <2>4 DEF Amounts
<1>3. CASE Routing
  <2>1. arrived' = arrived /\ cached' = cached /\ pending' = Tail(pending) /\ pending # <<>>
    BY <1>3 DEF Routing
  <2>2. Len(pending') = Len(pending) - 1 BY <1>1, <2>1
  <2>3. \/ UNCHANGED <<trace, inFlight>>
        \/ \E x, t : trace' = Append(trace, x) /\ inFlight' = [inFlight EXCEPT ![t] = @ + 1]
    BY <1>3 DEF Routing
  <2>4. CASE UNCHANGED <<trace, inFlight>>
    BY <1>1, <2>1, <2>2, <2>4 DEF Amounts
  <2>5. CASE ~UNCHANGED <<trace, inFlight>>
    <3>1. PICK x, t : trace' = Append(trace, x) /\ inFlight' = [inFlight EXCEPT ![t] = @ + 1]
      BY <2>3, <2>5
    <3>2. Len(trace') = Len(trace) + 1 BY <1>1, <3>1, Appended
    <3>3. \A i \in All : inFlight'[i] <= inFlight[i] + 1
      BY SMTT(60), <1>1, <3>1 DEF Readable, Shapes
    <3>4. \A i \in All : inFlight'[i] \in Int
      BY SMTT(60), <1>1, <3>1 DEF Readable, Shapes
    <3>5. \A i \in All : inFlight'[i] <= Len(trace')
      BY SMTT(60), <1>1, <3>2, <3>3, <3>4 DEF Amounts
    <3> QED BY <1>1, <2>1, <2>2, <3>2, <3>5 DEF Amounts
  <2> QED BY <2>4, <2>5
<1>4. ASSUME NEW i \in All, Complete(i) PROVE Amounts'
  <2>1. inFlight'[i] = inFlight[i] - 1 /\ \A j \in All \ {i} : inFlight'[j] = inFlight[j]
    BY <1>4 DEF Complete, Readable, Shapes
  <2>2. UNCHANGED <<trace, pending, arrived, cached>> BY <1>4 DEF Complete
  <2>3. \A j \in All : inFlight'[j] <= Len(trace) BY <1>1, <2>1 DEF Amounts
  <2> QED BY <2>2, <2>3 DEF Amounts
<1>5. ASSUME NEW i \in All, Schedule(i) PROVE Amounts'
  <2> DEFINE r == Head(queue[i])
             mine == Elems(HashesOf(r))
  <2>1. PICK gone \in kSubset(Max({0, Cardinality(cached[i] \cup mine) - KVBlocks}), cached[i] \ mine) :
           cached' = [cached EXCEPT ![i] = (@ \cup mine) \ gone]
    BY <1>5 DEF Schedule
  <2>2. UNCHANGED <<trace, pending, arrived, inFlight>> BY <1>5 DEF Schedule
  <2>3. mine \in SUBSET Hashes /\ cached[i] \in SUBSET Hashes
    <3>1. queue[i] \in Seq(Reqs) /\ queue[i] # <<>> /\ cached[i] \in SUBSET Hashes
      BY <1>5 DEF Schedule, Readable, Shapes
    <3>2. r \in Reqs BY <3>1, HeadTail
    <3> QED BY <3>1, <3>2, HashesTyped
  <2> HIDE DEF mine
  <2>4. Cardinality((cached[i] \cup mine) \ gone) <= KVBlocks
    BY <2>1, <2>3, EvictionFits
  <2>5. cached'[i] = (cached[i] \cup mine) \ gone /\ \A j \in All \ {i} : cached'[j] = cached[j]
    BY <2>1 DEF Readable, Shapes
  <2>6. \A j \in All : Cardinality(cached'[j]) <= KVBlocks
    <3> TAKE j \in All
    <3>1. CASE j = i BY <2>4, <2>5, <3>1
    <3>2. CASE j # i BY <2>5, <3>2 DEF Amounts
    <3> QED BY <3>1, <3>2
  <2> QED BY <2>2, <2>6 DEF Amounts
<1>6. CASE AddInstance \/ InstanceLoaded \/ Tick \/ (\E i \in All : Enqueue(i) \/ Drain(i))
           \/ UNCHANGED vars
  <2>1. UNCHANGED <<trace, pending, arrived, inFlight, cached>>
    BY <1>6 DEF AddInstance, InstanceLoaded, Tick, Enqueue, Drain, vars, truthVars
  <2> QED BY <2>1 DEF Amounts
<1> QED BY <1>2, <1>3, <1>4, <1>5, <1>6 DEF Next

(* The ranges of the quantities. *)
LEMMA RangesHold == Readable /\ Loads /\ Amounts /\ Bucket => TypeOK
<1> SUFFICES ASSUME Readable, Loads, Amounts, Bucket PROVE TypeOK OBVIOUS
<1>1. /\ clock \in 0 .. Horizon /\ arrived \in 0 .. Len(Requests)
      /\ life \in [All -> LifeStates] /\ inFlight \in [All -> Int]
      /\ cached \in [All -> SUBSET Hashes] /\ IsSequence(trace) /\ pending \in Seq(Waits)
      /\ DOMAIN view = Elems(instances) /\ DOMAIN viewAt = Elems(instances)
  BY DEF Readable, Shapes, Members
<1>2. Horizon \in Nat /\ Len(Requests) \in Nat /\ BucketCapacity \in Nat
  BY RouterAssumption, Given
<1>3. \A i \in All : inFlight[i] \in 0 .. Len(Requests)
  <2> TAKE i \in All
  <2>1. /\ Len(inbox[i]) \in Nat /\ Len(queue[i]) \in Nat /\ inFlight[i] \in Int
        /\ Cardinality(batch[i]) \in Nat
    BY TruthCounts DEF Readable
  <2>2. inFlight[i] >= Len(inbox[i]) + Len(queue[i]) + Cardinality(batch[i])
    BY DEF Loads
  <2>3. Len(trace) \in Nat /\ Len(pending) \in Nat
    <3>1. Len(trace) \in Nat BY <1>1, Appended
    <3> QED BY <1>1, <3>1
  <2>4. inFlight[i] <= Len(trace) /\ Len(trace) + Len(pending) <= arrived
    BY DEF Amounts
  <2>5. inFlight[i] <= Len(Requests) BY <1>1, <1>2, <2>1, <2>3, <2>4
  <2>6. inFlight[i] >= 0
    <3> DEFINE f == inFlight[i]
               a == Len(inbox[i])
               b == Len(queue[i])
               c == Cardinality(batch[i])
    <3>1. f \in Int /\ a \in Nat /\ b \in Nat /\ c \in Nat /\ f >= a + b + c
      BY <2>1, <2>2
    <3>2. f >= 0
      <4> HIDE DEF f, a, b, c
      <4> QED BY <3>1
    <3> QED BY <3>2
  <2> QED BY <1>2, <2>1, <2>5, <2>6
<1>4. inFlight \in [All -> 0 .. Len(Requests)] BY <1>1, <1>3
<1>5. \A i \in All : cached[i] \subseteq Hashes /\ Cardinality(cached[i]) <= KVBlocks
  BY <1>1 DEF Amounts
<1>6. bucket.tokens \in 0 .. BucketCapacity /\ bucket.last \in 0 .. clock
  <2>1. bucket.tokens \in Nat /\ bucket.last \in Nat /\ clock \in Nat
        /\ bucket.tokens <= BucketCapacity /\ bucket.last <= clock
    BY <1>1, <1>2 DEF Bucket
  <2> QED BY <1>2, <2>1
<1>7. life \in [All -> {"none", "Loading", "Active", "Draining", "Terminated"}]
  BY <1>1 DEF LifeStates
<1> QED BY <1>1, <1>4, <1>5, <1>6, <1>7 DEF TypeOK

------------------------------
(* The order of the cold targets. *)

\* q comes from s, in the order of s.
InOrderOf(q, s, k) ==
    /\ \A a \in 1 .. Len(q) : \E c \in 1 .. k : q[a] = s[c]
    /\ \A a, b \in 1 .. Len(q) : a < b => \E c, d \in 1 .. k : c < d /\ q[a] = s[c] /\ q[b] = s[d]

(* What is kept keeps its order. *)
LEMMA OnlyOrder ==
  ASSUME NEW A, NEW s \in Seq(A), NEW S
  PROVE  InOrderOf(Only(s, S), s, Len(s))
<1>1. PICK f \in [0 .. Len(s) -> Seq(A)] : OnlySteps(f, s, S) BY OnlyRun, Zenon
<1>0. OnlySteps(f, s, S)!1 /\ OnlySteps(f, s, S)!2 /\ OnlySteps(f, s, S)!3
  BY <1>1 DEF OnlySteps
<1> DEFINE n == Len(s)
           Good == {k \in 0 .. n : InOrderOf(f[k], s, k)}
<1>2. n \in Nat /\ (\A k \in 1 .. n : s[k] \in A) /\ \A k \in 0 .. n : f[k] \in Seq(A)
  OBVIOUS
<1>3. 0 \in Good
  <2>1. f[0] = <<>> /\ 0 \in 0 .. n BY <1>0, <1>2
  <2>2. \A a \in 1 .. Len(f[0]) : FALSE BY <2>1
  <2> QED BY <2>1, <2>2 DEF InOrderOf
<1>4. ASSUME NEW k \in 1 .. n, k - 1 \in Good PROVE k \in Good
  <2> DEFINE t == f[k - 1]
             u == f[k]
             m == Len(t)
  <2>1. k \in 0 .. n /\ k - 1 \in 0 .. n /\ t \in Seq(A) /\ m \in Nat /\ k \in Nat
    BY <1>2
  <2>2. /\ \A a \in 1 .. m : \E c \in 1 .. k - 1 : t[a] = s[c]
        /\ \A a, b \in 1 .. m : a < b => \E c, d \in 1 .. k - 1 : c < d /\ t[a] = s[c] /\ t[b] = s[d]
    BY <1>4 DEF InOrderOf
  <2>3. \A c \in 1 .. k - 1 : c \in 1 .. k /\ c < k BY <2>1
  <2>4. k \in 1 .. k BY <1>2
  <2>5. CASE s[k] \notin S
    <3>1. u = t BY <1>0, <1>2, <2>1, <2>5
    <3> HIDE DEF t, u
    <3>2. \A a \in 1 .. m : \E c \in 1 .. k : t[a] = s[c] BY <2>2, <2>3
    <3>3. ASSUME NEW a \in 1 .. m, NEW b \in 1 .. m, a < b
          PROVE  \E c, d \in 1 .. k : c < d /\ t[a] = s[c] /\ t[b] = s[d]
      <4>1. PICK c, d \in 1 .. k - 1 : c < d /\ t[a] = s[c] /\ t[b] = s[d]
        BY <2>2, <3>3
      <4> QED BY <2>3, <4>1
    <3>4. InOrderOf(t, s, k) BY <3>2, <3>3 DEF InOrderOf, m
    <3> QED BY <2>1, <3>1, <3>4 DEF u
  <2>6. CASE s[k] \in S
    <3>1. u = Append(t, s[k]) /\ s[k] \in A BY <1>0, <1>2, <2>1, <2>6
    <3>2. Len(u) = m + 1 /\ (\A j \in 1 .. m : u[j] = t[j]) /\ u[m + 1] = s[k]
      <4> HIDE DEF t, u
      <4> QED BY <2>1, <3>1 DEF m
    <3> HIDE DEF t, u, m
    <3>0. m \in Nat /\ Len(u) = m + 1 BY <2>1, <3>2
    <3>3. \A a \in 1 .. Len(u) : a \in 1 .. m \/ a = m + 1 BY <3>0
    <3>4. \A a \in 1 .. Len(u) : \E c \in 1 .. k : u[a] = s[c]
      <4> TAKE a \in 1 .. Len(u)
      <4>1. CASE a = m + 1 BY <2>4, <3>2, <4>1
      <4>2. CASE a \in 1 .. m BY <2>2, <2>3, <3>2, <4>2
      <4> QED BY <3>3, <4>1, <4>2
    <3>5. ASSUME NEW a \in 1 .. Len(u), NEW b \in 1 .. Len(u), a < b
          PROVE  \E c, d \in 1 .. k : c < d /\ u[a] = s[c] /\ u[b] = s[d]
      <4>1. a \in 1 .. m BY SMTT(60), <2>1, <3>2, <3>5
      <4>2. CASE b \in 1 .. m
        <5>1. PICK c, d \in 1 .. k - 1 : c < d /\ t[a] = s[c] /\ t[b] = s[d]
          BY <2>2, <3>5, <4>1, <4>2
        <5> QED BY <2>3, <3>2, <4>1, <4>2, <5>1
      <4>3. CASE b = m + 1
        <5>1. PICK c \in 1 .. k - 1 : t[a] = s[c] BY <2>2, <4>1
        <5>2. c \in 1 .. k /\ c < k /\ u[a] = s[c] /\ u[b] = s[k]
          BY <2>3, <3>2, <4>1, <4>3, <5>1
        <5> QED BY <2>4, <5>2
      <4> QED BY <3>3, <4>2, <4>3
    <3>6. InOrderOf(u, s, k) BY <3>4, <3>5 DEF InOrderOf
    <3> QED BY <2>1, <3>6 DEF u
  <2> QED BY <2>5, <2>6
<1>5. \A k \in 0 .. n : k \in Good
  <2> HIDE DEF Good, n
  <2> QED BY <1>2, <1>3, <1>4, StepsInduction
<1>6. n \in Good
  <2>1. n \in 0 .. n BY <1>2
  <2> HIDE DEF Good, n
  <2> QED BY <1>5, <2>1
<1>7. Only(s, S) = f[n] BY <1>0
<1> QED BY <1>6, <1>7

\* The order after a cold decision for target: it, then those of the order that
\* are in K and are not it.
Fronted(new, old, K, target) ==
    /\ new # <<>> /\ new[1] = target /\ Len(new) \in Nat
    /\ Elems(new) = {target} \cup (Elems(old) \cap K)
    /\ \A b \in 2 .. Len(new) : new[b] # target
    /\ \A a, b \in 2 .. Len(new) : a < b =>
          \E c, d \in 1 .. Len(old) : c < d /\ new[a] = old[c] /\ new[b] = old[d]

(* The observer of a cold decision. *)
LEMMA ColdFronted ==
  ASSUME OrderShape, NEW hits, NEW s, ~IsWarm(hits, s), NEW target \in All
  PROVE  Fronted(ObserveCold(PruneLRU(order, hits, s), IsWarm(hits, s), target), order,
                 IF Cardinality(DOMAIN s) <= 1 THEN Elems(order) ELSE DOMAIN s, target)
<1> DEFINE kept == PruneLRU(order, hits, s)
           K == IF Cardinality(DOMAIN s) <= 1 THEN Elems(order) ELSE DOMAIN s
           S == Elems(kept) \ {target}
           rest == Only(kept, S)
           new == <<target>> \o rest
<1>1. order \in Seq(All) /\ Distinct(order) /\ Len(order) \in Nat
  BY DEF OrderShape
<1>2. ObserveCold(kept, IsWarm(hits, s), target) = new BY DEF ObserveCold
<1>3. kept \in Seq(All) /\ Distinct(kept) /\ Elems(kept) = Elems(order) \cap K
      /\ InOrderOf(kept, order, Len(order))
  <2>1. CASE Cardinality(DOMAIN s) <= 1
    <3>1. kept = order /\ K = Elems(order) BY <2>1 DEF PruneLRU
    <3>2. InOrderOf(order, order, Len(order)) BY DEF InOrderOf
    <3> HIDE DEF kept, K
    <3> QED BY <1>1, <3>1, <3>2
  <2>2. CASE ~(Cardinality(DOMAIN s) <= 1)
    <3>1. kept = Only(order, DOMAIN s) /\ K = DOMAIN s BY <2>2 DEF PruneLRU
    <3> HIDE DEF kept, K
    <3> QED BY <1>1, <3>1, OnlyKeeps, OnlyOrder
  <2> QED BY <2>1, <2>2
<1> HIDE DEF kept, K
<1>4. rest \in Seq(All) /\ Elems(rest) = Elems(kept) \ {target} /\ InOrderOf(rest, kept, Len(kept))
      /\ Len(rest) \in Nat
  <2>1. rest \in Seq(All) /\ Elems(rest) = Elems(kept) \cap S /\ InOrderOf(rest, kept, Len(kept))
    <3> HIDE DEF S
    <3> QED BY <1>3, OnlyKeeps, OnlyOrder
  <2>2. Elems(kept) \cap S = Elems(kept) \ {target} OBVIOUS
  <2> HIDE DEF rest, S
  <2> QED BY <2>1, <2>2
<1> HIDE DEF rest
<1> DEFINE one == <<target>>
<1>5. one \in Seq(All) /\ Len(one) = 1 /\ one[1] = target /\ Elems(one) = {target}
  BY DEF Elems
<1>6. new = one \o rest OBVIOUS
<1> HIDE DEF one, new
<1>7. /\ one \o rest \in Seq(All) /\ Len(one \o rest) = Len(one) + Len(rest)
      /\ Len(one) \in Nat /\ Len(rest) \in Nat
      /\ \A i \in 1 .. Len(one) : (one \o rest)[i] = one[i]
      /\ \A k \in 1 .. Len(rest) : (one \o rest)[Len(one) + k] = rest[k]
      /\ Elems(one \o rest) = Elems(one) \cup Elems(rest)
      /\ Distinct(one) /\ Distinct(rest) /\ (\A x \in Elems(one) : x \notin Elems(rest))
            => Distinct(one \o rest)
  <2>1. one \in Seq(All) /\ rest \in Seq(All) BY <1>4, <1>5
  <2> QED BY <2>1, Joined, ZenonT(60)
<1>8. /\ new \in Seq(All) /\ Len(new) = 1 + Len(rest) /\ new[1] = target
      /\ \A k \in 1 .. Len(rest) : new[1 + k] = rest[k]
      /\ Elems(new) = {target} \cup Elems(rest)
  BY <1>5, <1>6, <1>7
<1>9. \A b \in 2 .. Len(new) : b - 1 \in 1 .. Len(rest) /\ new[b] = rest[b - 1]
  <2> TAKE b \in 2 .. Len(new)
  <2>1. b - 1 \in 1 .. Len(rest) /\ 1 + (b - 1) = b BY <1>4, <1>8
  <2> QED BY <1>8, <2>1
<1>10. \A b \in 2 .. Len(new) : new[b] # target
  <2> TAKE b \in 2 .. Len(new)
  <2>1. new[b] \in Elems(rest) BY <1>9 DEF Elems
  <2> QED BY <1>4, <2>1
<1>11. ASSUME NEW a \in 2 .. Len(new), NEW b \in 2 .. Len(new), a < b
       PROVE  \E c, d \in 1 .. Len(order) : c < d /\ new[a] = order[c] /\ new[b] = order[d]
  <2>1. a - 1 < b - 1 /\ a - 1 \in 1 .. Len(rest) /\ b - 1 \in 1 .. Len(rest)
    BY <1>9, <1>11
  <2>2. PICK c, d \in 1 .. Len(kept) : c < d /\ rest[a - 1] = kept[c] /\ rest[b - 1] = kept[d]
    BY <1>4, <2>1 DEF InOrderOf
  <2>3. PICK e, g \in 1 .. Len(order) : e < g /\ kept[c] = order[e] /\ kept[d] = order[g]
    BY <1>3, <2>2 DEF InOrderOf
  <2> QED BY <1>9, <2>2, <2>3
<1>12. Elems(new) = {target} \cup (Elems(order) \cap K) BY <1>3, <1>4, <1>8
<1>13. new # <<>> /\ Len(new) \in Nat BY <1>4, <1>8
<1>14. Fronted(new, order, K, target)
  BY <1>8, <1>10, <1>11, <1>12, <1>13 DEF Fronted
<1> QED BY <1>2, <1>14 DEF kept, K

\* No cold decision after number n dropped i from the order.
NotDropped(n, i) ==
    \A m \in n + 1 .. Len(trace) :
        trace[m].cold /\ Len(trace[m].cands) > 1 => i \in Elems(trace[m].cands)

\* The last cold decision for a came after every one for b.
After(a, b) == \E n \in ColdChoices(a) : \A m \in ColdChoices(b) : m < n

\* What ColdOrderExact says when the scorer is configured.
ColdOrder ==
    /\ Elems(order) = {i \in All : \E n \in ColdChoices(i) : NotDropped(n, i)}
    /\ \A a, b \in 1 .. Len(order) : a < b => After(order[a], order[b])

(* A decision of a policy with the no-hit-lru scorer. *)
LEMMA ColdStep ==
  ASSUME IsSequence(trace), OrderShape, ColdOrder,
         NEW x, trace' = Append(trace, x), x.chosen \in All, Len(x.cands) \in Nat,
         x.cold => Fronted(order', order, IF Len(x.cands) <= 1 THEN Elems(order) ELSE Elems(x.cands),
                           x.chosen),
         ~x.cold => order' = order
  PROVE  ColdOrder'
<1> DEFINE T == Len(trace)
           j == x.chosen
           ColdOnes(i) == {n \in 1 .. T + 1 : trace'[n].cold /\ trace'[n].chosen = i}
           Stays(n, i) == \A m \in n + 1 .. T + 1 :
                             trace'[m].cold /\ Len(trace'[m].cands) > 1 => i \in Elems(trace'[m].cands)
           Follows(a, b) == \E n \in ColdOnes(a) : \A m \in ColdOnes(b) : m < n
<1>1. T \in Nat /\ Len(trace') = T + 1 /\ (\A k \in 1 .. T : trace'[k] = trace[k]) /\ trace'[T + 1] = x
  BY Appended
<1>2. order \in Seq(All) /\ Len(order) \in Nat /\ Elems(order) \subseteq All
  BY DEF OrderShape, Elems
<1>3. \A n \in 1 .. T + 1 : n \in 1 .. T \/ n = T + 1 BY <1>1
<1>4. \A i : \A n : n \in ColdOnes(i) <=> (n \in ColdChoices(i) \/ (n = T + 1 /\ x.cold /\ i = j))
  <2> TAKE i
  <2> TAKE n
  <2>1. n \in ColdChoices(i) <=> n \in 1 .. T /\ trace[n].cold /\ trace[n].chosen = i
    BY DEF ColdChoices
  <2>2. n \in 1 .. T => n \in 1 .. T + 1 /\ n # T + 1 BY <1>1
  <2>3. T + 1 \in 1 .. T + 1 BY <1>1
  <2> QED BY <1>1, <1>3, <2>1, <2>2, <2>3
<1>5. \A i : \A n \in ColdChoices(i) : n \in 1 .. T /\ n < T + 1 /\ n \in Nat
  BY <1>1 DEF ColdChoices
<1>6. ASSUME NEW i, NEW n \in 1 .. T
      PROVE  Stays(n, i) <=> (NotDropped(n, i) /\ (x.cold /\ Len(x.cands) > 1 => i \in Elems(x.cands)))
  <2>1. \A m : m \in n + 1 .. T + 1 <=> (m \in n + 1 .. T \/ m = T + 1) BY <1>1
  <2>2. \A m \in n + 1 .. T : m \in 1 .. T BY <1>1
  <2>3. NotDropped(n, i) <=> \A m \in n + 1 .. T :
           trace[m].cold /\ Len(trace[m].cands) > 1 => i \in Elems(trace[m].cands)
    BY DEF NotDropped
  <2>4. NotDropped(n, i) <=> \A m \in n + 1 .. T :
           trace'[m].cold /\ Len(trace'[m].cands) > 1 => i \in Elems(trace'[m].cands)
    BY <1>1, <2>2, <2>3
  <2> QED BY <1>1, <2>1, <2>4
<1>7. \A i : Stays(T + 1, i)
  <2>1. \A m \in (T + 1) + 1 .. T + 1 : FALSE BY <1>1
  <2> QED BY <2>1
<1>8. /\ \A i : ColdChoices(i)' = ColdOnes(i)
      /\ \A n, i : NotDropped(n, i)' <=> Stays(n, i)
      /\ \A a, b : After(a, b)' <=> Follows(a, b)
  <2>1. \A i : ColdChoices(i)' = ColdOnes(i) BY <1>1 DEF ColdChoices
  <2>2. \A n, i : NotDropped(n, i)' <=> Stays(n, i) BY <1>1 DEF NotDropped
  <2>3. \A a, b : After(a, b)' <=> Follows(a, b)
    <3> HIDE DEF ColdOnes
    <3> QED BY <2>1, Zenon DEF After
  <2> QED BY <2>1, <2>2, <2>3
<1> HIDE DEF ColdOnes, Stays, Follows
<1>9. SUFFICES /\ Elems(order') = {i \in All : \E n \in ColdOnes(i) : Stays(n, i)}
               /\ \A a, b \in 1 .. Len(order') : a < b => Follows(order'[a], order'[b])
  <2>1. {i \in All : \E n \in ColdChoices(i)' : NotDropped(n, i)'}
           = {i \in All : \E n \in ColdOnes(i) : Stays(n, i)}
    BY <1>8, Zenon
  <2> QED BY <1>8, <2>1, Zenon DEF ColdOrder
<1>10. \A i : i \in Elems(order) <=> i \in All /\ \E n \in ColdChoices(i) : NotDropped(n, i)
  BY DEF ColdOrder
<1>11. CASE ~x.cold
  <2>1. order' = order BY <1>11
  <2>2. \A i : \A n : n \in ColdOnes(i) <=> n \in ColdChoices(i) BY <1>4, <1>11
  <2>3. \A i : \A n \in ColdChoices(i) : Stays(n, i) <=> NotDropped(n, i)
    BY <1>5, <1>6, <1>11
  <2>4. Elems(order) = {i \in All : \E n \in ColdOnes(i) : Stays(n, i)}
    BY <1>10, <2>2, <2>3, Zenon
  <2>5. \A a, b : After(a, b) => Follows(a, b)
    BY <2>2, Zenon DEF After, Follows
  <2> QED BY <2>1, <2>4, <2>5 DEF ColdOrder
<1>12. CASE x.cold
  <2> DEFINE K == IF Len(x.cands) <= 1 THEN Elems(order) ELSE Elems(x.cands)
  <2>1. Fronted(order', order, K, j) BY <1>12
  <2>2. /\ order'[1] = j /\ Len(order') \in Nat
        /\ Elems(order') = {j} \cup (Elems(order) \cap K)
        /\ \A b \in 2 .. Len(order') : order'[b] # j
        /\ \A a, b \in 2 .. Len(order') : a < b =>
              \E c, d \in 1 .. Len(order) : c < d /\ order'[a] = order[c] /\ order'[b] = order[d]
    BY <2>1, Zenon DEF Fronted
  <2>3. T + 1 \in ColdOnes(j) /\ Stays(T + 1, j) BY <1>4, <1>7, <1>12
  <2>4. \A i : i # j => \A n : n \in ColdOnes(i) <=> n \in ColdChoices(i)
    BY <1>4
  <2>5. \A i \in Elems(order) : i \in K <=> (Len(x.cands) > 1 => i \in Elems(x.cands))
    <3>1. Len(x.cands) <= 1 <=> ~(Len(x.cands) > 1) OBVIOUS
    <3> QED BY <3>1
  <2>6. ASSUME NEW i \in All, i # j
        PROVE  i \in Elems(order) \cap K <=> \E n \in ColdOnes(i) : Stays(n, i)
    <3>1. ASSUME i \in Elems(order), i \in K PROVE \E n \in ColdOnes(i) : Stays(n, i)
      <4>1. PICK n \in ColdChoices(i) : NotDropped(n, i) BY <1>10, <3>1
      <4>2. Stays(n, i) BY <1>5, <1>6, <2>5, <3>1, <4>1
      <4> QED BY <2>4, <2>6, <4>2
    <3>2. ASSUME NEW n \in ColdOnes(i), Stays(n, i) PROVE i \in Elems(order) /\ i \in K
      <4>1. n \in ColdChoices(i) /\ n \in 1 .. T BY <1>5, <2>4, <2>6
      <4>2. NotDropped(n, i) /\ (Len(x.cands) > 1 => i \in Elems(x.cands))
        BY <1>6, <1>12, <3>2, <4>1
      <4>3. i \in Elems(order) BY <1>10, <4>1, <4>2
      <4> QED BY <2>5, <4>2, <4>3
    <3> QED BY <3>1, <3>2
  <2> HIDE DEF K
  <2>7. Elems(order') = {i \in All : \E n \in ColdOnes(i) : Stays(n, i)}
    <3>1. \A i \in All : i \in Elems(order') <=> \E n \in ColdOnes(i) : Stays(n, i)
      <4> TAKE i \in All
      <4>1. CASE i = j BY <2>2, <2>3, <4>1
      <4>2. CASE i # j BY <2>2, <2>6, <4>2
      <4> QED BY <4>1, <4>2
    <3>2. Elems(order') \subseteq All BY <1>2, <2>2
    <3> QED BY <3>1, <3>2, Zenon
  <2>8. ASSUME NEW a \in 1 .. Len(order'), NEW b \in 1 .. Len(order'), a < b
        PROVE  Follows(order'[a], order'[b])
    <3>1. b \in 2 .. Len(order') /\ order'[b] # j BY <2>2, <2>8
    <3>2. CASE a = 1
      <4>1. \A m \in ColdOnes(order'[b]) : m < T + 1 BY <1>5, <2>4, <3>1
      <4> QED BY <2>2, <2>3, <3>2, <4>1 DEF Follows
    <3>3. CASE a # 1
      <4>1. a \in 2 .. Len(order') /\ order'[a] # j BY <2>2, <2>8, <3>3
      <4>2. PICK c, d \in 1 .. Len(order) : c < d /\ order'[a] = order[c] /\ order'[b] = order[d]
        BY <2>2, <2>8, <3>1, <4>1
      <4>3. After(order[c], order[d]) BY <4>2 DEF ColdOrder
      <4>4. After(order'[a], order'[b]) BY <4>2, <4>3
      <4> QED BY <2>4, <3>1, <4>1, <4>4 DEF After, Follows
    <3> QED BY <3>2, <3>3
  <2> QED BY <2>7, <2>8
<1> QED BY <1>11, <1>12

(* Scorers are configured for the weighted policy only. *)
LEMMA ScorerWeighted ==
  ASSUME Readable, NEW name, Uses(name)
  PROVE  config.routing = "weighted"
<1>1. Len(config.scorers) \in Nat /\ (config.scorers # <<>> => config.routing = "weighted")
  BY ScorersGiven
<1>2. PICK n \in 1 .. Len(config.scorers) : config.scorers[n].name = name
  BY DEF Uses
<1> DEFINE q == config.scorers
<1>3. q # <<>>
  <2>1. n \in 1 .. Len(q) BY <1>2
  <2> HIDE DEF q
  <2> QED BY <2>1
<1> QED BY <1>1, <1>3

\* A decision of the weighted policy for request r: x is its record.
Decision(x, r, cands, s) ==
    /\ Recorded(x, r, cands, s) /\ r \in Reqs
    /\ cands \in Seq(All) /\ Distinct(cands) /\ cands # <<>> /\ DOMAIN s = Elems(cands)
    /\ x.chosen \in All

(* What a routing step of a policy with a scorer decides. *)
LEMMA ScoredDecision ==
  ASSUME Readable, Loads, OrderShape, Routing, NEW name, Uses(name)
  PROVE  \/ UNCHANGED <<trace, counter, order, index>>
         \/ \E x, r, cands, s : Decision(x, r, cands, s)
<1> DEFINE r == Head(pending).req
           cands == Candidates(r)
           s == StateOf(cands)
<1>1. r \in Reqs
  <2>1. pending \in Seq(Waits) /\ pending # <<>>
    BY DEF Routing, Readable, Shapes
  <2>2. Head(pending) \in Waits BY <2>1, HeadTail
  <2> QED BY <2>2 DEF Waits
<1>2. \/ UNCHANGED <<trace, counter, order, index>>
      \/ \E x : Recorded(x, r, cands, s)
  BY DecisionRecorded
<1>3. ASSUME NEW x, Recorded(x, r, cands, s) PROVE Decision(x, r, cands, s)
  <2>1. cands \in Seq(All) /\ Distinct(cands) /\ cands # <<>>
    BY <1>3, CandidatesShape DEF Recorded, Readable
  <2>2. Measured(s) /\ DOMAIN s = Elems(cands) BY <2>1, StateMeasured
  <2> HIDE DEF r, s, cands
  <2>3. x.chosen \in Targets(r, cands, s) BY <1>3 DEF Recorded
  <2>4. config.routing \in {"weighted", "least-loaded"} => x.chosen \in Elems(cands)
    BY <1>1, <2>1, <2>2, <2>3, ChosenBest
  <2>5. x.chosen \in All BY <2>1, <2>4, ScorerWeighted DEF Elems
  <2> QED BY <1>1, <1>3, <2>1, <2>2, <2>5 DEF Decision
<1> HIDE DEF r, cands, s
<1> QED BY <1>2, <1>3

(* A routing step keeps the cold order what the decisions make it. *)
LEMMA RoutingColdOrder ==
  ASSUME Readable, Loads, OrderShape, Routing, Uses("no-hit-lru"), ColdOrder
  PROVE  ColdOrder'
<1>1. IsSequence(trace) BY DEF Readable, Shapes
<1>2. ASSUME NEW x, NEW r, NEW cands, NEW s, Decision(x, r, cands, s)
      PROVE  ColdOrder'
  <2> DEFINE hits == [i \in DOMAIN s |-> CacheQuery(HashesOf(r), i)]
             new == ObserveCold(PruneLRU(order, hits, s), IsWarm(hits, s), x.chosen)
  <2>1. /\ trace' = Append(trace, x) /\ x.cands = cands /\ x.cold = ~IsWarm(hits, s)
        /\ Learn(r, cands, s, x.chosen) /\ x.chosen \in All
        /\ cands \in Seq(All) /\ Distinct(cands) /\ DOMAIN s = Elems(cands)
    BY <1>2 DEF Decision, Recorded
  <2>2. order' = new BY <2>1 DEF Learn
  <2> HIDE DEF hits
  <2>3. Len(cands) \in Nat /\ Cardinality(DOMAIN s) = Len(cands)
    BY <2>1, DistinctLen
  <2>4. x.cold => Fronted(order', order,
                          IF Len(x.cands) <= 1 THEN Elems(order) ELSE Elems(x.cands), x.chosen)
    <3> SUFFICES ASSUME ~IsWarm(hits, s)
                 PROVE  Fronted(order', order,
                          IF Len(x.cands) <= 1 THEN Elems(order) ELSE Elems(x.cands), x.chosen)
      BY <2>1
    <3>1. Fronted(new, order, IF Cardinality(DOMAIN s) <= 1 THEN Elems(order) ELSE DOMAIN s, x.chosen)
      BY <2>1, ColdFronted
    <3> HIDE DEF new
    <3> QED BY <2>1, <2>2, <2>3, <3>1
  <2>5. ~x.cold => order' = order BY <2>1, <2>2 DEF ObserveCold, PruneLRU
  <2> QED BY <1>1, <2>1, <2>3, <2>4, <2>5, ColdStep
<1>3. CASE UNCHANGED <<trace, counter, order, index>>
  BY <1>3 DEF ColdOrder, ColdChoices, NotDropped, After
<1> QED BY <1>2, <1>3, ScoredDecision

(* Before the first decision the order is empty. *)
LEMMA InitColdOrder == Init => ColdOrder
<1> SUFFICES ASSUME Init PROVE ColdOrder OBVIOUS
<1>1. trace = <<>> /\ order = <<>> BY DEF Init
<1>2. Len(trace) = 0 /\ Len(order) = 0 BY <1>1
<1>3. \A i : ColdChoices(i) = {} BY <1>2 DEF ColdChoices
<1>4. Elems(order) = {} BY <1>2 DEF Elems
<1> QED BY <1>2, <1>3, <1>4 DEF ColdOrder

(* The property in these terms. *)
LEMMA ColdOrderHolds == (Uses("no-hit-lru") => ColdOrder) => ColdOrderExact
BY Zenon DEF ColdOrder, ColdOrderExact, After, NotDropped

------------------------------
(* The prefix index of one instance: what its pointers hold. *)

\* A list of blocks, none twice; its block at a place, or none there.
List(w) == w \in Seq(Hashes) /\ Distinct(w)
At(w, n) == IF n \in 1 .. Len(w) THEN w[n] ELSE Nil

\* The list with h in front; the list without its block at place j.
Pushed(h, w) == [n \in 1 .. Len(w) + 1 |-> IF n = 1 THEN h ELSE w[n - 1]]
Without(w, j) == [n \in 1 .. Len(w) - 1 |-> IF n < j THEN w[n] ELSE w[n + 1]]

Links == Hashes \cup {Nil}
LRUs == [lookup : SUBSET Hashes, head : Links, tail : Links,
         prev : [Hashes -> Links], next : [Hashes -> Links]]

\* The head, the tail and both chains of c go through list w.
Chained(c, w) ==
    /\ c \in LRUs /\ List(w)
    /\ c.head = At(w, 1) /\ c.tail = At(w, Len(w))
    /\ \A n \in 1 .. Len(w) : c.prev[w[n]] = At(w, n - 1) /\ c.next[w[n]] = At(w, n + 1)

(* No block is the nil pointer. *)
LEMMA NilApart == Nil \notin Hashes
<1> SUFFICES ASSUME Nil \in Hashes PROVE FALSE OBVIOUS
<1>1. Len(Nil) > 0 BY IndexAssumption
<1>2. Len(Nil) = 0 BY DEF Nil
<1> QED BY <1>1, <1>2

(* Places of a list. *)
LEMMA ListAt ==
  ASSUME NEW w, List(w)
  PROVE  /\ Len(w) \in Nat
         /\ \A n \in 1 .. Len(w) : w[n] \in Hashes /\ w[n] \in Elems(w) /\ At(w, n) = w[n]
         /\ \A n \in Int : At(w, n) = Nil <=> n \notin 1 .. Len(w)
         /\ \A n \in Int : At(w, n) \in Links
         /\ Elems(w) \subseteq Hashes
<1>1. w \in Seq(Hashes) /\ Len(w) \in Nat BY DEF List
<1>2. \A n \in 1 .. Len(w) : w[n] \in Hashes /\ w[n] \in Elems(w) /\ At(w, n) = w[n]
  BY <1>1 DEF Elems, At
<1>3. \A n \in Int : (At(w, n) = Nil <=> n \notin 1 .. Len(w)) /\ At(w, n) \in Links
  BY <1>2, NilApart DEF At, Links
<1>4. Elems(w) \subseteq Hashes BY <1>1 DEF Elems
<1> QED BY <1>1, <1>2, <1>3, <1>4

(* A block in front. *)
LEMMA PushedList ==
  ASSUME NEW w, List(w), NEW h \in Hashes \ Elems(w)
  PROVE  /\ List(Pushed(h, w)) /\ Len(Pushed(h, w)) = Len(w) + 1
         /\ Elems(Pushed(h, w)) = {h} \cup Elems(w)
         /\ Pushed(h, w)[1] = h
         /\ \A n \in 1 .. Len(w) : Pushed(h, w)[n + 1] = w[n]
         /\ \A n \in 1 .. Len(w) + 1 : n = 1 \/ (n - 1 \in 1 .. Len(w) /\ Pushed(h, w)[n] = w[n - 1])
         /\ \A n \in Nat : n >= 1 => At(Pushed(h, w), n + 1) = At(w, n)
<1> DEFINE v == Pushed(h, w)
           L == Len(w)
<1>1. /\ w \in Seq(Hashes) /\ L \in Nat /\ \A n \in 1 .. L : w[n] \in Hashes /\ w[n] \in Elems(w)
  BY ListAt DEF List
<1>2. \A n \in 1 .. L + 1 : n = 1 \/ n - 1 \in 1 .. L BY <1>1
<1>3. /\ v = [n \in 1 .. L + 1 |-> IF n = 1 THEN h ELSE w[n - 1]] BY DEF Pushed
<1>4. v \in Seq(Hashes) /\ Len(v) = L + 1 /\ v[1] = h
      /\ \A n \in 1 .. L + 1 : n = 1 \/ (n - 1 \in 1 .. L /\ v[n] = w[n - 1])
  <2> HIDE DEF v, L
  <2>1. \A n \in 1 .. L + 1 : (IF n = 1 THEN h ELSE w[n - 1]) \in Hashes
    BY <1>1, <1>2
  <2>2. v \in [1 .. L + 1 -> Hashes] /\ L + 1 \in Nat BY <1>1, <1>3, <2>1
  <2>3. v \in Seq(Hashes) /\ Len(v) = L + 1 BY <1>3, <2>2
  <2>4. 1 \in 1 .. L + 1 BY <1>1
  <2> QED BY <1>2, <1>3, <2>3, <2>4
<1> HIDE DEF v
<1>5. \A n \in 1 .. L : v[n + 1] = w[n]
  <2> TAKE n \in 1 .. L
  <2>1. n + 1 \in 1 .. L + 1 /\ n + 1 # 1 /\ (n + 1) - 1 = n BY <1>1
  <2> QED BY <1>4, <2>1
<1>6. Elems(v) = {h} \cup Elems(w)
  <2>1. \A y \in Elems(v) : y \in {h} \cup Elems(w)
    <3> SUFFICES ASSUME NEW n \in 1 .. L + 1 PROVE v[n] \in {h} \cup Elems(w)
      BY <1>4 DEF Elems
    <3> QED BY <1>1, <1>4
  <2>2. h \in Elems(v)
    <3>1. 1 \in 1 .. L + 1 BY <1>1
    <3> QED BY <1>4, <3>1 DEF Elems
  <2>3. \A n \in 1 .. L : w[n] \in Elems(v)
    <3> TAKE n \in 1 .. L
    <3>1. n + 1 \in 1 .. Len(v) BY <1>1, <1>4
    <3> QED BY <1>5, <3>1 DEF Elems
  <2>4. \A y \in Elems(w) : y \in Elems(v) BY <2>3 DEF Elems
  <2> QED BY <2>1, <2>2, <2>4
<1>7. Distinct(v)
  <2> SUFFICES ASSUME NEW a \in 1 .. L + 1, NEW b \in 1 .. L + 1, v[a] = v[b]
               PROVE  a = b
    BY <1>4 DEF Distinct
  <2>1. CASE a = 1 \/ b = 1 BY <1>1, <1>4, <2>1
  <2>2. CASE a # 1 /\ b # 1
    <3>1. a - 1 \in 1 .. L /\ b - 1 \in 1 .. L /\ w[a - 1] = w[b - 1]
      BY <1>4, <2>2
    <3>2. a - 1 = b - 1 BY <3>1 DEF List, Distinct
    <3> QED BY <3>2
  <2> QED BY <2>1, <2>2
<1>8. \A n \in Nat : n >= 1 => At(v, n + 1) = At(w, n)
  <2> SUFFICES ASSUME NEW n \in Nat, n >= 1 PROVE At(v, n + 1) = At(w, n)
    OBVIOUS
  <2>1. n + 1 \in 1 .. L + 1 <=> n \in 1 .. L BY <1>1
  <2> QED BY <1>4, <1>5, <2>1 DEF At
<1> QED BY <1>4, <1>5, <1>6, <1>7, <1>8 DEF v, List

(* A block taken out. *)
LEMMA WithoutList ==
  ASSUME NEW w, List(w), NEW j \in 1 .. Len(w)
  PROVE  /\ List(Without(w, j)) /\ Len(Without(w, j)) = Len(w) - 1
         /\ Elems(Without(w, j)) = Elems(w) \ {w[j]}
         /\ \A n \in 1 .. Len(w) - 1 : Without(w, j)[n] = IF n < j THEN w[n] ELSE w[n + 1]
         /\ \A n \in Int : At(Without(w, j), n) = IF n < j THEN At(w, n) ELSE At(w, n + 1)
<1> DEFINE u == Without(w, j)
           L == Len(w)
<1>1. /\ w \in Seq(Hashes) /\ L \in Nat /\ \A n \in 1 .. L : w[n] \in Hashes /\ w[n] \in Elems(w)
  BY ListAt DEF List
<1>2. u = [n \in 1 .. L - 1 |-> IF n < j THEN w[n] ELSE w[n + 1]]
  BY DEF Without
<1>3. \A n \in 1 .. L - 1 : n \in 1 .. L /\ n + 1 \in 1 .. L BY <1>1
<1>4. u \in Seq(Hashes) /\ Len(u) = L - 1
      /\ \A n \in 1 .. L - 1 : u[n] = IF n < j THEN w[n] ELSE w[n + 1]
  <2> HIDE DEF u
  <2>1. \A n \in 1 .. L - 1 : (IF n < j THEN w[n] ELSE w[n + 1]) \in Hashes
    BY <1>1, <1>3
  <2>2. L - 1 \in Nat BY <1>1
  <2> HIDE DEF L
  <2>3. u \in [1 .. L - 1 -> Hashes] BY <1>2, <2>1
  <2>4. u \in Seq(Hashes) /\ Len(u) = L - 1 BY SMTT(60), <1>2, <2>2, <2>3
  <2> QED BY <1>2, <2>4
<1> HIDE DEF u
<1>5. Elems(u) = Elems(w) \ {w[j]}
  <2>1. \A y \in Elems(u) : y \in Elems(w) \ {w[j]}
    <3> SUFFICES ASSUME NEW n \in 1 .. L - 1 PROVE u[n] \in Elems(w) \ {w[j]}
      BY <1>4 DEF Elems
    <3>1. CASE n < j BY <1>1, <1>3, <1>4, <3>1 DEF List, Distinct
    <3>2. CASE ~(n < j)
      <4>1. n + 1 # j /\ n + 1 \in 1 .. L BY <1>3, <3>2
      <4> QED BY <1>1, <1>4, <3>2, <4>1 DEF List, Distinct
    <3> QED BY <3>1, <3>2
  <2>2. \A n \in 1 .. L : n # j => w[n] \in Elems(u)
    <3> SUFFICES ASSUME NEW n \in 1 .. L, n # j PROVE w[n] \in Elems(u) OBVIOUS
    <3>1. CASE n < j
      <4>1. n \in 1 .. L - 1 BY <1>1, <3>1
      <4> QED BY <1>4, <3>1, <4>1 DEF Elems
    <3>2. CASE ~(n < j)
      <4>1. n - 1 \in 1 .. L - 1 /\ ~(n - 1 < j) /\ (n - 1) + 1 = n
        BY <1>1, <3>2
      <4>2. u[n - 1] = w[n] BY <1>4, <4>1
      <4> QED BY <1>4, <4>1, <4>2 DEF Elems
    <3> QED BY <3>1, <3>2
  <2>3. \A y \in Elems(w) \ {w[j]} : y \in Elems(u) BY <2>2 DEF Elems
  <2> QED BY <2>1, <2>3
<1>6. Distinct(u)
  <2> SUFFICES ASSUME NEW a \in 1 .. L - 1, NEW b \in 1 .. L - 1, u[a] = u[b]
               PROVE  a = b
    BY <1>4 DEF Distinct
  <2> DEFINE p == IF a < j THEN a ELSE a + 1
             q == IF b < j THEN b ELSE b + 1
  <2>1. p \in 1 .. L /\ q \in 1 .. L /\ w[p] = w[q] BY <1>3, <1>4
  <2>2. p = q
    <3> HIDE DEF p, q
    <3> QED BY <2>1 DEF List, Distinct
  <2> QED BY <1>1, <2>2
<1>7. \A n \in Int : At(u, n) = IF n < j THEN At(w, n) ELSE At(w, n + 1)
  <2> TAKE n \in Int
  <2>1. CASE n \in 1 .. L - 1 BY <1>3, <1>4, <2>1 DEF At
  <2>2. CASE n \notin 1 .. L - 1
    <3>1. n < j => n \notin 1 .. L BY <1>1, <2>2
    <3>2. ~(n < j) => n + 1 \notin 1 .. L BY <1>1, <2>2
    <3> QED BY <1>4, <2>2, <3>1, <3>2 DEF At
  <2> QED BY <2>1, <2>2
<1> QED BY <1>4, <1>5, <1>6, <1>7 DEF u, List

(* What pushHead writes. *)
LEMMA PushFields ==
  ASSUME NEW c \in LRUs, NEW h \in Hashes
  PROVE  /\ pushHead(c, h) \in LRUs
         /\ pushHead(c, h).lookup = c.lookup /\ pushHead(c, h).head = h
         /\ pushHead(c, h).tail = IF c.tail = Nil THEN h ELSE c.tail
         /\ \A x \in Hashes :
               /\ pushHead(c, h).prev[x] =
                     IF x = h THEN Nil ELSE IF x = c.head THEN h ELSE c.prev[x]
               /\ pushHead(c, h).next[x] = IF x = h THEN c.head ELSE c.next[x]
<1>1. /\ c.head \in Links /\ h \in Links /\ Nil \in Links
      /\ c.prev \in [Hashes -> Links] /\ c.next \in [Hashes -> Links]
  BY SMTT(60) DEF LRUs, Links
<1>2. pushHead(c, h) \in LRUs
  <2>1. [x \in Hashes |-> IF x = h THEN Nil ELSE IF x = c.head THEN h ELSE c.prev[x]]
           \in [Hashes -> Links]
    BY <1>1
  <2>2. [c.next EXCEPT ![h] = c.head] \in [Hashes -> Links] BY <1>1
  <2>3. (IF c.tail = Nil THEN h ELSE c.tail) \in Links BY <1>1 DEF LRUs
  <2> QED BY <1>1, <2>1, <2>2, <2>3 DEF LRUs, pushHead
<1>3. pushHead(c, h).lookup = c.lookup /\ pushHead(c, h).head = h
  BY DEF pushHead, LRUs
<1>4. pushHead(c, h).tail = IF c.tail = Nil THEN h ELSE c.tail
  BY DEF pushHead, LRUs
<1>5. pushHead(c, h).next = [c.next EXCEPT ![h] = c.head] BY DEF pushHead, LRUs
<1>6. pushHead(c, h).prev = [x \in Hashes |-> IF x = h THEN Nil
                                            ELSE IF x = c.head THEN h ELSE c.prev[x]]
  BY DEF pushHead, LRUs
<1>7. \A x \in Hashes :
         /\ pushHead(c, h).prev[x] = IF x = h THEN Nil ELSE IF x = c.head THEN h ELSE c.prev[x]
         /\ pushHead(c, h).next[x] = IF x = h THEN c.head ELSE c.next[x]
  BY <1>1, <1>5, <1>6
<1> QED BY <1>2, <1>3, <1>4, <1>7

(* A block that is not in the list is put in front of it. *)
LEMMA PushChained ==
  ASSUME NEW c, NEW w, Chained(c, w), NEW h \in Hashes \ Elems(w)
  PROVE  Chained(pushHead(c, h), Pushed(h, w))
<1> DEFINE d == pushHead(c, h)
           v == Pushed(h, w)
           L == Len(w)
<1>1. /\ c \in LRUs /\ List(w) /\ c.head = At(w, 1) /\ c.tail = At(w, L)
      /\ \A n \in 1 .. L : c.prev[w[n]] = At(w, n - 1) /\ c.next[w[n]] = At(w, n + 1)
  BY DEF Chained
<1>2. /\ L \in Nat
      /\ \A n \in 1 .. L : w[n] \in Hashes /\ w[n] \in Elems(w) /\ At(w, n) = w[n]
      /\ \A n \in Int : At(w, n) = Nil <=> n \notin 1 .. L
  BY <1>1, ListAt
<1>3. /\ List(v) /\ Len(v) = L + 1 /\ v[1] = h
      /\ \A n \in 1 .. L + 1 : n = 1 \/ (n - 1 \in 1 .. L /\ v[n] = w[n - 1])
      /\ \A n \in Nat : n >= 1 => At(v, n + 1) = At(w, n)
  BY <1>1, PushedList
<1>4. /\ d \in LRUs /\ d.head = h
      /\ d.tail = IF c.tail = Nil THEN h ELSE c.tail
      /\ \A x \in Hashes :
            /\ d.prev[x] = IF x = h THEN Nil ELSE IF x = c.head THEN h ELSE c.prev[x]
            /\ d.next[x] = IF x = h THEN c.head ELSE c.next[x]
  BY <1>1, PushFields
<1> HIDE DEF d, v, L
<1>5. At(v, 1) = h /\ At(v, 0) = Nil /\ At(v, 1 + 1) = At(w, 1)
  <2>1. 1 \in 1 .. Len(v) /\ 0 \notin 1 .. Len(v) BY <1>2, <1>3
  <2> QED BY <1>3, <2>1 DEF At
<1>6. d.tail = At(v, Len(v))
  <2>1. CASE L = 0
    <3>1. c.tail = Nil /\ Len(v) = 1 BY <1>1, <1>2, <1>3, <2>1
    <3> QED BY <1>4, <1>5, <3>1
  <2>2. CASE L # 0
    <3>1. L \in 1 .. L /\ L >= 1 BY <1>2, <2>2
    <3>2. c.tail # Nil BY <1>1, <1>2, <3>1
    <3> QED BY <1>1, <1>2, <1>3, <1>4, <3>1, <3>2
  <2> QED BY <2>1, <2>2
<1>7. ASSUME NEW n \in 1 .. Len(v)
      PROVE  d.prev[v[n]] = At(v, n - 1) /\ d.next[v[n]] = At(v, n + 1)
  <2>1. CASE n = 1
    <3>1. v[n] = h /\ n - 1 = 0 /\ n + 1 = 1 + 1 BY <1>3, <2>1
    <3> QED BY <1>1, <1>4, <1>5, <3>1
  <2>2. CASE n # 1
    <3> DEFINE m == n - 1
               x == w[m]
    <3>1. m \in 1 .. L /\ v[n] = x /\ n = m + 1 /\ m \in Nat /\ m >= 1
      BY <1>2, <1>3, <2>2
    <3> HIDE DEF m
    <3>2. x \in Hashes /\ x # h /\ c.prev[x] = At(w, m - 1) /\ c.next[x] = At(w, m + 1)
      BY <1>1, <1>2, <3>1
    <3>3. At(v, n + 1) = At(w, m + 1)
      <4>1. m + 1 \in Nat /\ m + 1 >= 1 /\ n + 1 = (m + 1) + 1 BY <3>1
      <4> QED BY <1>3, <4>1
    <3>4. d.next[x] = At(v, n + 1) BY <1>4, <3>2, <3>3
    <3>5. d.prev[x] = At(v, n - 1)
      <4>1. CASE m = 1
        <5>1. x = c.head /\ n - 1 = 1 BY <1>1, <1>2, <3>1, <4>1
        <5> QED BY <1>4, <1>5, <3>2, <5>1
      <4>2. CASE m # 1
        <5>1. x # c.head
          <6>0. 1 \in 1 .. L BY <1>2, <3>1
          <6>1. 1 \in 1 .. L /\ c.head = w[1]
            <7>1. At(w, 1) = w[1] BY <1>2, <6>0
            <7> QED BY <1>1, <6>0, <7>1
          <6>2. \A a, b \in 1 .. L : w[a] = w[b] => a = b
            BY <1>1 DEF List, Distinct, L
          <6> QED BY <3>1, <4>2, <6>1, <6>2
        <5>2. m - 1 \in Nat /\ m - 1 >= 1 /\ n - 1 = (m - 1) + 1 BY <3>1, <4>2
        <5>3. At(v, n - 1) = At(w, m - 1) BY <1>3, <5>2
        <5> QED BY <1>4, <3>2, <5>1, <5>3
      <4> QED BY <4>1, <4>2
    <3> QED BY <3>1, <3>4, <3>5
  <2> QED BY <2>1, <2>2
<1>8. d.head = At(v, 1) BY <1>4, <1>5
<1> QED BY <1>3, <1>4, <1>6, <1>7, <1>8 DEF Chained, d, v

(* What removeNode writes. *)
LEMMA RemoveFields ==
  ASSUME NEW c \in LRUs, NEW h \in Hashes
  PROVE  /\ removeNode(c, h) \in LRUs
         /\ removeNode(c, h).lookup = c.lookup
         /\ removeNode(c, h).head = IF c.prev[h] = Nil THEN c.next[h] ELSE c.head
         /\ removeNode(c, h).tail = IF c.next[h] = Nil THEN c.prev[h] ELSE c.tail
         /\ \A x \in Hashes :
               /\ removeNode(c, h).next[x] =
                     IF x = h THEN Nil ELSE IF x = c.prev[h] THEN c.next[h] ELSE c.next[x]
               /\ removeNode(c, h).prev[x] =
                     IF x = h THEN Nil ELSE IF x = c.next[h] THEN c.prev[h] ELSE c.prev[x]
<1> DEFINE before == c.prev[h]
           after == c.next[h]
<1>1. /\ c.head \in Links /\ c.tail \in Links /\ Nil \in Links
      /\ before \in Links /\ after \in Links
      /\ c.prev \in [Hashes -> Links] /\ c.next \in [Hashes -> Links]
  BY SMTT(60) DEF LRUs, Links
<1>2. removeNode(c, h) \in LRUs
  <2>1. [x \in Hashes |-> IF x = h THEN Nil ELSE IF x = before THEN after ELSE c.next[x]]
           \in [Hashes -> Links]
    BY <1>1
  <2>2. [x \in Hashes |-> IF x = h THEN Nil ELSE IF x = after THEN before ELSE c.prev[x]]
           \in [Hashes -> Links]
    BY <1>1
  <2>3. (IF before = Nil THEN after ELSE c.head) \in Links
        /\ (IF after = Nil THEN before ELSE c.tail) \in Links
    BY <1>1
  <2> QED BY <2>1, <2>2, <2>3 DEF LRUs, removeNode
<1>3. removeNode(c, h).lookup = c.lookup BY DEF removeNode, LRUs
<1>4. /\ removeNode(c, h).head = IF before = Nil THEN after ELSE c.head
      /\ removeNode(c, h).tail = IF after = Nil THEN before ELSE c.tail
  BY DEF removeNode, LRUs
<1>5. removeNode(c, h).next = [x \in Hashes |-> IF x = h THEN Nil
                                              ELSE IF x = before THEN after ELSE c.next[x]]
  BY DEF removeNode, LRUs
<1>6. removeNode(c, h).prev = [x \in Hashes |-> IF x = h THEN Nil
                                              ELSE IF x = after THEN before ELSE c.prev[x]]
  BY DEF removeNode, LRUs
<1>7. \A x \in Hashes :
         /\ removeNode(c, h).next[x] = IF x = h THEN Nil ELSE IF x = before THEN after ELSE c.next[x]
         /\ removeNode(c, h).prev[x] = IF x = h THEN Nil ELSE IF x = after THEN before ELSE c.prev[x]
  BY <1>5, <1>6
<1> QED BY <1>2, <1>3, <1>4, <1>7

(* The block at a place is taken out of the list. *)
LEMMA RemoveChained ==
  ASSUME NEW c, NEW w, Chained(c, w), NEW j \in 1 .. Len(w)
  PROVE  Chained(removeNode(c, w[j]), Without(w, j))
<1> DEFINE h == w[j]
           d == removeNode(c, h)
           u == Without(w, j)
           L == Len(w)
<1>1. /\ c \in LRUs /\ List(w) /\ c.head = At(w, 1) /\ c.tail = At(w, L)
      /\ \A n \in 1 .. L : c.prev[w[n]] = At(w, n - 1) /\ c.next[w[n]] = At(w, n + 1)
  BY DEF Chained
<1>2. /\ L \in Nat
      /\ \A n \in 1 .. L : w[n] \in Hashes /\ w[n] \in Elems(w) /\ At(w, n) = w[n]
      /\ \A n \in Int : At(w, n) = Nil <=> n \notin 1 .. L
  BY <1>1, ListAt
<1>3. /\ List(u) /\ Len(u) = L - 1
      /\ \A n \in 1 .. L - 1 : u[n] = IF n < j THEN w[n] ELSE w[n + 1]
      /\ \A n \in Int : At(u, n) = IF n < j THEN At(w, n) ELSE At(w, n + 1)
  BY <1>1, WithoutList
<1>0. h \in Hashes /\ j \in 1 .. L BY <1>2
<1> DEFINE before == At(w, j - 1)
           after == At(w, j + 1)
<1>4. /\ d \in LRUs
      /\ d.head = IF before = Nil THEN after ELSE c.head
      /\ d.tail = IF after = Nil THEN before ELSE c.tail
      /\ \A x \in Hashes :
            /\ d.next[x] = IF x = h THEN Nil ELSE IF x = before THEN after ELSE c.next[x]
            /\ d.prev[x] = IF x = h THEN Nil ELSE IF x = after THEN before ELSE c.prev[x]
  <2>1. c.prev[h] = before /\ c.next[h] = after BY <1>1
  <2> HIDE DEF h, before, after
  <2> QED BY SMTT(60), <1>0, <1>1, <2>1, RemoveFields DEF d
<1> HIDE DEF d, u, L
<1>5. j \in Int /\ j >= 1 /\ j <= L /\ L \in Nat BY <1>0, <1>2
<1>6. /\ before = Nil <=> j = 1
      /\ after = Nil <=> j = L
  BY <1>2, <1>5
<1>7. d.head = At(u, 1)
  <2>1. At(u, 1) = IF 1 < j THEN At(w, 1) ELSE At(w, 1 + 1) BY <1>3
  <2> QED BY <1>1, <1>4, <1>5, <1>6, <2>1
<1>8. d.tail = At(u, Len(u))
  <2>1. At(u, L - 1) = IF L - 1 < j THEN At(w, L - 1) ELSE At(w, (L - 1) + 1)
    BY SMTT(60), <1>2, <1>3
  <2>2. (L - 1) + 1 = L BY <1>2
  <2>3. CASE j = L BY <1>3, <1>4, <1>5, <1>6, <2>1, <2>3
  <2>4. CASE j # L BY <1>1, <1>3, <1>4, <1>5, <1>6, <2>1, <2>2, <2>4
  <2> QED BY <2>3, <2>4
<1>9. ASSUME NEW n \in 1 .. Len(u)
      PROVE  d.prev[u[n]] = At(u, n - 1) /\ d.next[u[n]] = At(u, n + 1)
  <2> DEFINE p == IF n < j THEN n ELSE n + 1
             x == w[p]
  <2>1. n \in Int /\ n \in 1 .. L - 1 /\ p \in 1 .. L /\ p # j /\ p \in Int
    <3>1. n \in Int /\ n >= 1 /\ n <= L - 1 /\ n \in 1 .. L - 1 BY <1>3, <1>5
    <3>2. CASE n < j BY <1>5, <3>1, <3>2
    <3>3. CASE ~(n < j) BY <1>5, <3>1, <3>3
    <3> QED BY <3>2, <3>3
  <2>2. u[n] = x /\ x \in Hashes /\ x # h
    <3>1. u[n] = x BY <1>3, <2>1
    <3> HIDE DEF p
    <3> QED BY <1>1, <1>2, <2>1, <3>1 DEF List, Distinct, L
  <2>3. c.prev[x] = At(w, p - 1) /\ c.next[x] = At(w, p + 1)
    <3> HIDE DEF p
    <3> QED BY <1>1, <2>1
  <2>4. (x = before <=> p = j - 1) /\ (x = after <=> p = j + 1)
    <3> HIDE DEF p
    <3>1. x # Nil /\ \A k \in 1 .. L : x = w[k] <=> p = k
      BY <1>1, <1>2, <2>1, <2>2 DEF List, Distinct, L
    <3>2. CASE j = 1
      <4>1. x # before /\ p # j - 1 BY <1>6, <2>1, <3>1, <3>2
      <4> QED BY <1>2, <1>5, <1>6, <2>1, <3>1, <4>1
    <3>3. CASE j # 1
      <4>1. j - 1 \in 1 .. L /\ before = w[j - 1] BY <1>2, <1>5, <3>3
      <4>2. x = before <=> p = j - 1 BY <3>1, <4>1
      <4>3. x = after <=> p = j + 1
        <5>1. CASE j = L BY <1>5, <1>6, <2>1, <3>1, <5>1
        <5>2. CASE j # L
          <6>1. j + 1 \in 1 .. L /\ after = w[j + 1] BY <1>2, <1>5, <5>2
          <6> QED BY <3>1, <6>1
        <5> QED BY <5>1, <5>2
      <4> QED BY <4>2, <4>3
    <3> QED BY <3>2, <3>3
  <2>5. d.next[x] = (IF p = j - 1 THEN after ELSE At(w, p + 1))
        /\ d.prev[x] = (IF p = j + 1 THEN before ELSE At(w, p - 1))
    <3> HIDE DEF x, p, before, after
    <3> QED BY <1>4, <2>2, <2>3, <2>4
  <2>6. /\ At(u, n + 1) = IF n + 1 < j THEN At(w, n + 1) ELSE At(w, (n + 1) + 1)
        /\ At(u, n - 1) = IF n - 1 < j THEN At(w, n - 1) ELSE At(w, (n - 1) + 1)
    <3>1. \A m \in Int : At(u, m) = IF m < j THEN At(w, m) ELSE At(w, m + 1)
      BY <1>3
    <3>2. n + 1 \in Int /\ n - 1 \in Int BY <2>1
    <3> QED BY <3>1, <3>2, Zenon
  <2>7. CASE n < j
    <3>1. p = n /\ (n - 1 < j) /\ n # j + 1 BY <1>5, <2>1, <2>7
    <3>2. d.prev[x] = At(u, n - 1) BY <2>5, <2>6, <3>1
    <3>3. CASE n = j - 1
      <4>1. ~(n + 1 < j) /\ (n + 1) + 1 = j + 1 BY <1>5, <2>1, <3>3
      <4> QED BY <2>2, <2>5, <2>6, <3>1, <3>2, <3>3, <4>1
    <3>4. CASE n # j - 1
      <4>1. n + 1 < j BY <1>5, <2>1, <2>7, <3>4
      <4> QED BY <2>2, <2>5, <2>6, <3>1, <3>2, <3>4, <4>1
    <3> QED BY <3>3, <3>4
  <2>8. CASE ~(n < j)
    <3>1. p = n + 1 /\ p # j - 1 /\ ~(n + 1 < j) /\ p - 1 = n /\ p + 1 = (n + 1) + 1
      BY <1>5, <2>1, <2>8
    <3>2. d.next[x] = At(u, n + 1) BY <2>5, <2>6, <3>1
    <3>3. CASE n = j
      <4>1. p = j + 1 /\ n - 1 < j /\ n - 1 = j - 1 BY <1>5, <2>1, <3>1, <3>3
      <4> QED BY <2>2, <2>5, <2>6, <3>2, <4>1
    <3>4. CASE n # j
      <4>1. p # j + 1 /\ ~(n - 1 < j) /\ (n - 1) + 1 = n
        BY <1>5, <2>1, <2>8, <3>1, <3>4
      <4>2. d.prev[x] = At(w, n) /\ At(u, n - 1) = At(w, n)
        BY <2>5, <2>6, <3>1, <4>1
      <4> QED BY <2>2, <3>2, <4>2
    <3> QED BY <3>3, <3>4
  <2> QED BY <2>7, <2>8
<1> QED BY <1>3, <1>4, <1>7, <1>8, <1>9 DEF Chained, d, u

------------------------------
(* The prefix index of one instance: recency. *)

\* The list w holds the last LRUCapacity blocks used, the latest first: what was
\* used after a block is what is before it, and a block is missing only when the
\* list is full of blocks used after it.
Recent(blocks, w) ==
    /\ blocks \in Seq(Hashes) /\ List(w) /\ Len(w) <= LRUCapacity
    /\ Elems(w) \subseteq Elems(blocks)
    /\ \A n \in 1 .. Len(w) : Since(blocks, w[n]) = {w[m] : m \in 1 .. n - 1}
    /\ \A x \in Elems(blocks) \ Elems(w) :
          Len(w) = LRUCapacity /\ Elems(w) \subseteq Since(blocks, x)

(* One more block was used after all others, and none after it. *)
LEMMA SinceAppend ==
  ASSUME NEW blocks \in Seq(Hashes), NEW h \in Hashes
  PROVE  /\ Append(blocks, h) \in Seq(Hashes)
         /\ Elems(Append(blocks, h)) = Elems(blocks) \cup {h}
         /\ Since(Append(blocks, h), h) = {}
         /\ \A y : y # h => Since(Append(blocks, h), y) = Since(blocks, y) \cup {h}
<1> DEFINE b == Append(blocks, h)
           L == Len(blocks)
<1>1. IsSequence(blocks) BY DEF IsSequence, Elems
<1>2. /\ b \in Seq(Hashes) /\ L \in Nat /\ Len(b) = L + 1
      /\ (\A n \in 1 .. L : b[n] = blocks[n]) /\ b[L + 1] = h
      /\ Elems(b) = Elems(blocks) \cup {h}
  BY <1>1, Appended
<1> HIDE DEF b, L
<1>3. Since(b, h) = {}
  <2> SUFFICES ASSUME NEW m \in 1 .. Len(b), \A k \in m .. Len(b) : b[k] # h PROVE FALSE
    BY DEF Since
  <2>1. L + 1 \in m .. Len(b) BY <1>2
  <2> QED BY <1>2, <2>1
<1>4. ASSUME NEW y, y # h
      PROVE  Since(b, y) = Since(blocks, y) \cup {h}
  <2>1. ASSUME NEW m \in 1 .. L
        PROVE  (\A k \in m .. L + 1 : b[k] # y) <=> (\A k \in m .. L : blocks[k] # y)
    <3>1. \A k \in m .. L : k \in 1 .. L /\ k \in m .. L + 1 BY <1>2
    <3>2. \A k \in m .. L + 1 : k \in m .. L \/ k = L + 1 BY <1>2
    <3> QED BY <1>2, <1>4, <3>1, <3>2
  <2>2. \A z \in Since(b, y) : z \in Since(blocks, y) \cup {h}
    <3> SUFFICES ASSUME NEW m \in 1 .. L + 1, \A k \in m .. L + 1 : b[k] # y
                 PROVE  b[m] \in Since(blocks, y) \cup {h}
      BY <1>2 DEF Since
    <3>1. CASE m = L + 1 BY <1>2, <3>1
    <3>2. CASE m # L + 1
      <4>1. m \in 1 .. L BY <1>2, <3>2
      <4>2. \A k \in m .. L : blocks[k] # y BY <2>1, <4>1
      <4> QED BY <1>2, <4>1, <4>2 DEF Since, L
    <3> QED BY <3>1, <3>2
  <2>3. \A z \in Since(blocks, y) : z \in Since(b, y)
    <3> SUFFICES ASSUME NEW m \in 1 .. L, \A k \in m .. L : blocks[k] # y
                 PROVE  blocks[m] \in Since(b, y)
      BY DEF Since, L
    <3>1. m \in 1 .. L + 1 /\ b[m] = blocks[m] BY <1>2
    <3>2. \A k \in m .. L + 1 : b[k] # y BY <2>1
    <3> QED BY <1>2, <3>1, <3>2 DEF Since
  <2>4. h \in Since(b, y)
    <3>1. L + 1 \in 1 .. L + 1 /\ \A k \in L + 1 .. L + 1 : b[k] # y
      BY <1>2, <1>4
    <3> QED BY <1>2, <3>1 DEF Since
  <2> QED BY <2>2, <2>3, <2>4
<1> QED BY <1>2, <1>3, <1>4 DEF b

\* The list that is left to be put behind h when h is used.
Behind(rest, h, w) ==
    \/ \E j \in 1 .. Len(w) : w[j] = h /\ rest = Without(w, j)
    \/ h \notin Elems(w) /\ Len(w) < LRUCapacity /\ rest = w
    \/ h \notin Elems(w) /\ Len(w) = LRUCapacity /\ rest = Without(w, Len(w))

\* It lacks h, leaves room for it, and is in the order of use.
Left(blocks, rest, h, w) ==
    /\ List(rest) /\ h \notin Elems(rest) /\ Elems(rest) \subseteq Elems(w)
    /\ Len(rest) + 1 <= LRUCapacity
    /\ \A k \in 1 .. Len(rest) :
          Since(blocks, rest[k]) \cup {h} = {h} \cup {rest[m] : m \in 1 .. k - 1}

(* What was used after a block that is left. *)
LEMMA BehindSince ==
  ASSUME NEW blocks, NEW w, Recent(blocks, w), NEW h \in Hashes, NEW rest, Behind(rest, h, w)
  PROVE  Left(blocks, rest, h, w)
<1>1. /\ List(w) /\ Len(w) <= LRUCapacity /\ Len(w) \in Nat /\ LRUCapacity \in Nat \ {0}
      /\ \A n \in 1 .. Len(w) : Since(blocks, w[n]) = {w[m] : m \in 1 .. n - 1}
      /\ \A n \in 1 .. Len(w) : w[n] \in Elems(w)
  BY ListAt, IndexAssumption DEF Recent
<1>2. ASSUME NEW j \in 1 .. Len(w), rest = Without(w, j),
             w[j] = h \/ (j = Len(w) /\ h \notin Elems(w))
      PROVE  Left(blocks, rest, h, w)
  <2>1. /\ List(rest) /\ Len(rest) = Len(w) - 1 /\ Elems(rest) = Elems(w) \ {w[j]}
        /\ \A n \in 1 .. Len(w) - 1 : rest[n] = IF n < j THEN w[n] ELSE w[n + 1]
    BY <1>1, <1>2, WithoutList
  <2>2. h \notin Elems(rest) /\ Elems(rest) \subseteq Elems(w) /\ Len(rest) + 1 <= LRUCapacity
    BY <1>1, <1>2, <2>1
  <2>3. ASSUME NEW k \in 1 .. Len(rest)
        PROVE  Since(blocks, rest[k]) \cup {h} = {h} \cup {rest[m] : m \in 1 .. k - 1}
    <3>1. k \in 1 .. Len(w) - 1 /\ k \in 1 .. Len(w) /\ k + 1 \in 1 .. Len(w)
          /\ \A m \in 1 .. k - 1 : m \in 1 .. Len(w) - 1
      BY <1>1, <2>1
    <3>2. CASE k < j
      <4>1. rest[k] = w[k] /\ \A m \in 1 .. k - 1 : rest[m] = w[m]
        BY <2>1, <3>1, <3>2
      <4>2. Since(blocks, rest[k]) = {w[m] : m \in 1 .. k - 1}
        BY <1>1, <3>1, <4>1
      <4>3. {w[m] : m \in 1 .. k - 1} = {rest[m] : m \in 1 .. k - 1} BY <4>1
      <4> QED BY <4>2, <4>3
    <3>3. CASE ~(k < j)
      <4>1. w[j] = h /\ rest[k] = w[k + 1] /\ (k + 1) - 1 = k
        BY <1>1, <1>2, <2>1, <3>1, <3>3
      <4>2. Since(blocks, rest[k]) = {w[m] : m \in 1 .. k} BY <1>1, <3>1, <4>1
      <4>3. \A m \in 1 .. k : w[m] \in {h} \cup {rest[l] : l \in 1 .. k - 1}
        <5> TAKE m \in 1 .. k
        <5>1. CASE m < j
          <6>1. m \in 1 .. k - 1 /\ rest[m] = w[m]
            BY SMTT(60), <1>1, <2>1, <3>1, <3>3, <5>1
          <6> QED BY <6>1
        <5>2. CASE m = j BY <4>1, <5>2
        <5>3. CASE m > j
          <6>1. m - 1 \in 1 .. k - 1 /\ ~(m - 1 < j) /\ (m - 1) + 1 = m
            BY <1>1, <3>1, <5>3
          <6>2. rest[m - 1] = w[m] BY <2>1, <3>1, <6>1
          <6> QED BY <6>1, <6>2
        <5> QED BY <5>1, <5>2, <5>3
      <4>4. \A l \in 1 .. k - 1 : rest[l] \in {w[m] : m \in 1 .. k}
        <5> TAKE l \in 1 .. k - 1
        <5>1. l \in 1 .. k /\ l + 1 \in 1 .. k /\ l \in 1 .. Len(w) - 1 BY <3>1
        <5>2. rest[l] = w[l] \/ rest[l] = w[l + 1] BY <2>1, <5>1
        <5> QED BY <5>1, <5>2
      <4> QED BY <4>2, <4>3, <4>4
    <3> QED BY <3>2, <3>3
  <2> QED BY <2>1, <2>2, <2>3 DEF Left
<1>3. CASE h \notin Elems(w) /\ Len(w) < LRUCapacity /\ rest = w
  <2>1. Len(w) + 1 <= LRUCapacity BY <1>1, <1>3
  <2>2. \A k \in 1 .. Len(w) : Since(blocks, w[k]) \cup {h} = {h} \cup {w[m] : m \in 1 .. k - 1}
    BY <1>1
  <2> QED BY ZenonT(60), <1>1, <1>3, <2>1, <2>2 DEF Left
<1>4. CASE h \notin Elems(w) /\ Len(w) = LRUCapacity /\ rest = Without(w, Len(w))
  <2>1. Len(w) \in 1 .. Len(w) BY <1>1, <1>4
  <2> QED BY <1>2, <1>4, <2>1
<1>5. CASE \E j \in 1 .. Len(w) : w[j] = h /\ rest = Without(w, j)
  BY <1>2, <1>5
<1> QED BY <1>3, <1>4, <1>5 DEF Behind

(* Using a block puts it in front. *)
LEMMA RecentStep ==
  ASSUME NEW blocks, NEW w, Recent(blocks, w), NEW h \in Hashes, NEW rest, Behind(rest, h, w)
  PROVE  Recent(Append(blocks, h), Pushed(h, rest))
<1> DEFINE b == Append(blocks, h)
           v == Pushed(h, rest)
<1>1. /\ List(w) /\ Len(w) <= LRUCapacity /\ Len(w) \in Nat /\ LRUCapacity \in Nat \ {0}
      /\ blocks \in Seq(Hashes) /\ Elems(w) \subseteq Elems(blocks)
      /\ \A n \in 1 .. Len(w) : Since(blocks, w[n]) = {w[m] : m \in 1 .. n - 1}
      /\ \A x \in Elems(blocks) \ Elems(w) :
            Len(w) = LRUCapacity /\ Elems(w) \subseteq Since(blocks, x)
  BY ListAt, IndexAssumption DEF Recent
<1>2. /\ List(rest) /\ h \notin Elems(rest) /\ Elems(rest) \subseteq Elems(w)
      /\ Len(rest) + 1 <= LRUCapacity
      /\ \A k \in 1 .. Len(rest) :
            Since(blocks, rest[k]) \cup {h} = {h} \cup {rest[m] : m \in 1 .. k - 1}
  <2>1. Left(blocks, rest, h, w) BY BehindSince, ZenonT(60)
  <2> QED BY <2>1 DEF Left
<1>3. /\ b \in Seq(Hashes) /\ Elems(b) = Elems(blocks) \cup {h} /\ Since(b, h) = {}
      /\ \A y : y # h => Since(b, y) = Since(blocks, y) \cup {h}
  BY <1>1, SinceAppend
<1>4. /\ List(v) /\ Len(v) = Len(rest) + 1 /\ Elems(v) = {h} \cup Elems(rest) /\ v[1] = h
      /\ \A n \in 1 .. Len(rest) : v[n + 1] = rest[n]
      /\ \A n \in 1 .. Len(rest) + 1 : n = 1 \/ (n - 1 \in 1 .. Len(rest) /\ v[n] = rest[n - 1])
  BY SMTT(60), <1>2, PushedList
<1>0. Len(rest) \in Nat /\ \A k \in 1 .. Len(rest) : rest[k] \in Elems(rest)
  BY <1>2, ListAt
<1> HIDE DEF b, v
<1>5. Elems(v) \subseteq Elems(b) BY <1>1, <1>2, <1>3, <1>4
<1>6. ASSUME NEW n \in 1 .. Len(v)
      PROVE  Since(b, v[n]) = {v[m] : m \in 1 .. n - 1}
  <2>1. CASE n = 1
    <3>1. {v[m] : m \in 1 .. n - 1} = {} BY <2>1
    <3> QED BY <1>3, <1>4, <2>1, <3>1
  <2>2. CASE n # 1
    <3> DEFINE k == n - 1
    <3>1. k \in 1 .. Len(rest) /\ v[n] = rest[k] /\ n - 1 = k /\ k \in Nat
      BY <1>4, <1>0, <2>2
    <3> HIDE DEF k
    <3>2. rest[k] # h BY <1>0, <1>2, <3>1
    <3>3. Since(b, v[n]) = {h} \cup {rest[m] : m \in 1 .. k - 1}
      BY <1>2, <1>3, <3>1, <3>2
    <3>4. \A m \in 1 .. k : v[m] \in {h} \cup {rest[l] : l \in 1 .. k - 1}
      <4> TAKE m \in 1 .. k
      <4>1. m \in 1 .. Len(rest) + 1 BY <1>0, <3>1
      <4>2. m = 1 \/ v[m] = rest[m - 1] BY <1>4, <4>1
      <4>3. m = 1 \/ m - 1 \in 1 .. k - 1 BY <3>1
      <4> QED BY <1>4, <4>2, <4>3
    <3>5. \A l \in 1 .. k - 1 : rest[l] \in {v[m] : m \in 1 .. k}
      <4> TAKE l \in 1 .. k - 1
      <4>1. l \in 1 .. Len(rest) /\ l + 1 \in 1 .. k BY <1>0, <3>1
      <4> QED BY <1>4, <4>1
    <3>6. h \in {v[m] : m \in 1 .. k}
      <4>1. 1 \in 1 .. k BY <3>1
      <4> QED BY <1>4, <4>1
    <3>7. {h} \cup {rest[l] : l \in 1 .. k - 1} = {v[m] : m \in 1 .. k}
      BY <3>4, <3>5, <3>6
    <3> QED BY <3>1, <3>3, <3>7
  <2> QED BY <2>1, <2>2
<1>7. ASSUME NEW x \in Elems(b) \ Elems(v)
      PROVE  Len(v) = LRUCapacity /\ Elems(v) \subseteq Since(b, x)
  <2>1. x # h /\ x \in Elems(blocks) /\ x \notin Elems(rest)
        /\ Since(b, x) = Since(blocks, x) \cup {h}
    BY <1>3, <1>4
  <2>2. SUFFICES Len(rest) + 1 = LRUCapacity /\ Elems(rest) \subseteq Since(blocks, x)
    BY <1>4, <2>1
  <2>3. ASSUME NEW j \in 1 .. Len(w), w[j] = h, rest = Without(w, j)
        PROVE  Len(rest) + 1 = LRUCapacity /\ Elems(rest) \subseteq Since(blocks, x)
    <3>1. Len(rest) = Len(w) - 1 /\ Elems(rest) = Elems(w) \ {w[j]}
      BY <1>1, <2>3, WithoutList
    <3>2. x \notin Elems(w) BY <2>1, <2>3, <3>1
    <3>3. Len(w) = LRUCapacity /\ Elems(w) \subseteq Since(blocks, x)
      BY <1>1, <2>1, <3>2
    <3> QED BY <1>1, <3>1, <3>3
  <2>4. CASE h \notin Elems(w) /\ Len(w) < LRUCapacity /\ rest = w
    <3>1. Len(w) = LRUCapacity BY <1>1, <2>1, <2>4
    <3> QED BY <1>1, <2>4, <3>1
  <2>5. CASE h \notin Elems(w) /\ Len(w) = LRUCapacity /\ rest = Without(w, Len(w))
    <3>1. Len(w) \in 1 .. Len(w) BY <1>1, <2>5
    <3>2. /\ Len(rest) = Len(w) - 1 /\ Elems(rest) = Elems(w) \ {w[Len(w)]}
          /\ \A n \in 1 .. Len(w) - 1 : rest[n] = IF n < Len(w) THEN w[n] ELSE w[n + 1]
      BY <1>1, <2>5, <3>1, WithoutList
    <3>3. CASE x \notin Elems(w)
      <4>1. Elems(w) \subseteq Since(blocks, x) BY <1>1, <2>1, <3>3
      <4> QED BY <1>1, <2>5, <3>2, <4>1
    <3>4. CASE x \in Elems(w)
      <4>1. x = w[Len(w)] BY <2>1, <3>2, <3>4
      <4>2. Since(blocks, x) = {w[m] : m \in 1 .. Len(w) - 1}
        BY <1>1, <3>1, <4>1
      <4>3. \A n \in 1 .. Len(rest) : rest[n] \in Since(blocks, x)
        <5> TAKE n \in 1 .. Len(rest)
        <5>1. n \in 1 .. Len(w) - 1 /\ n < Len(w) BY <1>1, <3>2
        <5>2. rest[n] = w[n] BY <3>2, <5>1
        <5> QED BY <4>2, <5>1, <5>2
      <4>4. Elems(rest) \subseteq Since(blocks, x) BY <4>3 DEF Elems
      <4> QED BY <1>1, <2>5, <3>2, <4>4
    <3> QED BY <3>3, <3>4
  <2> QED BY <2>3, <2>4, <2>5 DEF Behind
<1>8. Len(v) <= LRUCapacity BY <1>2, <1>4
<1>9. Recent(b, v) BY <1>3, <1>4, <1>5, <1>6, <1>7, <1>8 DEF Recent
<1> QED BY <1>9 DEF b, v

------------------------------
(* The prefix index of one instance: using blocks. *)

\* The index c is the list w of the blocks used last.
Holds(c, w, blocks) == Chained(c, w) /\ c.lookup = Elems(w) /\ Recent(blocks, w)

(* The table is apart from the pointers. *)
LEMMA LookupChained ==
  ASSUME NEW c, NEW w, Chained(c, w), NEW X \in SUBSET Hashes
  PROVE  Chained([c EXCEPT !.lookup = X], w) /\ [c EXCEPT !.lookup = X].lookup = X
<1> DEFINE d == [c EXCEPT !.lookup = X]
<1>1. c \in LRUs BY DEF Chained
<1>2. d \in LRUs BY <1>1 DEF LRUs
<1>3. d.lookup = X /\ d.head = c.head /\ d.tail = c.tail /\ d.prev = c.prev /\ d.next = c.next
  BY <1>1 DEF LRUs
<1> HIDE DEF d
<1>4. Chained(d, w) BY <1>2, <1>3 DEF Chained
<1> QED BY <1>3, <1>4 DEF d

(* Using a block: touch of sim/prefix_cache_index.go. *)
LEMMA TouchHolds ==
  ASSUME NEW c, NEW w, NEW blocks, Holds(c, w, blocks), NEW h \in Hashes
  PROVE  /\ touch(c, h) \in LRUs
         /\ \E v : Holds(touch(c, h), v, Append(blocks, h))
<1>1. /\ Chained(c, w) /\ c.lookup = Elems(w) /\ Recent(blocks, w) /\ List(w) /\ c \in LRUs
      /\ c.tail = At(w, Len(w))
  BY DEF Holds, Chained
<1>2. /\ Len(w) \in Nat /\ Len(w) <= LRUCapacity /\ LRUCapacity \in Nat \ {0}
      /\ Elems(w) \subseteq Hashes /\ \A n \in 1 .. Len(w) : At(w, n) = w[n]
  BY <1>1, ListAt, IndexAssumption DEF Recent
<1>3. Cardinality(c.lookup) = Len(w) BY <1>1, DistinctLen DEF List
<1>4. ASSUME NEW d, NEW rest, Behind(rest, h, w), Chained(d, rest),
             d.lookup = {h} \cup Elems(rest), touch(c, h) = pushHead(d, h)
      PROVE  /\ touch(c, h) \in LRUs
             /\ \E v : Holds(touch(c, h), v, Append(blocks, h))
  <2>1. List(rest) /\ h \notin Elems(rest) BY <1>1, <1>4, BehindSince DEF Left
  <2>2. Chained(pushHead(d, h), Pushed(h, rest)) BY <1>4, <2>1, PushChained
  <2>3. pushHead(d, h).lookup = d.lookup /\ pushHead(d, h) \in LRUs
    BY <1>4, PushFields DEF Chained
  <2>4. Elems(Pushed(h, rest)) = {h} \cup Elems(rest) BY <2>1, PushedList
  <2>5. Recent(Append(blocks, h), Pushed(h, rest)) BY <1>1, <1>4, RecentStep
  <2>6. Holds(pushHead(d, h), Pushed(h, rest), Append(blocks, h))
    BY <1>4, <2>2, <2>3, <2>4, <2>5 DEF Holds
  <2> QED BY <1>4, <2>3, <2>6
<1>5. CASE h \in c.lookup
  <2>1. PICK j \in 1 .. Len(w) : w[j] = h BY <1>1, <1>5 DEF Elems
  <2> DEFINE d == removeNode(c, h)
             rest == Without(w, j)
  <2>2. Chained(removeNode(c, w[j]), Without(w, j)) BY <1>1, RemoveChained
  <2>3. Chained(d, rest) BY <2>1, <2>2
  <2>4. Elems(rest) = Elems(w) \ {w[j]} BY <1>1, WithoutList
  <2>5. d.lookup = c.lookup BY <1>1, RemoveFields
  <2>6. d.lookup = {h} \cup Elems(rest) BY <1>1, <1>5, <2>1, <2>4, <2>5
  <2>7. touch(c, h) = pushHead(d, h) BY <1>5 DEF touch
  <2>8. Behind(rest, h, w) BY <2>1 DEF Behind
  <2> HIDE DEF d, rest
  <2> QED BY <1>4, <2>3, <2>6, <2>7, <2>8
<1>6. CASE h \notin c.lookup /\ Len(w) < LRUCapacity
  <2> DEFINE X == c.lookup \cup {h}
             d == [c EXCEPT !.lookup = X]
  <2>1. X \in SUBSET Hashes /\ X = {h} \cup Elems(w) BY <1>1, <1>2
  <2>2. touch(c, h) = pushHead(d, h)
    <3>1. ~(Cardinality(c.lookup) >= LRUCapacity) BY <1>2, <1>3, <1>6
    <3> QED BY <1>6, <3>1 DEF touch
  <2> HIDE DEF X
  <2>3. Chained(d, w) /\ d.lookup = X BY <1>1, <2>1, LookupChained
  <2>4. Behind(w, h, w) BY <1>1, <1>6 DEF Behind
  <2> HIDE DEF d
  <2> QED BY <1>4, <2>1, <2>2, <2>3, <2>4
<1>7. CASE h \notin c.lookup /\ ~(Len(w) < LRUCapacity)
  <2> DEFINE last == w[Len(w)]
             Y == c.lookup \ {last}
             e == [c EXCEPT !.lookup = Y]
             room == removeNode(e, last)
             X == room.lookup \cup {h}
             d == [room EXCEPT !.lookup = X]
             rest == Without(w, Len(w))
  <2>1. Len(w) = LRUCapacity /\ Len(w) \in 1 .. Len(w) BY <1>2, <1>7
  <2>2. c.tail = last BY <1>1, <1>2, <2>1
  <2>3. touch(c, h) = pushHead(d, h)
    <3>1. Cardinality(c.lookup) >= LRUCapacity BY <1>3, <1>2, <2>1
    <3> QED BY <1>7, <2>2, <3>1 DEF touch, evictOldest
  <2>4. Y \in SUBSET Hashes BY <1>1, <1>2
  <2> HIDE DEF Y
  <2>5. Chained(e, w) /\ e.lookup = Y BY <1>1, <2>4, LookupChained
  <2> HIDE DEF e
  <2>6. Chained(room, rest) BY <2>1, <2>5, RemoveChained
  <2>7. room.lookup = Y
    <3>1. last \in Hashes /\ e \in LRUs BY <1>1, <2>1, <2>5, ListAt DEF Chained
    <3> HIDE DEF last
    <3> QED BY <2>5, <3>1, RemoveFields
  <2>8. Elems(rest) = Elems(w) \ {last} BY <1>1, <2>1, WithoutList
  <2>9. X = {h} \cup Elems(rest) /\ X \in SUBSET Hashes
    <3>1. Y = Elems(rest) BY <1>1, <2>8 DEF Y
    <3>2. Elems(rest) \subseteq Hashes BY <1>2, <2>8
    <3> HIDE DEF room, rest
    <3> QED BY <2>7, <3>1, <3>2
  <2> HIDE DEF X, room, rest
  <2>10. Chained(d, rest) /\ d.lookup = X BY <2>6, <2>9, LookupChained
  <2>11. Behind(rest, h, w) BY <1>1, <1>7, <2>1 DEF Behind, rest
  <2> HIDE DEF d
  <2> QED BY <1>4, <2>3, <2>9, <2>10, <2>11
<1> QED BY <1>5, <1>6, <1>7

\* The index c is what using blocks makes it.
Represents(c, blocks) == c \in LRUs /\ \E w : Holds(c, w, blocks)

\* The blocks b and the first k of s.
Grown(b, s, k) == [n \in 1 .. Len(b) + k |-> IF n <= Len(b) THEN b[n] ELSE s[n - Len(b)]]

(* A sequence grown one by one is the sequence with the other behind it. *)
LEMMA GrownSteps ==
  ASSUME NEW b \in Seq(Hashes), NEW s \in Seq(Hashes)
  PROVE  /\ Grown(b, s, 0) = b
         /\ \A k \in 1 .. Len(s) : Grown(b, s, k) = Append(Grown(b, s, k - 1), s[k])
         /\ Grown(b, s, Len(s)) = b \o s
<1> DEFINE L == Len(b)
           g(k) == Grown(b, s, k)
<1>1. L \in Nat /\ Len(s) \in Nat OBVIOUS
<1>2. \A k \in 0 .. Len(s) :
         /\ g(k) \in Seq(Hashes) /\ Len(g(k)) = L + k
         /\ \A n \in 1 .. L + k : g(k)[n] = IF n <= L THEN b[n] ELSE s[n - L]
  <2> TAKE k \in 0 .. Len(s)
  <2>1. g(k) = [n \in 1 .. L + k |-> IF n <= L THEN b[n] ELSE s[n - L]]
    BY DEF Grown
  <2>2. \A n \in 1 .. L + k : (IF n <= L THEN b[n] ELSE s[n - L]) \in Hashes
    <3> TAKE n \in 1 .. L + k
    <3>1. CASE n <= L
      <4>1. n \in 1 .. Len(b) BY <1>1, <3>1
      <4> QED BY <3>1, <4>1
    <3>2. CASE ~(n <= L)
      <4>1. n - L \in 1 .. Len(s) BY <1>1, <3>2
      <4> QED BY <3>2, <4>1
    <3> QED BY <3>1, <3>2
  <2> DEFINE u == g(k)
             N == L + k
  <2>3. N \in Nat /\ DOMAIN u = 1 .. N BY <1>1, <2>1
  <2>4. u \in [1 .. N -> Hashes] BY <2>1, <2>2
  <2>5. \A n \in 1 .. N : u[n] = IF n <= L THEN b[n] ELSE s[n - L] BY <2>1
  <2>6. u \in Seq(Hashes) /\ Len(u) = N
    <3> HIDE DEF u, N
    <3> QED BY <2>3, <2>4
  <2> QED BY <2>5, <2>6
<1> HIDE DEF g
<1>3. g(0) = b
  <2>1. 0 \in 0 .. Len(s) /\ L + 0 = L BY <1>1
  <2>2. g(0) \in Seq(Hashes) /\ Len(g(0)) = L /\ \A n \in 1 .. L : g(0)[n] = b[n]
    BY <1>1, <1>2, <2>1
  <2> QED BY <2>2
<1>4. ASSUME NEW k \in 1 .. Len(s)
      PROVE  g(k) = Append(g(k - 1), s[k])
  <2> DEFINE u == g(k)
             t == g(k - 1)
             v == Append(t, s[k])
  <2>1. k \in 0 .. Len(s) /\ k - 1 \in 0 .. Len(s) /\ s[k] \in Hashes /\ L + (k - 1) = (L + k) - 1
        /\ k \in Nat /\ k >= 1
    BY <1>1
  <2>2. /\ u \in Seq(Hashes) /\ Len(u) = L + k
        /\ \A n \in 1 .. L + k : u[n] = IF n <= L THEN b[n] ELSE s[n - L]
    BY <1>2, <2>1
  <2>3. /\ t \in Seq(Hashes) /\ Len(t) = L + (k - 1)
        /\ \A n \in 1 .. L + (k - 1) : t[n] = IF n <= L THEN b[n] ELSE s[n - L]
    BY <1>2, <2>1
  <2> HIDE DEF t, u
  <2>4. v \in Seq(Hashes) /\ Len(v) = L + k /\ v[L + k] = s[k]
        /\ \A n \in 1 .. L + (k - 1) : v[n] = t[n]
    <3>1. /\ v \in Seq(Hashes) /\ Len(v) = Len(t) + 1 /\ v[Len(t) + 1] = s[k]
          /\ \A n \in 1 .. Len(t) : v[n] = t[n]
      BY <2>1, <2>3
    <3>2. Len(t) + 1 = L + k BY <1>1, <2>1, <2>3
    <3> HIDE DEF v
    <3> QED BY <2>3, <3>1, <3>2
  <2> HIDE DEF v
  <2>5. \A n \in 1 .. L + k : u[n] = v[n]
    <3> TAKE n \in 1 .. L + k
    <3>1. CASE n = L + k
      <4>1. ~(n <= L) /\ n - L = k BY <1>1, <2>1, <3>1
      <4> QED BY <2>2, <2>4, <3>1, <4>1
    <3>2. CASE n # L + k
      <4>1. n \in 1 .. L + (k - 1) BY <1>1, <2>1, <3>2
      <4> QED BY <2>2, <2>3, <2>4, <4>1
    <3> QED BY <3>1, <3>2
  <2>6. u = v BY <1>1, <2>1, <2>2, <2>4, <2>5
  <2> QED BY <2>6 DEF u, v, t
<1>5. g(Len(s)) = b \o s
  <2> DEFINE u == g(Len(s))
             v == b \o s
             M == Len(s)
  <2>1. M \in 0 .. M /\ M \in Nat BY <1>1
  <2>2. /\ u \in Seq(Hashes) /\ Len(u) = L + M
        /\ \A n \in 1 .. L + M : u[n] = IF n <= L THEN b[n] ELSE s[n - L]
    BY <1>2, <2>1
  <2>3. v \in Seq(Hashes) /\ Len(v) = L + M
        /\ \A n \in 1 .. L + M : v[n] = IF n <= L THEN b[n] ELSE s[n - L]
    BY ConcatProperties
  <2> HIDE DEF u, v, M, L
  <2>4. u = v BY SMTT(60), <1>1, <2>1, <2>2, <2>3
  <2> QED BY <2>4 DEF u, v
<1> QED BY <1>3, <1>4, <1>5 DEF g

(* Recording the blocks of a request: RecordBlocks. *)
LEMMA RecordRepresents ==
  ASSUME NEW c, NEW blocks, Represents(c, blocks), NEW hashes \in Seq(Hashes)
  PROVE  Represents(RecordBlocks(c, hashes), blocks \o hashes)
<1> DEFINE n == Len(hashes)
           U == LRUs
           T == [k \in 0 .. n |-> {d \in U : Represents(d, Grown(blocks, hashes, k))}]
           F == [k \in 1 .. n |-> [d \in U |-> touch(d, hashes[k])]]
           Step(g, k) == IF k = 0 THEN c ELSE touch(g[k - 1], hashes[k])
           g == CHOOSE h : h = [k \in 0 .. n |-> Step(h, k)]
<1>1. n \in Nat /\ (\A k \in 1 .. n : hashes[k] \in Hashes) /\ blocks \in Seq(Hashes) /\ c \in U
  BY DEF Represents, Holds, Recent
<1>2. /\ Grown(blocks, hashes, 0) = blocks
      /\ \A k \in 1 .. n : Grown(blocks, hashes, k) = Append(Grown(blocks, hashes, k - 1), hashes[k])
      /\ Grown(blocks, hashes, n) = blocks \o hashes
  BY <1>1, GrownSteps
<1>3. StepsStay(n, U, T, F, c)
  <2>1. \A k \in 0 .. n : T[k] = {d \in U : Represents(d, Grown(blocks, hashes, k))}
    OBVIOUS
  <2>2. c \in T[0] BY <1>1, <1>2, <2>1
  <2>3. ASSUME NEW k \in 1 .. n, NEW d \in T[k - 1]
        PROVE  F[k][d] \in T[k]
    <3>1. k - 1 \in 0 .. n /\ k \in 0 .. n /\ hashes[k] \in Hashes BY <1>1
    <3>2. d \in U /\ Represents(d, Grown(blocks, hashes, k - 1)) BY <2>1, <3>1
    <3>3. PICK w : Holds(d, w, Grown(blocks, hashes, k - 1))
      BY <3>2 DEF Represents
    <3>4. /\ touch(d, hashes[k]) \in LRUs
          /\ \E v : Holds(touch(d, hashes[k]), v, Append(Grown(blocks, hashes, k - 1), hashes[k]))
      BY <3>1, <3>3, TouchHolds
    <3>5. Represents(touch(d, hashes[k]), Grown(blocks, hashes, k))
      BY <1>2, <3>4 DEF Represents
    <3>6. F[k][d] = touch(d, hashes[k]) BY <3>2
    <3> QED BY <2>1, <3>1, <3>4, <3>5, <3>6
  <2>4. \A k \in 0 .. n : T[k] \subseteq U OBVIOUS
  <2> HIDE DEF T, F, U, n
  <2> QED BY <2>2, <2>3, <2>4 DEF StepsStay
<1>4. PICK f \in [0 .. n -> U] : RunOf(n, T, F, c, f)
  <2> HIDE DEF n, U, T, F
  <2> QED BY <1>1, <1>3, StepsDefined
<1>5. f[0] = c BY <1>4 DEF RunOf
<1>6. \A k \in 1 .. n : f[k] = touch(f[k - 1], hashes[k])
  <2> TAKE k \in 1 .. n
  <2>1. f[k] = F[k][f[k - 1]]
    <3> HIDE DEF F, T
    <3> QED BY <1>4 DEF RunOf
  <2>2. f[k - 1] \in U
    <3>1. k - 1 \in 0 .. n BY <1>1
    <3> HIDE DEF U, n
    <3> QED BY <1>4, <3>1
  <2> QED BY <2>1, <2>2
<1>7. f = [k \in 0 .. n |-> Step(f, k)]
  <2>1. ASSUME NEW k \in 0 .. n PROVE f[k] = Step(f, k)
    <3>1. CASE k = 0 BY <1>5, <3>1
    <3>2. CASE k # 0
      <4>1. k \in 1 .. n BY <1>1, <3>2
      <4> QED BY <1>6, <3>2, <4>1
    <3> QED BY <3>1, <3>2
  <2>2. f = [k \in 0 .. n |-> f[k]] OBVIOUS
  <2> HIDE DEF Step
  <2> QED BY <2>1, <2>2
<1>8. g = [k \in 0 .. n |-> Step(g, k)]
  <2> HIDE DEF Step, n
  <2> QED BY <1>7, Zenon
<1>9. \A k \in 0 .. n : g[k] = f[k]
  <2> DEFINE Same == {k \in 0 .. n : g[k] = f[k]}
  <2>0. \A k \in 0 .. n : g[k] = Step(g, k)
    <3> HIDE DEF g, Step
    <3> QED BY <1>8
  <2> HIDE DEF g
  <2>1. 0 \in Same BY <1>1, <1>5, <2>0
  <2>2. ASSUME NEW k \in 1 .. n, k - 1 \in Same PROVE k \in Same
    <3>1. k \in 0 .. n /\ k # 0 /\ g[k - 1] = f[k - 1] BY <2>2, <1>1
    <3>2. g[k] = Step(g, k) BY <2>0, <3>1
    <3> QED BY <1>6, <3>1, <3>2
  <2>3. \A k \in 0 .. n : k \in Same
    <3> HIDE DEF Same, n
    <3> QED BY <1>1, <2>1, <2>2, StepsInduction
  <2> QED BY <2>3
<1>10. RecordBlocks(c, hashes) = g[n] BY DEF RecordBlocks
<1>11. n \in 0 .. n /\ g[n] = f[n] BY <1>1, <1>9
<1>12. f[n] \in T[n]
  <2> HIDE DEF T, F
  <2> QED BY <1>4, <1>11 DEF RunOf
<1>13. T[n] = {d \in U : Represents(d, Grown(blocks, hashes, n))} BY <1>11
<1> HIDE DEF g, T, F, U
<1> QED BY <1>2, <1>10, <1>11, <1>12, <1>13

(* The blocks sent to an instance, decision by decision. *)
SentTo(t, i) ==
    LET upTo[n \in 0 .. Len(t)] ==
            IF n = 0 THEN <<>>
            ELSE IF t[n].chosen = i THEN upTo[n - 1] \o HashesOf(t[n].req)
            ELSE upTo[n - 1]
    IN upTo[Len(t)]

\* f is the recursion that defines SentTo.
SentSteps(f, t, i) ==
    /\ f[0] = <<>>
    /\ \A k \in 1 .. Len(t) :
          f[k] = IF t[k].chosen = i THEN f[k - 1] \o HashesOf(t[k].req) ELSE f[k - 1]
    /\ SentTo(t, i) = f[Len(t)]

Records(t) == IsSequence(t) /\ \A k \in 1 .. Len(t) : t[k].req \in Reqs

(* The recursion is defined. *)
LEMMA SentRun ==
  ASSUME NEW t, Records(t), NEW i
  PROVE  \E f \in [0 .. Len(t) -> Seq(Hashes)] : SentSteps(f, t, i)
<1> DEFINE n == Len(t)
           U == Seq(Hashes)
           T == [k \in 0 .. n |-> U]
           F == [k \in 1 .. n |-> [b \in U |-> IF t[k].chosen = i THEN b \o HashesOf(t[k].req) ELSE b]]
           Step(g, k) == IF k = 0 THEN <<>>
                         ELSE IF t[k].chosen = i THEN g[k - 1] \o HashesOf(t[k].req)
                         ELSE g[k - 1]
           g == CHOOSE h : h = [k \in 0 .. n |-> Step(h, k)]
<1>1. n \in Nat /\ \A k \in 1 .. n : HashesOf(t[k].req) \in U
  BY Appended, HashesTyped DEF Records
<1>2. \A k \in 1 .. n : \A b \in U : F[k][b] \in U
  <2> TAKE k \in 1 .. n
  <2> TAKE b \in U
  <2> DEFINE hs == HashesOf(t[k].req)
  <2>1. hs \in Seq(Hashes) /\ b \in Seq(Hashes) BY <1>1
  <2> HIDE DEF hs
  <2>2. b \o hs \in U BY <2>1
  <2>3. F[k][b] = IF t[k].chosen = i THEN b \o hs ELSE b BY DEF hs
  <2> HIDE DEF F
  <2> QED BY <2>1, <2>2, <2>3
<1>3. StepsStay(n, U, T, F, <<>>)
  <2>1. \A k \in 0 .. n : T[k] = U OBVIOUS
  <2>2. <<>> \in U OBVIOUS
  <2>3. \A k \in 1 .. n : k - 1 \in 0 .. n /\ k \in 0 .. n BY <1>1
  <2> HIDE DEF T, F, U, n
  <2> QED BY <1>1, <1>2, <2>1, <2>2, <2>3 DEF StepsStay
<1>4. PICK f \in [0 .. n -> U] : RunOf(n, T, F, <<>>, f)
  <2> HIDE DEF n, U, T, F
  <2> QED BY <1>1, <1>3, StepsDefined
<1>5. f[0] = <<>> BY <1>4 DEF RunOf
<1>6. \A k \in 1 .. n :
         f[k] = IF t[k].chosen = i THEN f[k - 1] \o HashesOf(t[k].req) ELSE f[k - 1]
  <2> TAKE k \in 1 .. n
  <2>1. f[k] = F[k][f[k - 1]]
    <3> HIDE DEF F, T
    <3> QED BY <1>4 DEF RunOf
  <2>2. f[k - 1] \in U
    <3>1. k - 1 \in 0 .. n BY <1>1
    <3> HIDE DEF U, n
    <3> QED BY <1>4, <3>1
  <2> QED BY <2>1, <2>2
<1>7. f = [k \in 0 .. n |-> Step(f, k)]
  <2>1. ASSUME NEW k \in 0 .. n PROVE f[k] = Step(f, k)
    <3>1. CASE k = 0 BY <1>5, <3>1
    <3>2. CASE k # 0
      <4>1. k \in 1 .. n BY <1>1, <3>2
      <4> QED BY <1>6, <3>2, <4>1
    <3> QED BY <3>1, <3>2
  <2>2. f = [k \in 0 .. n |-> f[k]] OBVIOUS
  <2> HIDE DEF Step
  <2> QED BY <2>1, <2>2
<1>8. g = [k \in 0 .. n |-> Step(g, k)]
  <2> HIDE DEF Step, n
  <2> QED BY <1>7, Zenon
<1>9. \A k \in 0 .. n : g[k] = f[k]
  <2> DEFINE Same == {k \in 0 .. n : g[k] = f[k]}
  <2>0. \A k \in 0 .. n : g[k] = Step(g, k)
    <3> HIDE DEF g, Step
    <3> QED BY <1>8
  <2> HIDE DEF g
  <2>1. 0 \in Same BY <1>1, <1>5, <2>0
  <2>2. ASSUME NEW k \in 1 .. n, k - 1 \in Same PROVE k \in Same
    <3>1. k \in 0 .. n /\ k # 0 /\ g[k - 1] = f[k - 1] BY <2>2, <1>1
    <3>2. g[k] = Step(g, k) BY <2>0, <3>1
    <3> QED BY <1>6, <3>1, <3>2
  <2>3. \A k \in 0 .. n : k \in Same
    <3> HIDE DEF Same, n
    <3> QED BY <1>1, <2>1, <2>2, StepsInduction
  <2> QED BY <2>3
<1>10. SentTo(t, i) = g[n] BY DEF SentTo
<1>11. f \in [0 .. n -> U] /\ SentTo(t, i) = f[n]
  <2> HIDE DEF g, T, F, U
  <2> QED BY <1>1, <1>4, <1>9, <1>10
<1> HIDE DEF g, T, F
<1> QED BY <1>5, <1>6, <1>11 DEF SentSteps

(* A decision sends the blocks of its request to its target. *)
LEMMA SentAppend ==
  ASSUME NEW t, Records(t), NEW x, x.req \in Reqs, NEW i
  PROVE  /\ Records(Append(t, x))
         /\ SentTo(t, i) \in Seq(Hashes)
         /\ SentTo(Append(t, x), i) = IF x.chosen = i THEN SentTo(t, i) \o HashesOf(x.req)
                                      ELSE SentTo(t, i)
<1> DEFINE u == Append(t, x)
           n == Len(t)
<1>1. /\ n \in Nat /\ IsSequence(u) /\ Len(u) = n + 1 /\ u[n + 1] = x
      /\ \A k \in 1 .. n : u[k] = t[k] /\ t[k].req \in Reqs
  BY Appended DEF Records
<1> HIDE DEF u
<1>2. Records(u)
  <2>1. \A k \in 1 .. n + 1 : k \in 1 .. n \/ k = n + 1 BY <1>1
  <2> QED BY <1>1, <2>1 DEF Records
<1>3. PICK f \in [0 .. Len(t) -> Seq(Hashes)] : SentSteps(f, t, i)
  BY SentRun, Zenon
<1>4. PICK g \in [0 .. Len(u) -> Seq(Hashes)] : SentSteps(g, u, i)
  BY <1>2, SentRun, Zenon
<1>5. /\ f[0] = <<>> /\ g[0] = <<>> /\ SentTo(t, i) = f[n] /\ SentTo(u, i) = g[Len(u)]
      /\ \A k \in 1 .. n :
            f[k] = IF t[k].chosen = i THEN f[k - 1] \o HashesOf(t[k].req) ELSE f[k - 1]
      /\ \A k \in 1 .. Len(u) :
            g[k] = IF u[k].chosen = i THEN g[k - 1] \o HashesOf(u[k].req) ELSE g[k - 1]
  BY <1>3, <1>4 DEF SentSteps
<1> DEFINE Same == {k \in 0 .. n : g[k] = f[k]}
<1>6. 0 \in Same BY <1>1, <1>5
<1>7. ASSUME NEW k \in 1 .. n, k - 1 \in Same PROVE k \in Same
  <2>1. k \in 1 .. Len(u) /\ g[k - 1] = f[k - 1] /\ k \in 0 .. n /\ u[k] = t[k]
    BY <1>1, <1>7
  <2> QED BY <1>5, <2>1
<1>8. n \in Same
  <2>1. \A k \in 0 .. n : k \in Same
    <3> HIDE DEF Same, n
    <3> QED BY <1>1, <1>6, <1>7, StepsInduction
  <2> QED BY <1>1, <2>1
<1>9. g[n] = f[n] /\ n + 1 \in 1 .. Len(u) /\ (n + 1) - 1 = n BY <1>1, <1>8
<1>10. g[n + 1] = IF u[n + 1].chosen = i THEN g[(n + 1) - 1] \o HashesOf(u[n + 1].req)
                  ELSE g[(n + 1) - 1]
  BY <1>5, <1>9
<1>11. SentTo(u, i) = IF x.chosen = i THEN SentTo(t, i) \o HashesOf(x.req) ELSE SentTo(t, i)
  BY <1>1, <1>5, <1>9, <1>10
<1>12. SentTo(t, i) \in Seq(Hashes)
  <2>1. n \in 0 .. n BY <1>1
  <2> QED BY <1>3, <1>5, <2>1
<1> QED BY <1>2, <1>11, <1>12 DEF u

(* Members first, then none: the members are what is kept. *)
LEMMA OnlyFirst ==
  ASSUME NEW A, NEW s \in Seq(A), NEW S, NEW p \in 0 .. Len(s),
         \A j \in 1 .. p : s[j] \in S, \A j \in p + 1 .. Len(s) : s[j] \notin S
  PROVE  /\ Only(s, S) \in Seq(A) /\ Len(Only(s, S)) = p
         /\ \A j \in 1 .. p : Only(s, S)[j] = s[j]
<1>1. PICK f \in [0 .. Len(s) -> Seq(A)] : OnlySteps(f, s, S) BY OnlyRun, Zenon
<1>0. OnlySteps(f, s, S)!1 /\ OnlySteps(f, s, S)!2 /\ OnlySteps(f, s, S)!3
  BY <1>1 DEF OnlySteps
<1> DEFINE n == Len(s)
           Good == {k \in 0 .. n : Len(f[k]) <= k /\ Len(f[k]) <= p}
<1>2. n \in Nat /\ p \in Nat /\ (\A k \in 1 .. n : s[k] \in A) /\ \A k \in 0 .. n : f[k] \in Seq(A)
  OBVIOUS
<1>3. 0 \in Good
  <2>1. Len(f[0]) = 0 /\ 0 \in 0 .. n BY <1>0, <1>2
  <2> QED BY <1>2, <2>1
<1>4. ASSUME NEW k \in 1 .. n, k - 1 \in Good PROVE k \in Good
  <2> DEFINE t == f[k - 1]
             m == Len(t)
  <2>1. k \in 0 .. n /\ k - 1 \in 0 .. n /\ t \in Seq(A) /\ m \in Nat /\ k \in Nat
        /\ m <= k - 1 /\ m <= p
    BY <1>2, <1>4
  <2>2. CASE s[k] \notin S
    <3>1. f[k] = t BY <1>0, <2>2
    <3> HIDE DEF t, m
    <3> QED BY <1>2, <2>1, <3>1 DEF m
  <2>3. CASE s[k] \in S
    <3>1. f[k] = Append(t, s[k]) /\ s[k] \in A BY <1>0, <1>2, <2>3
    <3>2. Len(f[k]) = m + 1 BY <2>1, <3>1
    <3>3. ~(k > p)
      <4>1. k > p => k \in p + 1 .. Len(s) BY <1>2
      <4> QED BY <2>3, <4>1
    <3> HIDE DEF t, m, n
    <3> QED BY <1>2, <2>1, <3>2, <3>3
  <2> QED BY <2>2, <2>3
<1>5. \A k \in 0 .. n : k \in Good
  <2> HIDE DEF Good, n
  <2> QED BY <1>2, <1>3, <1>4, StepsInduction
<1>6. n \in Good /\ n \in 0 .. n
  <2>1. n \in 0 .. n BY <1>2
  <2> HIDE DEF Good, n
  <2> QED BY <1>5, <2>1
<1>7. Only(s, S) = f[n] /\ f[n] \in Seq(A) BY <1>0, <1>2
<1>8. Len(Only(s, S)) <= p BY <1>6, <1>7
<1>9. p <= Len(Only(s, S)) /\ \A j \in 1 .. p : Only(s, S)[j] = s[j]
  BY OnlyPrefix
<1>10. Len(Only(s, S)) \in Nat BY <1>7
<1> QED BY <1>2, <1>7, <1>8, <1>9, <1>10

------------------------------
(* The prefix index of one instance: what a walk finds. *)

(* A list is no longer than there are blocks. *)
LEMMA ListFits ==
  ASSUME NEW w, List(w)
  PROVE  /\ Cardinality(Hashes) \in Nat /\ Len(w) \in 0 .. Cardinality(Hashes)
         /\ IsFiniteSet(Elems(w)) /\ Cardinality(Elems(w)) = Len(w)
<1>1. w \in Seq(Hashes) /\ Distinct(w) /\ Len(w) \in Nat /\ Elems(w) \subseteq Hashes
  BY ListAt DEF List
<1>2. IsFiniteSet(Elems(w)) /\ Cardinality(Elems(w)) = Len(w)
  BY <1>1, DistinctLen
<1>3. IsFiniteSet(Hashes) BY IndexAssumption
<1>4. Cardinality(Hashes) \in Nat BY <1>3, FS_CardinalityType
<1>5. Cardinality(Elems(w)) <= Cardinality(Hashes) BY <1>1, <1>3, FS_Subset
<1> QED BY <1>1, <1>2, <1>4, <1>5

(* The walk from the head along the forward pointers is the list. *)
LEMMA WalkHolds ==
  ASSUME NEW c, NEW w, Chained(c, w)
  PROVE  Walk(c) = w
<1> DEFINE N == Cardinality(Hashes)
           L == Len(w)
           Step(f, n) == IF n = 0 THEN c.head
                         ELSE IF f[n - 1] = Nil THEN Nil ELSE c.next[f[n - 1]]
           from == CHOOSE f : f = [n \in 0 .. N |-> Step(f, n)]
           way == [n \in 0 .. N |-> At(w, n + 1)]
           q == [n \in 1 .. N + 1 |-> from[n - 1]]
<1>1. /\ List(w) /\ c.head = At(w, 1)
      /\ \A n \in 1 .. L : c.next[w[n]] = At(w, n + 1)
  BY DEF Chained
<1>2. /\ L \in Nat
      /\ \A n \in 1 .. L : w[n] \in Hashes /\ At(w, n) = w[n]
      /\ \A n \in Int : At(w, n) = Nil <=> n \notin 1 .. L
      /\ \A n \in Int : At(w, n) \in Links
  BY <1>1, ListAt
<1>3. N \in Nat /\ L \in 0 .. N BY <1>1, ListFits
<1> HIDE DEF N, L
<1>4. ASSUME NEW n \in 1 .. N
      PROVE  At(w, n + 1) = IF At(w, n) = Nil THEN Nil ELSE c.next[At(w, n)]
  <2>1. n \in Int /\ n + 1 \in Int /\ n >= 1 BY <1>3
  <2>2. CASE n \in 1 .. L BY <1>1, <1>2, <2>1, <2>2
  <2>3. CASE n \notin 1 .. L
    <3>1. n + 1 \notin 1 .. L BY <1>2, <2>1, <2>3
    <3> QED BY <1>2, <2>1, <2>3, <3>1
  <2> QED BY <2>2, <2>3
<1>5. way = [n \in 0 .. N |-> Step(way, n)]
  <2>1. ASSUME NEW n \in 0 .. N PROVE way[n] = Step(way, n)
    <3>1. CASE n = 0 BY <1>1, <1>3, <3>1
    <3>2. CASE n # 0
      <4>1. n \in 1 .. N /\ n - 1 \in 0 .. N /\ (n - 1) + 1 = n BY <1>3, <3>2
      <4>2. way[n - 1] = At(w, n) /\ way[n] = At(w, n + 1) BY <4>1
      <4> HIDE DEF way
      <4> QED BY <1>4, <3>2, <4>1, <4>2
    <3> QED BY <3>1, <3>2
  <2>2. way = [n \in 0 .. N |-> way[n]] OBVIOUS
  <2> HIDE DEF Step, way
  <2> QED BY <2>1, <2>2
<1>6. from = [n \in 0 .. N |-> Step(from, n)]
  <2> HIDE DEF Step, way
  <2> QED BY <1>5, Zenon
<1>7. \A n \in 0 .. N : from[n] = way[n]
  <2> DEFINE Same == {n \in 0 .. N : from[n] = way[n]}
  <2>1. \A n \in 0 .. N : from[n] = Step(from, n) /\ way[n] = Step(way, n)
    <3> HIDE DEF from, way, Step
    <3> QED BY <1>5, <1>6
  <2> HIDE DEF from, way
  <2>2. 0 \in Same BY <1>3, <2>1
  <2>3. ASSUME NEW n \in 1 .. N, n - 1 \in Same PROVE n \in Same
    <3>1. n \in 0 .. N /\ n # 0 /\ from[n - 1] = way[n - 1] BY <1>3, <2>3
    <3>2. from[n] = Step(from, n) /\ way[n] = Step(way, n) BY <2>1, <3>1
    <3> QED BY <3>1, <3>2
  <2>4. \A n \in 0 .. N : n \in Same
    <3> HIDE DEF Same
    <3> QED BY <1>3, <2>2, <2>3, StepsInduction
  <2> QED BY <2>4
<1>8. \A n \in 1 .. N + 1 : q[n] = At(w, n)
  <2> TAKE n \in 1 .. N + 1
  <2>1. n - 1 \in 0 .. N /\ (n - 1) + 1 = n BY <1>3
  <2>2. way[n - 1] = At(w, n) BY <2>1
  <2> HIDE DEF from, way
  <2> QED BY <1>7, <2>1, <2>2
<1>9. Walk(c) = Only(q, Hashes) BY DEF Walk, N
<1>10. q \in Seq(Links) /\ Len(q) = N + 1
  <2>1. DOMAIN q = 1 .. N + 1 /\ q = [n \in 1 .. N + 1 |-> q[n]] OBVIOUS
  <2> HIDE DEF q
  <2>2. \A n \in 1 .. N + 1 : q[n] \in Links
    <3> TAKE n \in 1 .. N + 1
    <3>1. n \in Int BY <1>3
    <3> QED BY <1>2, <1>8, <3>1
  <2>3. q \in [1 .. N + 1 -> Links] /\ N + 1 \in Nat BY <1>3, <2>1, <2>2
  <2> QED BY <2>1, <2>3
<1> HIDE DEF q, from, way
<1>11. \A n \in 1 .. L : q[n] \in Hashes /\ q[n] = w[n]
  <2> TAKE n \in 1 .. L
  <2>1. n \in 1 .. N + 1 BY <1>3
  <2> QED BY <1>2, <1>8, <2>1
<1>12. \A n \in L + 1 .. Len(q) : q[n] \notin Hashes
  <2> TAKE n \in L + 1 .. Len(q)
  <2>1. n \in 1 .. N + 1 /\ n \in Int /\ n \notin 1 .. L BY <1>2, <1>3, <1>10
  <2>2. q[n] = Nil BY <1>2, <1>8, <2>1
  <2> QED BY <2>2, NilApart
<1>13. L \in 0 .. Len(q) BY <1>2, <1>3, <1>10
<1>14. /\ Only(q, Hashes) \in Seq(Links) /\ Len(Only(q, Hashes)) = L
       /\ \A n \in 1 .. L : Only(q, Hashes)[n] = q[n]
  BY SMTT(60), <1>10, <1>11, <1>12, <1>13, OnlyFirst
<1>15. w \in Seq(Hashes) /\ Len(w) = L BY <1>1 DEF List, L
<1> DEFINE v == Only(q, Hashes)
<1>16. v \in Seq(Links) /\ Len(v) = L /\ \A n \in 1 .. L : v[n] = w[n]
  BY <1>11, <1>14
<1> HIDE DEF v
<1>17. v = w BY <1>15, <1>16
<1> QED BY <1>9, <1>17 DEF v

(* As many blocks were used after a block as are before it in the list. *)
LEMMA BeforeCount ==
  ASSUME NEW w, List(w), NEW n \in 1 .. Len(w)
  PROVE  Cardinality({w[m] : m \in 1 .. n - 1}) = n - 1
<1> DEFINE v == [m \in 1 .. n - 1 |-> w[m]]
           k == n - 1
<1>1. /\ Len(w) \in Nat /\ w \in Seq(Hashes) /\ Distinct(w)
      /\ \A m \in 1 .. Len(w) : w[m] \in Hashes
  BY ListAt DEF List
<1>2. k \in Nat /\ \A m \in 1 .. k : m \in 1 .. Len(w) BY <1>1
<1>3. DOMAIN v = 1 .. k /\ \A m \in 1 .. k : v[m] = w[m] OBVIOUS
<1>4. v \in [1 .. k -> Hashes] BY <1>1, <1>2
<1>5. {w[m] : m \in 1 .. k} = {v[m] : m \in 1 .. k} BY <1>3
<1> HIDE DEF v, k
<1>6. v \in Seq(Hashes) /\ Len(v) = k BY <1>2, <1>3, <1>4
<1>7. Distinct(v) BY <1>1, <1>2, <1>3, <1>6 DEF Distinct
<1>8. Cardinality(Elems(v)) = k BY <1>6, <1>7, DistinctLen
<1>9. Elems(v) = {w[m] : m \in 1 .. k} BY <1>5, <1>6 DEF Elems
<1> QED BY <1>8, <1>9 DEF k

(* What IndexIsRecency says of one index. *)
LEMMA RecencyHolds ==
  ASSUME NEW c, NEW w, NEW blocks, Holds(c, w, blocks)
  PROVE  /\ Walk(c) = w
         /\ Elems(w) = {h \in Elems(blocks) : Cardinality(Since(blocks, h)) < LRUCapacity}
         /\ \A n \in 1 .. Len(w) : Cardinality(Since(blocks, w[n])) = n - 1
         /\ c.lookup = Elems(w)
         /\ \A n \in 2 .. Len(w) : c.prev[w[n]] = w[n - 1]
         /\ w # <<>> => c.tail = w[Len(w)] /\ c.prev[w[1]] = Nil
<1>1. /\ Chained(c, w) /\ c.lookup = Elems(w) /\ List(w) /\ c.tail = At(w, Len(w))
      /\ \A n \in 1 .. Len(w) : c.prev[w[n]] = At(w, n - 1)
  BY DEF Holds, Chained
<1>2. /\ blocks \in Seq(Hashes) /\ Len(w) <= LRUCapacity /\ Elems(w) \subseteq Elems(blocks)
      /\ \A n \in 1 .. Len(w) : Since(blocks, w[n]) = {w[m] : m \in 1 .. n - 1}
      /\ \A x \in Elems(blocks) \ Elems(w) :
            Len(w) = LRUCapacity /\ Elems(w) \subseteq Since(blocks, x)
  BY DEF Holds, Recent
<1>3. /\ Len(w) \in Nat /\ w \in Seq(Hashes)
      /\ \A n \in 1 .. Len(w) : w[n] \in Hashes /\ w[n] \in Elems(w) /\ At(w, n) = w[n]
      /\ \A n \in Int : At(w, n) = Nil <=> n \notin 1 .. Len(w)
  BY <1>1, ListAt DEF List
<1>4. LRUCapacity \in Nat /\ IsFiniteSet(Hashes) BY IndexAssumption
<1>5. ASSUME NEW n \in 1 .. Len(w) PROVE Cardinality(Since(blocks, w[n])) = n - 1
  <2>1. Cardinality({w[m] : m \in 1 .. n - 1}) = n - 1 BY <1>1, BeforeCount
  <2>2. Since(blocks, w[n]) = {w[m] : m \in 1 .. n - 1} BY <1>2
  <2> QED BY <2>1, <2>2
<1>6. ASSUME NEW x \in Elems(w) PROVE x \in Elems(blocks) /\ Cardinality(Since(blocks, x)) < LRUCapacity
  <2>1. PICK n \in 1 .. Len(w) : w[n] = x BY DEF Elems
  <2>2. Cardinality(Since(blocks, x)) = n - 1 BY <1>5, <2>1
  <2> QED BY <1>2, <1>3, <1>4, <2>2
<1>7. ASSUME NEW x \in Elems(blocks), x \notin Elems(w)
      PROVE  ~(Cardinality(Since(blocks, x)) < LRUCapacity)
  <2>1. Len(w) = LRUCapacity /\ Elems(w) \subseteq Since(blocks, x)
    BY <1>2, <1>7
  <2>2. Since(blocks, x) \subseteq Hashes BY <1>2 DEF Since
  <2>3. IsFiniteSet(Since(blocks, x)) /\ Cardinality(Since(blocks, x)) \in Nat
    BY <1>4, <2>2, FS_Subset, FS_CardinalityType
  <2>4. Cardinality(Elems(w)) = Len(w) BY <1>1, ListFits
  <2>5. Cardinality(Elems(w)) <= Cardinality(Since(blocks, x))
    BY <2>1, <2>3, FS_Subset
  <2> QED BY <1>4, <2>1, <2>3, <2>4, <2>5
<1>8. Elems(w) = {h \in Elems(blocks) : Cardinality(Since(blocks, h)) < LRUCapacity}
  BY <1>6, <1>7
<1>9. ASSUME NEW n \in 2 .. Len(w) PROVE c.prev[w[n]] = w[n - 1]
  <2>1. n \in 1 .. Len(w) /\ n - 1 \in 1 .. Len(w) BY <1>3
  <2> QED BY <1>1, <1>3, <2>1
<1>10. ASSUME w # <<>> PROVE c.tail = w[Len(w)] /\ c.prev[w[1]] = Nil
  <2>1. Len(w) # 0 BY <1>3, <1>10
  <2>2. 1 \in 1 .. Len(w) /\ Len(w) \in 1 .. Len(w) /\ 1 - 1 \notin 1 .. Len(w) /\ 1 - 1 \in Int
    BY <1>3, <2>1
  <2> QED BY <1>1, <1>3, <2>2
<1>11. Walk(c) = w BY <1>1, WalkHolds
<1> QED BY <1>1, <1>5, <1>8, <1>9, <1>10, <1>11

------------------------------
(* The prefix indices of all instances over a history of decisions. *)

\* The index of every instance is what using the blocks sent to it makes it.
Remembered ==
    /\ Records(trace)
    /\ Uses("prefix-affinity") =>
          DOMAIN index = All /\ \A i \in All : Represents(index[i], SentTo(trace, i))

(* Nothing was sent and the indices are empty. *)
LEMMA InitRemembered == Init => Remembered
<1> SUFFICES ASSUME Init PROVE Remembered OBVIOUS
<1>1. trace = <<>> /\ index = [i \in All |-> EmptyIndex] BY DEF Init
<1>2. Records(trace) /\ Len(trace) = 0
  <2>1. <<>> \in Seq(Elems(<<>>)) /\ Len(<<>>) = 0 OBVIOUS
  <2> QED BY <1>1, <2>1 DEF Records, IsSequence
<1>3. ASSUME NEW i \in All PROVE Represents(index[i], SentTo(trace, i))
  <2>1. PICK f \in [0 .. Len(trace) -> Seq(Hashes)] : SentSteps(f, trace, i)
    BY <1>2, SentRun, Zenon
  <2>2. SentTo(trace, i) = <<>> BY <1>2, <2>1 DEF SentSteps
  <2>3. EmptyIndex \in LRUs BY DEF EmptyIndex, LRUs, Links
  <2>4. Elems(<<>>) = {} /\ List(<<>>) /\ Len(<<>>) = 0 /\ <<>> \in Seq(Hashes)
    BY DEF Elems, List, Distinct
  <2>5. \A n \in Int : At(<<>>, n) = Nil BY <2>4 DEF At
  <2>6. Chained(EmptyIndex, <<>>) BY <2>3, <2>4, <2>5 DEF Chained, EmptyIndex
  <2>7. EmptyIndex.lookup = {} BY DEF EmptyIndex
  <2>8. Recent(<<>>, <<>>) BY <2>4, IndexAssumption DEF Recent
  <2>9. Holds(EmptyIndex, <<>>, <<>>) BY <2>4, <2>6, <2>7, <2>8 DEF Holds
  <2> QED BY <1>1, <2>2, <2>3, <2>9 DEF Represents
<1> QED BY <1>1, <1>2, <1>3 DEF Remembered

(* Steps that decide nothing. *)
LEMMA RememberedStays ==
  ASSUME Remembered, UNCHANGED <<config, trace, index>>
  PROVE  Remembered'
<1>1. config' = config /\ trace' = trace /\ index' = index OBVIOUS
<1>2. Uses("prefix-affinity")' <=> Uses("prefix-affinity") BY <1>1 DEF Uses
<1>3. Records(trace') BY <1>1 DEF Remembered
<1>4. ASSUME Uses("prefix-affinity"), NEW i \in All
      PROVE  DOMAIN index' = All /\ Represents(index'[i], SentTo(trace', i))
  BY <1>1, <1>4, Zenon DEF Remembered
<1>5. Uses("prefix-affinity") => DOMAIN index' = All BY <1>1 DEF Remembered
<1> QED BY <1>2, <1>3, <1>4, <1>5 DEF Remembered

(* A decision of the prefix-affinity scorer. *)
LEMMA RoutingIndex ==
  ASSUME Readable, Loads, OrderShape, Routing, Remembered, Uses("prefix-affinity")
  PROVE  DOMAIN index' = All /\ \A i \in All : Represents(index'[i], SentTo(trace', i))
<1>1. /\ Records(trace) /\ DOMAIN index = All
      /\ \A i \in All : Represents(index[i], SentTo(trace, i))
  BY DEF Remembered
<1>2. CASE UNCHANGED <<trace, counter, order, index>>
  <2>1. trace' = trace /\ index' = index BY <1>2
  <2> QED BY <1>1, <2>1, Zenon
<1>3. ASSUME NEW x, NEW r, NEW cands, NEW s, Decision(x, r, cands, s)
      PROVE  DOMAIN index' = All /\ \A i \in All : Represents(index'[i], SentTo(trace', i))
  <2> DEFINE hashes == HashesOf(r)
             t == x.chosen
  <2>1. /\ trace' = Append(trace, x) /\ x.req = r /\ r \in Reqs /\ t \in All
        /\ Learn(r, cands, s, t)
    BY <1>3 DEF Decision, Recorded
  <2>2. index' = [index EXCEPT ![t] = RecordBlocks(@, hashes)]
    BY <2>1 DEF Learn
  <2>3. hashes \in Seq(Hashes) BY <2>1, HashesTyped
  <2>4. DOMAIN index' = All /\ \A i \in All : index'[i] = IF i = t THEN RecordBlocks(index[i], hashes)
                                                     ELSE index[i]
    BY <1>1, <2>2
  <2>5. ASSUME NEW i \in All
        PROVE  SentTo(trace', i) = IF t = i THEN SentTo(trace, i) \o hashes ELSE SentTo(trace, i)
    BY ZenonT(60), <1>1, <2>1, SentAppend
  <2> HIDE DEF hashes, t
  <2>6. ASSUME NEW i \in All PROVE Represents(index'[i], SentTo(trace', i))
    <3>1. Represents(index[i], SentTo(trace, i)) BY <1>1
    <3>2. CASE i = t
      <4>1. Represents(RecordBlocks(index[i], hashes), SentTo(trace, i) \o hashes)
        BY <2>3, <3>1, RecordRepresents
      <4>2. index'[i] = RecordBlocks(index[i], hashes) /\ SentTo(trace', i) = SentTo(trace, i) \o hashes
        BY <2>4, <2>5, <3>2
      <4> QED BY <4>1, <4>2, Zenon
    <3>3. CASE i # t
      <4>1. index'[i] = index[i] /\ SentTo(trace', i) = SentTo(trace, i)
        BY <2>4, <2>5, <3>3
      <4> QED BY <3>1, <4>1, Zenon
    <3> QED BY <3>2, <3>3
  <2> QED BY <2>4, <2>6
<1>4. \/ UNCHANGED <<trace, counter, order, index>>
      \/ \E x, r, cands, s : Decision(x, r, cands, s)
  BY ScoredDecision
<1> QED BY <1>2, <1>3, <1>4

(* A decision. *)
LEMMA RoutingRemembered ==
  ASSUME Readable, Loads, OrderShape, Routing, Remembered
  PROVE  Remembered'
<1> DEFINE r == Head(pending).req
           cands == Candidates(r)
           s == StateOf(cands)
<1>1. config' = config /\ Records(trace) BY DEF Routing, Remembered
<1>2. r \in Reqs
  <2>1. pending \in Seq(Waits) /\ pending # <<>>
    BY DEF Routing, Readable, Shapes
  <2>2. Head(pending) \in Waits BY <2>1, HeadTail
  <2> QED BY <2>2 DEF Waits
<1>3. Uses("prefix-affinity")' <=> Uses("prefix-affinity") BY <1>1 DEF Uses
<1>4. \/ UNCHANGED <<trace, counter, order, index>>
      \/ \E x : Recorded(x, r, cands, s)
  BY DecisionRecorded
<1> HIDE DEF r, cands, s
<1>5. CASE UNCHANGED <<trace, counter, order, index>>
  BY <1>1, <1>5, RememberedStays
<1>6. CASE \E x : Recorded(x, r, cands, s)
  <2>1. PICK x : Recorded(x, r, cands, s) BY <1>6
  <2>2. trace' = Append(trace, x) /\ x.req = r BY <2>1 DEF Recorded
  <2>3. Records(trace') BY <1>1, <1>2, <2>2, SentAppend
  <2> QED BY <1>3, <2>3, RoutingIndex DEF Remembered
<1> QED BY <1>4, <1>5, <1>6

------------------------------
(* What the router remembers. *)

\* The inductive invariant, but for what Readable says.
Memory ==
    /\ Loads /\ History /\ Bucket /\ Amounts
    /\ Uses("no-hit-lru") => ColdOrder
    /\ Remembered

(* The cold order is left alone by all steps but decisions. *)
LEMMA ColdOrderStays ==
  ASSUME UNCHANGED <<config, trace, order>>, Uses("no-hit-lru") => ColdOrder
  PROVE  Uses("no-hit-lru")' => ColdOrder'
<1>1. config' = config /\ trace' = trace /\ order' = order OBVIOUS
<1>2. Uses("no-hit-lru")' <=> Uses("no-hit-lru") BY <1>1 DEF Uses
<1>3. ColdOrder => ColdOrder'
  BY <1>1 DEF ColdOrder, ColdChoices, After, NotDropped
<1> QED BY <1>2, <1>3

(* The property in these terms. *)
LEMMA RecencyExact ==
  ASSUME Remembered
  PROVE  IndexIsRecency
<1> SUFFICES ASSUME Uses("prefix-affinity"), NEW i \in All
             PROVE  LET blocks == Sent(i)
                        walk == Walk(index[i])
                    IN /\ Elems(walk) =
                             {h \in Elems(blocks) : Cardinality(Since(blocks, h)) < LRUCapacity}
                       /\ \A n \in 1 .. Len(walk) : Cardinality(Since(blocks, walk[n])) = n - 1
                       /\ index[i].lookup = Elems(walk)
                       /\ \A n \in 2 .. Len(walk) : index[i].prev[walk[n]] = walk[n - 1]
                       /\ walk # <<>> => index[i].tail = walk[Len(walk)] /\ index[i].prev[walk[1]] = Nil
  BY Zenon DEF IndexIsRecency
<1>1. Sent(i) = SentTo(trace, i) BY DEF Sent, SentTo
<1>2. PICK w : Holds(index[i], w, SentTo(trace, i))
  BY DEF Remembered, Represents
<1> DEFINE c == index[i]
           blocks == SentTo(trace, i)
<1>3. Holds(c, w, blocks) BY <1>2
<1> HIDE DEF c, blocks
<1>4. /\ Walk(c) = w
      /\ Elems(w) = {h \in Elems(blocks) : Cardinality(Since(blocks, h)) < LRUCapacity}
      /\ \A n \in 1 .. Len(w) : Cardinality(Since(blocks, w[n])) = n - 1
      /\ c.lookup = Elems(w)
      /\ \A n \in 2 .. Len(w) : c.prev[w[n]] = w[n - 1]
      /\ w # <<>> => c.tail = w[Len(w)] /\ c.prev[w[1]] = Nil
  BY <1>3, RecencyHolds
<1>5. Walk(index[i]) = w /\ Sent(i) = blocks /\ index[i] = c
  BY <1>1, <1>4 DEF c, blocks
<1> QED BY <1>4, <1>5, Zenon

(* A step keeps the bucket and the amounts, and no policy is changed but by  *)
(* a decision.                                                               *)
LEMMA OtherMemory ==
  ASSUME Readable, Memory, [Next]_vars, Loads', History', UNCHANGED <<config, trace, order, index>>
  PROVE  Memory'
<1>1. Bucket' /\ Amounts'
  <2>1. Bucket' BY AdmissionBucket, OtherBucket DEF Memory
  <2> QED BY <2>1, NextAmounts DEF Memory
<1>2. Uses("no-hit-lru")' => ColdOrder' BY ColdOrderStays DEF Memory
<1>3. Remembered' BY RememberedStays DEF Memory
<1> QED BY <1>1, <1>2, <1>3 DEF Memory

(* Every step keeps what the router remembers exact. *)
LEMMA NextMemory == Readable /\ Memory /\ [Next]_vars => Memory'
<1> SUFFICES ASSUME Readable, Memory, [Next]_vars PROVE Memory' OBVIOUS
<1>0. Loads /\ History BY DEF Memory
<1>1. CASE Admission
  <2>1. UNCHANGED <<config, trace, counter, order, index>>
    BY <1>1 DEF Admission, policyVars
  <2> QED BY <1>0, <1>1, <2>1, AdmissionLoads, HistoryStays, OtherMemory
<1>2. CASE Routing
  <2>1. Loads' /\ History' BY <1>0, <1>2, RoutingLoads, RoutingHistory
  <2>2. Bucket' /\ Amounts'
    <3>1. ~Admission
      <4>1. Routing => arrived' = arrived BY DEF Routing
      <4>2. Admission => arrived' = arrived + 1 BY DEF Admission
      <4>3. arrived \in Int BY Given DEF Readable, Shapes
      <4> QED BY <1>2, <4>1, <4>2, <4>3
    <3> QED BY <3>1, OtherBucket, NextAmounts DEF Memory
  <2>3. Uses("no-hit-lru")' <=> Uses("no-hit-lru")
    <3>1. config' = config BY <1>2 DEF Routing
    <3> QED BY <3>1 DEF Uses
  <2>4. Uses("no-hit-lru") => ColdOrder'
    BY <1>2, RoutingColdOrder DEF Memory, History
  <2>5. Remembered' BY <1>2, RoutingRemembered DEF Memory, History
  <2> QED BY <2>1, <2>2, <2>3, <2>4, <2>5 DEF Memory
<1>3. CASE AddInstance \/ InstanceLoaded \/ Tick \/ (\E i \in All : Drain(i)) \/ UNCHANGED vars
  <2>1. UNCHANGED <<config, trace, counter, order, index>>
    BY <1>3 DEF AddInstance, InstanceLoaded, Tick, Drain, policyVars, vars
  <2> QED BY <1>0, <1>3, <2>1, OtherLoads, HistoryStays, OtherMemory
<1>4. ASSUME NEW i \in All, Enqueue(i) \/ Schedule(i) \/ Complete(i)
      PROVE  Memory'
  <2>1. UNCHANGED <<config, trace, counter, order, index>>
    BY <1>4 DEF Enqueue, Schedule, Complete, policyVars
  <2> QED BY <1>0, <1>4, <2>1, EnqueueLoads, ScheduleLoads, CompleteLoads, HistoryStays, OtherMemory
<1> QED BY <1>1, <1>2, <1>3, <1>4 DEF Next

(* What the router remembers is a function of what it has seen: the pointers *)
(* of every prefix index hold exactly the blocks last routed to its instance *)
(* (touch, pushHead, removeNode and evictOldest of                           *)
(* sim/prefix_cache_index.go), the no-hit-lru order is that of the cold      *)
(* decisions, and the token bucket never let through more than was put in.   *)
THEOREM RouterMemoryExact == Spec => []RouterExact
<1>1. Init => Memory
  BY InitLoads, InitHistory, InitBucket, InitAmounts, InitColdOrder, InitRemembered DEF Memory
<1>2. Readable /\ Memory /\ [Next]_vars => Memory' BY NextMemory
<1>3. Readable /\ Memory => RouterExact
  <2> SUFFICES ASSUME Readable, Memory PROVE RouterExact OBVIOUS
  <2>1. TypeOK BY RangesHold DEF Memory
  <2>2. IndexIsRecency BY RecencyExact DEF Memory
  <2>3. ColdOrderExact BY ColdOrderHolds DEF Memory
  <2>4. BucketBound BY DEF Memory, Bucket
  <2> QED BY <2>1, <2>2, <2>3, <2>4 DEF RouterExact
<1> QED BY <1>1, <1>2, <1>3, ProviderInvariant, PTL DEF Spec
=============================================================================
