---------------------------- MODULE FleetProofs ------------------------------
(***************************************************************************)
(* What module Fleet keeps for every fleet: any pools, any number of       *)
(* instances, requests, ticks and operator calls.                          *)
(*                                                                         *)
(* The inductive invariant FleetInv adds to FleetExact the shape of every  *)
(* variable, that an InstanceLoadedEvent is pending for exactly the        *)
(* instances that load, and that autoscaled instances are built in the     *)
(* order of their identifiers.                                             *)
(***************************************************************************)
EXTENDS Fleet, FiniteSetTheorems, SequenceTheorems, NaturalsInduction, TLAPS

\* The GPUs allocated to instance i.
Own(a, i) == {g \in GPUs : a[g] = i}

\* PlaceInstance's shape, for one set of GPUs.
Spans(G) ==
    LET N == distinctNodesForGPUs(G)
    IN  Cardinality(N) > 1 => /\ Cardinality({n[1] : n \in N}) = 1
                              /\ G = UNION {GPUsOf(n) : n \in N}
Fits(G) == IsFiniteSet(G) /\ Cardinality(G) = TP /\ Spans(G)

\* No element twice, as the pending list is kept.
Distinct(s) == \A j, k \in 1..Len(s) : s[j] = s[k] => j = k
RangeOf(s) == {s[k] : k \in 1..Len(s)}

Stages == {"client", "admitting", "arriving", "arrived", "queued",
           "running", "done", "rejected", "abandoned"}
NodeStates == {"Absent", "Provisioning", "Ready", "Draining", "Terminated"}
InstStates == {"Scheduling", "Loading", "WarmingUp", "Active", "Draining", "Terminated"}
Allocations == [GPUs -> Insts \cup {NoInst}]
Lives == [Insts -> InstStates]

\* Every variable has its shape.
Shapes ==
    /\ nstate \in [Nodes -> NodeStates]
    /\ cb \in SUBSET Nodes /\ drainedEv \in SUBSET Nodes
    /\ alloc \in Allocations
    /\ pending \in Seq(Insts)
    /\ ist \in Lives
    /\ held \in [Insts -> SUBSET GPUs]
    /\ warm \in [Insts -> 0..WarmUp]
    /\ loadEv \in SUBSET Insts
    /\ inFlight \in [Insts -> Nat]
    /\ where \in [Requests -> [at : Stages, on : Insts \cup {NoInst}]]
    /\ tick \in NoTick..MaxTicks
    /\ upSince \in NoTick..MaxTicks /\ downSince \in NoTick..MaxTicks
    /\ \A x \in acts : x.at \in Nat /\ x.delta \in Int
    /\ ops \in 0..MaxOps

\* A GPU is allocated to an instance exactly while it lives; a is the
\* allocation, st the life-cycle states, h what every instance was given.
Matching(a, st, h) ==
    \A i \in Insts : /\ st[i] \notin {"Scheduling", "Terminated"} => Own(a, i) = h[i]
                     /\ st[i] \in {"Scheduling", "Terminated"} => Own(a, i) = {}

\* What a built instance was given.
Fitting(st, h) == \A i \in Insts : st[i] # "Scheduling" => Fits(h[i])

\* Pending placements: start-up instances that are not built, each once.
Waiting(q, st) ==
    /\ Distinct(q)
    /\ RangeOf(q) = {i \in Insts : Startup(i) /\ st[i] = "Scheduling"}

\* The load events pending are those of the instances that load.
Loads(ev, st) == ev = {i \in Insts : st[i] = "Loading"}

\* Autoscaled instances are built in the order of their identifiers.
NewInOrder(st) ==
    \A i, j \in Insts : /\ ~Startup(i) /\ i < j
                        /\ st[j] # "Scheduling"
                        => st[i] # "Scheduling"

\* A draining node waits for its callback or for its event; ns are the states
\* of the nodes, c those with a callback, d those with an event.
Armed(ns, c, d, a) ==
    \A n \in Nodes :
      /\ ns[n] = "Draining" /\ allocatedCount(a, n) # 0 => n \in c /\ n \notin d
      /\ ns[n] = "Draining" /\ allocatedCount(a, n) = 0 => n \notin c /\ n \in d
      /\ ns[n] # "Draining" => n \notin c /\ n \notin d

\* The in-flight counts f against the requests at w; cl are the instances
\* that no immediate drain was applied to.
OnBoard(w, i) ==
    {r \in Requests : w[r].on = i /\ w[r].at \in {"arriving", "arrived", "queued", "running"}}
Counted(f, w, cl) ==
    \A i \in Insts : /\ f[i] <= Cardinality(OnBoard(w, i))
                     /\ i \in cl => f[i] = Cardinality(OnBoard(w, i))

FleetInv ==
    /\ Shapes
    /\ Matching(alloc, ist, held)
    /\ Fitting(ist, held)
    /\ Waiting(pending, ist)
    /\ Loads(loadEv, ist)
    /\ NewInOrder(ist)
    /\ Armed(nstate, cb, drainedEv, alloc)
    /\ Counted(inFlight, where, clean)

\* A decision keeps out the next one of its direction, and of the other, until
\* its actuation is due.
Spaced ==
    /\ \A a, b \in acts : a = b
    /\ \A a \in acts :
         /\ tick # NoTick => tick > a.at - UpWindow /\ tick > a.at - DownWindow
         /\ upSince # NoTick => upSince > a.at - UpWindow
         /\ downSince # NoTick => downSince > a.at - DownWindow

------------------------------
(* Induction on naturals. *)

(* The naturals under < in the form the theorem on minimal elements wants. *)
LEMMA NatOrder ==
  \E R : /\ IsWellFoundedOn(R, Nat)
         /\ \A x, y \in Nat : x < y => <<x, y>> \in R
<1> DEFINE R == {ss \in Nat \X Nat : ss[1] < ss[2]}
<1>1. IsWellFoundedOn(OpToRel(<, Nat), Nat) BY NatLessThanWellFounded
<1>2. OpToRel(<, Nat) = R BY DEF OpToRel
<1>3. \A x, y \in Nat : x < y => <<x, y>> \in R OBVIOUS
<1> QED BY <1>1, <1>2, <1>3

(* A nonempty set of naturals has a least element. *)
LEMMA LeastNat ==
  ASSUME NEW S, S \subseteq Nat, S # {}
  PROVE  \E x \in S : \A y \in S : x <= y
<1>1. PICK R : /\ IsWellFoundedOn(R, Nat)
               /\ \A x, y \in Nat : x < y => <<x, y>> \in R
  BY NatOrder
<1>2. IsWellFoundedOn(R, Nat) BY <1>1
<1>3. PICK x \in S : \A y \in S : ~(<<y, x>> \in R) BY <1>2, WFMin, Zenon
<1>4. \A y \in S : x \in Nat /\ y \in Nat /\ ~(y < x) BY <1>1, <1>3
<1> QED BY <1>4

(* Induction along a recursion of n steps. *)
LEMMA StepsInduction ==
  ASSUME NEW n \in Nat, NEW T, 0 \in T,
         \A k \in 1..n : k - 1 \in T => k \in T
  PROVE  \A k \in 0..n : k \in T
<1> DEFINE Bad == {k \in 0..n : k \notin T}
<1>1. SUFFICES ASSUME Bad # {} PROVE FALSE OBVIOUS
<1>2. Bad \subseteq Nat OBVIOUS
<1>3. PICK x \in Bad : \A y \in Bad : x <= y
  <2> HIDE DEF Bad
  <2> QED BY <1>1, <1>2, LeastNat
<1>4. x \in 1..n /\ x - 1 \in 0..n /\ x - 1 \notin Bad BY <1>3
<1> QED BY <1>3, <1>4

\* Step k of a recursion takes a state of T[k - 1] to one of T[k].
StepsStay(n, U, T, F, b) ==
  /\ \A k \in 0..n : T[k] \subseteq U
  /\ b \in T[0]
  /\ \A k \in 1..n : \A s \in T[k - 1] : F[k][s] \in T[k]
RunOf(n, T, F, b, f) ==
  /\ f[0] = b
  /\ \A k \in 1..n : f[k] = F[k][f[k - 1]]
  /\ \A k \in 0..n : f[k] \in T[k]

(* A recursion of n steps is defined when each step stays in the set of    *)
(* states the next one starts from.                                        *)
LEMMA StepsDefined ==
  ASSUME NEW n \in Nat, NEW U, NEW T, NEW F, NEW b, StepsStay(n, U, T, F, b)
  PROVE  \E f \in [0..n -> U] : RunOf(n, T, F, b, f)
<1> USE DEF StepsStay, RunOf
<1> DEFINE OK(m, f) == /\ f \in [0..m -> U]
                       /\ f[0] = b
                       /\ \A k \in 1..m : f[k] = F[k][f[k - 1]]
                       /\ \A k \in 0..m : f[k] \in T[k]
           Good == {m \in 0..n : \E f : OK(m, f)}
<1>1. 0 \in Good
  <2> DEFINE g == [k \in 0..0 |-> b]
  <2>1. g \in [0..0 -> U] /\ g[0] = b /\ \A k \in 0..0 : g[k] \in T[k] OBVIOUS
  <2> HIDE DEF g
  <2>2. OK(0, g) BY <2>1
  <2> QED BY <2>2
<1>2. ASSUME NEW m \in 1..n, m - 1 \in Good PROVE m \in Good
  <2>1. PICK f : OK(m - 1, f) BY <1>2
  <2> DEFINE g == [k \in 0..m |-> IF k = m THEN F[m][f[m - 1]] ELSE f[k]]
  <2>2. \A k \in 0..m - 1 : g[k] = f[k] /\ f[k] \in T[k] BY <2>1
  <2>3. g[m] = F[m][f[m - 1]] /\ g[m] \in T[m]
    <3>1. f[m - 1] \in T[m - 1] BY <2>1
    <3>2. F[m][f[m - 1]] \in T[m] BY <3>1
    <3> QED BY <3>2
  <2>4. \A k \in 0..m : g[k] \in T[k] BY SMTT(60), <2>2, <2>3
  <2>5. \A k \in 1..m : g[k] = F[k][g[k - 1]]
    <3> TAKE k \in 1..m
    <3>1. CASE k = m BY <2>2, <2>3, <3>1
    <3>2. CASE k # m
      <4>1. k \in 1..m - 1 /\ k \in 0..m - 1 /\ k - 1 \in 0..m - 1 BY <3>2
      <4>2. f[k] = F[k][f[k - 1]] BY <2>1, <4>1
      <4> QED BY <2>2, <4>1, <4>2
    <3> QED BY <3>1, <3>2
  <2>6. g \in [0..m -> U]
    <3>1. \A k \in 0..m : g[k] \in U BY <2>4
    <3> QED BY <3>1
  <2>7. g[0] = b BY <2>1, <2>2
  <2> HIDE DEF g
  <2>8. OK(m, g) BY <2>4, <2>5, <2>6, <2>7
  <2> QED BY <2>8
<1>3. n \in Good
  <2> HIDE DEF Good
  <2> QED BY <1>1, <1>2, StepsInduction
<1> QED BY <1>3

------------------------------
(* Nodes and GPUs. *)

\* The GPUs a node of pool p has.
Size(p) == Pools[p].gpn

(* What a node is. *)
LEMMA NodeShape ==
  /\ \A n \in Nodes : /\ n = <<n[1], n[2]>>
                      /\ n[1] \in DOMAIN Pools /\ n[2] \in 1..MaxNodes
                      /\ n[1] \in Nat /\ Size(n[1]) \in Nat \ {0}
  /\ \A p \in DOMAIN Pools, k \in 1..MaxNodes : <<p, k>> \in Nodes
  /\ \A p \in DOMAIN Pools : p \in Nat /\ Size(p) \in Nat \ {0} /\ Pools[p].cost \in Nat
<1> DEFINE R == [gpn : Nat \ {0}, cost : Nat, initial : 0..MaxNodes]
<1>1. \A p \in DOMAIN Pools : p \in Nat /\ Size(p) \in Nat \ {0} /\ Pools[p].cost \in Nat
  <2>1. Pools \in Seq(R) BY FleetAssumption
  <2>2. \A p \in DOMAIN Pools : p \in Nat /\ Pools[p] \in R
    <3> HIDE DEF R
    <3> QED BY <2>1
  <2> QED BY <2>2 DEF Size
<1> QED BY <1>1 DEF Nodes

(* What a GPU is. *)
LEMMA GPUShape ==
  /\ \A g \in GPUs : /\ g = <<g[1], g[2], g[3]>>
                     /\ NodeOf(g) \in Nodes /\ NodeOf(g)[1] = g[1]
                     /\ g[3] \in 1..Size(g[1])
                     /\ g \in GPUsOf(NodeOf(g))
  /\ \A n \in Nodes : \A g \in GPUsOf(n) : g \in GPUs /\ NodeOf(g) = n
  /\ \A n \in Nodes : \A k \in 1..Size(n[1]) : <<n[1], n[2], k>> \in GPUsOf(n)
<1>1. ASSUME NEW n \in Nodes, NEW g \in GPUsOf(n)
      PROVE  /\ g = <<g[1], g[2], g[3]>> /\ NodeOf(g) = n
             /\ NodeOf(g)[1] = g[1] /\ g[3] \in 1..Size(g[1])
  <2>1. PICK k \in 1..Size(n[1]) : g = <<n[1], n[2], k>> BY DEF GPUsOf, Size
  <2> QED BY <2>1, NodeShape DEF NodeOf
<1>2. \A g \in GPUs : \E n \in Nodes : g \in GPUsOf(n) BY DEF GPUs
<1>3. \A n \in Nodes : \A g \in GPUsOf(n) : g \in GPUs BY DEF GPUs
<1>4. \A n \in Nodes : \A k \in 1..Size(n[1]) : <<n[1], n[2], k>> \in GPUsOf(n)
  BY DEF GPUsOf, Size
<1> QED BY <1>1, <1>2, <1>3, <1>4

(* A node's GPUs are as many as its pool says. *)
LEMMA GPUsOfCount ==
  ASSUME NEW n \in Nodes
  PROVE  /\ IsFiniteSet(GPUsOf(n))
         /\ Cardinality(GPUsOf(n)) = Size(n[1])
<1> DEFINE s == Size(n[1])
           f == [k \in 1..s |-> <<n[1], n[2], k>>]
<1>1. s \in Nat BY NodeShape
<1>2. f \in Bijection(1..s, GPUsOf(n))
  <2>1. \A k \in 1..s : f[k] \in GPUsOf(n) BY GPUShape
  <2>2. \A g \in GPUsOf(n) : g[3] \in 1..s /\ g = f[g[3]] BY DEF GPUsOf, Size
  <2> QED BY <2>1, <2>2 DEF Bijection, Injection, IsInjective, Surjection
<1> HIDE DEF f
<1>3. ExistsBijection(1..s, GPUsOf(n)) BY <1>2 DEF ExistsBijection
<1> QED BY <1>1, <1>3, FS_CountingElements, FS_NatBijection

(* There are finitely many nodes, instances and GPUs. *)
LEMMA FleetFinite ==
  /\ IsFiniteSet(Nodes) /\ IsFiniteSet(Insts) /\ IsFiniteSet(GPUs)
  /\ IsFiniteSet(DOMAIN Pools)
<1>1. IsFiniteSet(DOMAIN Pools) /\ IsFiniteSet(1..MaxNodes) /\ IsFiniteSet(Insts)
  <2>1. DOMAIN Pools = 1..Len(Pools) /\ Len(Pools) \in Nat /\ MaxNodes \in Nat
    BY FleetAssumption
  <2>2. NumInstances + MaxAuto \in Nat BY FleetAssumption
  <2> QED BY <2>1, <2>2, FS_Interval DEF Insts
<1>2. IsFiniteSet(Nodes)
  <2> DEFINE P == DOMAIN Pools
             K == 1..MaxNodes
             f == [pk \in P \X K |-> <<pk[1], pk[2]>>]
  <2>1. IsFiniteSet(P \X K)
    <3> HIDE DEF P, K
    <3> QED BY <1>1, FS_Product DEF P, K
  <2>2. f \in Surjection(P \X K, Nodes)
    <3>1. \A pk \in P \X K : f[pk] \in Nodes BY DEF Nodes
    <3>2. \A n \in Nodes : \E pk \in P \X K : f[pk] = n
      <4> TAKE n \in Nodes
      <4>1. n \in P \X K /\ f[n] = n BY NodeShape
      <4> QED BY <4>1
    <3> QED BY <3>1, <3>2 DEF Surjection
  <2> HIDE DEF P, K, f
  <2> QED BY <2>1, <2>2, FS_Surjection
<1>3. IsFiniteSet(GPUs)
  <2> DEFINE U == {GPUsOf(n) : n \in Nodes}
             f == [n \in Nodes |-> GPUsOf(n)]
  <2>1. f \in Surjection(Nodes, U) BY DEF Surjection
  <2>2. IsFiniteSet(U)
    <3> HIDE DEF U, f
    <3> QED BY <1>2, <2>1, FS_Surjection
  <2>3. \A G \in U : IsFiniteSet(G) BY GPUsOfCount
  <2>4. GPUs = UNION U BY DEF GPUs
  <2> HIDE DEF U
  <2> QED BY <2>2, <2>3, <2>4, FS_UNION
<1> QED BY <1>1, <1>2, <1>3

(* As many instances at most as a fleet has GPUs of their own. *)
LEMMA SubsetFinite ==
  ASSUME NEW S, IsFiniteSet(S), NEW T, T \subseteq S
  PROVE  IsFiniteSet(T) /\ Cardinality(T) \in Nat /\ Cardinality(T) <= Cardinality(S)
<1>1. IsFiniteSet(T) /\ Cardinality(T) <= Cardinality(S) BY FS_Subset
<1> QED BY <1>1, FS_CardinalityType

------------------------------
(* The order in which nodes and GPUs are tried. *)

\* Earlier orders the elements of S one behind the other.
Ordered(S) ==
  /\ \A x, y \in S : x = y \/ Earlier(x, y) \/ Earlier(y, x)
  /\ \A x \in S : ~Earlier(x, x)
  /\ \A x, y, z \in S : Earlier(x, y) /\ Earlier(y, z) => Earlier(x, z)

(* On nodes it is the order by pool, then by number. *)
LEMMA NodesOrdered == Ordered(Nodes)
<1> DEFINE Lt(x, y) == x[1] < y[1] \/ (x[1] = y[1] /\ x[2] < y[2])
<1>1. ASSUME NEW x \in Nodes, NEW y \in Nodes
      PROVE  Earlier(x, y) <=> Lt(x, y)
  <2>1. x = <<x[1], x[2]>> /\ DOMAIN x = 1..2 BY NodeShape
  <2>2. Earlier(x, y) <=> \E d \in 1..2 : x[d] < y[d] /\ \A e \in 1..(d - 1) : x[e] = y[e]
    BY <2>1 DEF Earlier
  <2>3. 1..(1 - 1) = {} /\ 1..(2 - 1) = {1} /\ 1..2 = {1, 2} OBVIOUS
  <2> QED BY <2>2, <2>3
<1>2. \A x \in Nodes : x = <<x[1], x[2]>> /\ x[1] \in Nat /\ x[2] \in Nat
  BY NodeShape
<1>3. \A x, y \in Nodes : x = y \/ Lt(x, y) \/ Lt(y, x) BY <1>2
<1>4. \A x \in Nodes : ~Lt(x, x) BY <1>2
<1>5. \A x, y, z \in Nodes : Lt(x, y) /\ Lt(y, z) => Lt(x, z) BY <1>2
<1> HIDE DEF Lt
<1> QED BY <1>1, <1>3, <1>4, <1>5 DEF Ordered

(* On the GPUs of a node it is the order by index. *)
LEMMA GPUsOrdered ==
  ASSUME NEW n \in Nodes
  PROVE  Ordered(GPUsOf(n))
<1>2. \A x \in GPUsOf(n) : x = <<n[1], n[2], x[3]>> /\ x[3] \in Nat
  BY NodeShape DEF GPUsOf, Size
<1>3. n[1] \in Nat /\ n[2] \in Nat BY NodeShape
<1>1. ASSUME NEW x \in GPUsOf(n), NEW y \in GPUsOf(n)
      PROVE  Earlier(x, y) <=> x[3] < y[3]
  <2>1. x = <<n[1], n[2], x[3]>> /\ y = <<n[1], n[2], y[3]>> BY <1>2
  <2>2. DOMAIN x = 1..3 /\ x[1] = y[1] /\ x[2] = y[2] /\ ~(x[1] < y[1]) /\ ~(x[2] < y[2])
    BY <2>1, <1>3
  <2>3. Earlier(x, y) <=> \E d \in 1..3 : x[d] < y[d] /\ \A e \in 1..(d - 1) : x[e] = y[e]
    BY <2>2 DEF Earlier
  <2>4. 1..(3 - 1) = {1, 2} /\ 1..3 = {1, 2, 3} OBVIOUS
  <2> QED BY <2>2, <2>3, <2>4
<1>4. \A x, y \in GPUsOf(n) : x = y \/ x[3] < y[3] \/ y[3] < x[3] BY <1>2
<1> QED BY <1>1, <1>2, <1>4 DEF Ordered

(* A part of an ordered set is ordered. *)
LEMMA OrderedPart ==
  ASSUME NEW S, Ordered(S), NEW T, T \subseteq S
  PROVE  Ordered(T)
<1> QED BY Zenon DEF Ordered

(* Ranks in a finite ordered set run from 1 to its size. *)
LEMMA RankRange ==
  ASSUME NEW S, IsFiniteSet(S), Ordered(S), NEW x \in S
  PROVE  Rank(x, S) \in 1..Cardinality(S)
<1> DEFINE B == {y \in S : Earlier(y, x)}
<1>1. B \subseteq S \ {x} BY DEF Ordered
<1>2. IsFiniteSet(S \ {x}) /\ Cardinality(S \ {x}) = Cardinality(S) - 1
  BY FS_RemoveElement
<1>3. Cardinality(S) \in Nat BY FS_CardinalityType
<1> HIDE DEF B
<1>4. Cardinality(B) \in Nat /\ Cardinality(B) <= Cardinality(S \ {x})
  BY <1>1, <1>2, SubsetFinite
<1> QED BY <1>2, <1>3, <1>4 DEF Rank, B

(* An earlier element has a lower rank. *)
LEMMA RankLower ==
  ASSUME NEW S, IsFiniteSet(S), Ordered(S), NEW x \in S, NEW y \in S, Earlier(x, y)
  PROVE  Rank(x, S) < Rank(y, S)
<1> DEFINE B(z) == {w \in S : Earlier(w, z)}
<1>1. B(x) \subseteq B(y) /\ x \in B(y) /\ x \notin B(x) BY DEF Ordered
<1>2. \A z \in S : B(z) \subseteq S OBVIOUS
<1>3. Rank(x, S) = Cardinality(B(x)) + 1 /\ Rank(y, S) = Cardinality(B(y)) + 1
  BY DEF Rank
<1> HIDE DEF B
<1>4. IsFiniteSet(B(y)) /\ Cardinality(B(y)) \in Nat BY <1>2, SubsetFinite
<1>5. IsFiniteSet(B(y) \ {x}) /\ Cardinality(B(y) \ {x}) = Cardinality(B(y)) - 1
  BY <1>1, <1>4, FS_RemoveElement
<1>6. B(x) \subseteq B(y) \ {x} BY <1>1
<1>7. Cardinality(B(x)) \in Nat /\ Cardinality(B(x)) <= Cardinality(B(y) \ {x})
  BY <1>5, <1>6, SubsetFinite
<1> QED BY <1>3, <1>4, <1>5, <1>7

(* Every rank is taken once. *)
LEMMA RankBijection ==
  ASSUME NEW S, IsFiniteSet(S), Ordered(S)
  PROVE  [x \in S |-> Rank(x, S)] \in Bijection(S, 1..Cardinality(S))
<1> DEFINE f == [x \in S |-> Rank(x, S)]
           n == Cardinality(S)
<1>1. n \in Nat BY FS_CardinalityType
<1>2. \A x \in S : f[x] \in 1..n BY RankRange
<1>3. ASSUME NEW x \in S, NEW y \in S, f[x] = f[y] PROVE x = y
  <2>1. f[x] \in Int /\ f[y] \in Int /\ f[x] = Rank(x, S) /\ f[y] = Rank(y, S)
    BY <1>1, <1>2
  <2>2. ~Earlier(x, y) BY <1>3, <2>1, RankLower
  <2>3. ~Earlier(y, x) BY <1>3, <2>1, RankLower
  <2> QED BY <2>2, <2>3 DEF Ordered
<1>4. f \in [S -> 1..n] BY <1>2
<1> HIDE DEF f
<1>5. f \in Injection(S, 1..n) BY <1>3, <1>4 DEF Injection, IsInjective
<1>6. IsFiniteSet(1..n) /\ Cardinality(1..n) = n BY <1>1, FS_Interval
<1>7. f \in Surjection(S, 1..n) BY <1>5, <1>6, FS_Injection
<1> QED BY <1>5, <1>7 DEF Bijection, f

(* The first k elements are k elements. *)
LEMMA FirstKCount ==
  ASSUME NEW S, IsFiniteSet(S), Ordered(S), NEW k \in Nat, k <= Cardinality(S)
  PROVE  /\ FirstK(S, k) \subseteq S
         /\ IsFiniteSet(FirstK(S, k))
         /\ Cardinality(FirstK(S, k)) = k
<1> DEFINE f == [x \in S |-> Rank(x, S)]
           n == Cardinality(S)
           F == FirstK(S, k)
           g == [x \in F |-> Rank(x, S)]
<1>1. n \in Nat BY FS_CardinalityType
<1>2. /\ \A x \in S : f[x] \in 1..n
      /\ \A x, y \in S : f[x] = f[y] => x = y
      /\ \A t \in 1..n : \E x \in S : f[x] = t
  <2>1. f \in Bijection(S, 1..n) BY RankBijection
  <2> HIDE DEF f, n
  <2> QED BY <2>1 DEF Bijection, Injection, IsInjective, Surjection
<1>3. F \subseteq S /\ \A x \in S : x \in F <=> f[x] <= k BY DEF FirstK
<1>4. \A x \in F : g[x] = f[x] BY <1>3
<1>5. g \in [F -> 1..k]
  <2>1. \A x \in F : Rank(x, S) \in 1..k BY <1>1, <1>2, <1>3
  <2> QED BY <2>1
<1> HIDE DEF f, g, F
<1>6. \A x, y \in F : g[x] = g[y] => x = y BY <1>2, <1>3, <1>4
<1>7. \A t \in 1..k : \E x \in F : g[x] = t
  <2> TAKE t \in 1..k
  <2>1. t \in 1..n BY <1>1
  <2>2. PICK x \in S : f[x] = t BY <1>2, <2>1
  <2> QED BY <1>3, <1>4, <2>2
<1>8. g \in Bijection(F, 1..k)
  BY <1>5, <1>6, <1>7 DEF Bijection, Injection, IsInjective, Surjection
<1>9. IsFiniteSet(F) BY <1>3, SubsetFinite
<1>10. Cardinality(1..k) = Cardinality(F)
  BY <1>8, <1>9, FS_Bijection DEF ExistsBijection
<1>11. Cardinality(1..k) = k BY FS_Interval
<1> QED BY <1>3, <1>9, <1>10, <1>11 DEF F

(* A finite ordered set has a least element. *)
LEMMA LeastExists ==
  ASSUME NEW S, IsFiniteSet(S), Ordered(S), S # {}
  PROVE  Least(S) \in S
<1> DEFINE f == [x \in S |-> Rank(x, S)]
           n == Cardinality(S)
<1>1. n \in Nat /\ n # 0 BY FS_CardinalityType, FS_EmptySet
<1>2. \A t \in 1..n : \E x \in S : f[x] = t
  <2>1. f \in Bijection(S, 1..n) BY RankBijection
  <2> HIDE DEF f, n
  <2> QED BY <2>1 DEF Bijection, Surjection
<1>3. PICK x \in S : Rank(x, S) = 1 BY <1>1, <1>2
<1>4. ASSUME NEW y \in S, Earlier(y, x) PROVE FALSE
  <2>1. Rank(y, S) < Rank(x, S) /\ Rank(y, S) \in 1..n
    BY <1>4, RankLower, RankRange
  <2> QED BY <1>1, <1>3, <2>1
<1>5. \A y \in S \ {x} : Earlier(x, y) BY <1>4 DEF Ordered
<1> QED BY <1>5 DEF Least

------------------------------
(* PlaceInstance. *)

(* Whole division. *)
LEMMA DivisionExact ==
  ASSUME NEW x \in Nat, NEW y \in Nat \ {0}, x % y = 0
  PROVE  x \div y \in Nat /\ (x \div y) * y = x
<1> QED OBVIOUS

(* GPUs of one node span nothing. *)
LEMMA OneNodeFits ==
  ASSUME NEW n \in Nodes, NEW G, G \subseteq GPUsOf(n), Cardinality(G) = TP
  PROVE  Fits(G)
<1>1. IsFiniteSet(G) BY GPUsOfCount, SubsetFinite
<1> DEFINE N == distinctNodesForGPUs(G)
<1>2. N \subseteq {n} BY GPUShape DEF distinctNodesForGPUs
<1>3. IsFiniteSet({n}) /\ Cardinality({n}) = 1 BY FS_Singleton
<1> HIDE DEF N
<1>4. Cardinality(N) \in Nat /\ Cardinality(N) <= 1 BY <1>2, <1>3, SubsetFinite
<1>5. ~(Cardinality(N) > 1) BY <1>4
<1> QED BY <1>1, <1>5 DEF Fits, Spans, N

(* The GPUs of whole nodes of one pool. *)
LEMMA WholeNodesCount ==
  ASSUME NEW p \in DOMAIN Pools, NEW N \in SUBSET Nodes, IsFiniteSet(N),
         \A n \in N : n[1] = p
  PROVE  /\ IsFiniteSet(UNION {GPUsOf(n) : n \in N})
         /\ Cardinality(UNION {GPUsOf(n) : n \in N}) = Cardinality(N) * Size(p)
<1> DEFINE G == UNION {GPUsOf(n) : n \in N}
           s == Size(p)
           K == 1..s
           h == [nk \in N \X K |-> <<nk[1][1], nk[1][2], nk[2]>>]
<1>1. s \in Nat BY NodeShape
<1>2. \A nk \in N \X K : h[nk] \in G
  <2> TAKE nk \in N \X K
  <2>1. nk[1] \in N /\ nk[2] \in 1..Size(nk[1][1]) OBVIOUS
  <2>2. h[nk] \in GPUsOf(nk[1]) BY <2>1, GPUShape
  <2> QED BY <2>1, <2>2
<1>3. \A g \in G : \E n \in N, k \in K : g = h[<<n, k>>]
  <2> TAKE g \in G
  <2>1. PICK n \in N : g \in GPUsOf(n) OBVIOUS
  <2>2. PICK k \in K : g = <<n[1], n[2], k>> BY <2>1 DEF GPUsOf, Size
  <2> QED BY <2>2
<1>4. ASSUME NEW x \in N \X K, NEW y \in N \X K, h[x] = h[y] PROVE x = y
  <2>1. x[1] = <<x[1][1], x[1][2]>> /\ y[1] = <<y[1][1], y[1][2]>> BY NodeShape
  <2>2. x[1][1] = y[1][1] /\ x[1][2] = y[1][2] /\ x[2] = y[2] BY <1>4
  <2>3. x = <<x[1], x[2]>> /\ y = <<y[1], y[2]>> OBVIOUS
  <2>4. x[1] = y[1] BY <2>1, <2>2
  <2> QED BY <2>2, <2>3, <2>4
<1>5. h \in [N \X K -> G] BY <1>2
<1>6. \A g \in G : \E x \in N \X K : h[x] = g BY <1>3, ZenonT(60)
<1> HIDE DEF h, G
<1>7. h \in Bijection(N \X K, G)
  BY <1>4, <1>5, <1>6 DEF Bijection, Injection, IsInjective, Surjection
<1>8. IsFiniteSet(K) /\ Cardinality(K) = s BY <1>1, FS_Interval
<1> HIDE DEF K
<1>9. IsFiniteSet(N \X K) /\ Cardinality(N \X K) = Cardinality(N) * s
  BY <1>8, FS_Product
<1>10. IsFiniteSet(G) /\ Cardinality(G) = Cardinality(N \X K)
  BY <1>7, <1>9, FS_Bijection DEF ExistsBijection
<1> QED BY <1>9, <1>10 DEF G

(* Whole nodes of one pool make a span. *)
LEMMA WholeNodesFit ==
  ASSUME NEW p \in DOMAIN Pools, NEW N \in SUBSET Nodes, IsFiniteSet(N),
         \A n \in N : n[1] = p, N # {}, Cardinality(N) * Size(p) = TP
  PROVE  Fits(UNION {GPUsOf(n) : n \in N})
<1> DEFINE G == UNION {GPUsOf(n) : n \in N}
<1>1. IsFiniteSet(G) /\ Cardinality(G) = TP BY WholeNodesCount
<1>2. distinctNodesForGPUs(G) = N
  <2>1. \A g \in G : NodeOf(g) \in N BY GPUShape
  <2>2. \A n \in N : \E g \in G : NodeOf(g) = n
    <3> TAKE n \in N
    <3>1. 1 \in 1..Size(n[1]) BY NodeShape
    <3>2. <<n[1], n[2], 1>> \in GPUsOf(n) BY <3>1, GPUShape
    <3> QED BY <3>2, GPUShape
  <2> HIDE DEF G
  <2> QED BY <2>1, <2>2 DEF distinctNodesForGPUs
<1>3. {n[1] : n \in N} = {p} OBVIOUS
<1>4. Cardinality({p}) = 1 BY FS_Singleton
<1>5. Spans(G)
  <2> HIDE DEF G
  <2> QED BY <1>2, <1>3, <1>4 DEF Spans, G
<1> QED BY <1>1, <1>5 DEF Fits

(* The GPUs of a node that nobody holds. *)
LEMMA UnallocatedNode ==
  ASSUME NEW a, NEW n \in Nodes, allocatedCount(a, n) = 0
  PROVE  \A g \in GPUsOf(n) : a[g] = NoInst
<1> DEFINE A == {g \in GPUsOf(n) : a[g] # NoInst}
<1>1. A \subseteq GPUsOf(n) /\ Cardinality(A) = 0 BY DEF allocatedCount
<1>2. IsFiniteSet(A)
  <2> HIDE DEF A
  <2> QED BY <1>1, GPUsOfCount, SubsetFinite
<1>3. A = {}
  <2> HIDE DEF A
  <2> QED BY <1>1, <1>2, FS_EmptySet
<1> QED BY <1>3

(* What PlaceInstance gives fits and was free, on nodes that are ready. *)
LEMMA PlacementFits ==
  ASSUME NEW a, NEW ready \in SUBSET Nodes, PlaceInstance(a, ready) # {}
  PROVE  /\ Fits(PlaceInstance(a, ready))
         /\ \A g \in PlaceInstance(a, ready) :
              g \in GPUs /\ a[g] = NoInst /\ NodeOf(g) \in ready
<1> DEFINE roomy == {n \in ready : Cardinality(free(a, n)) >= TP}
           whole(p) == {n \in ready : n[1] = p /\ allocatedCount(a, n) = 0}
           gpn(p) == Pools[p].gpn
           spans == {p \in DOMAIN Pools : /\ TP > gpn(p) /\ TP % gpn(p) = 0
                                          /\ Cardinality(whole(p)) >= TP \div gpn(p)}
           p1 == CHOOSE p \in spans : \A q \in spans : p <= q
           G == PlaceInstance(a, ready)
<1>0. IsFiniteSet(ready) /\ TP \in Nat \ {0}
  BY FleetFinite, SubsetFinite, FleetAssumption
<1>1. CASE roomy # {}
  <2> DEFINE n == Least(roomy)
             F == free(a, n)
  <2>1. G = FirstK(F, TP) BY <1>1, ZenonT(60) DEF PlaceInstance
  <2>2. n \in roomy
    <3>1. roomy \subseteq ready /\ roomy \subseteq Nodes OBVIOUS
    <3> HIDE DEF roomy
    <3>2. IsFiniteSet(roomy) BY <1>0, <3>1, SubsetFinite
    <3>3. Ordered(roomy) BY <3>1, NodesOrdered, OrderedPart
    <3> QED BY <1>1, <3>2, <3>3, LeastExists
  <2>3. n \in ready /\ n \in Nodes /\ Cardinality(F) >= TP BY <2>2
  <2> HIDE DEF n
  <2>4. F \subseteq GPUsOf(n) /\ \A g \in F : a[g] = NoInst BY DEF free
  <2> HIDE DEF F
  <2>5. IsFiniteSet(F) /\ Cardinality(F) \in Nat
    BY <2>3, <2>4, GPUsOfCount, SubsetFinite
  <2>6. Ordered(F) BY <2>3, <2>4, GPUsOrdered, OrderedPart
  <2>7. FirstK(F, TP) \subseteq F /\ Cardinality(FirstK(F, TP)) = TP
    BY <1>0, <2>3, <2>5, <2>6, FirstKCount
  <2> HIDE DEF G
  <2>8. Fits(G) BY <2>1, <2>3, <2>4, <2>7, OneNodeFits
  <2>9. \A g \in G : g \in F BY <2>1, <2>7
  <2>10. \A g \in G : g \in GPUs /\ a[g] = NoInst /\ NodeOf(g) \in ready
    BY <2>3, <2>4, <2>9, GPUShape
  <2> QED BY <2>8, <2>10, SMTT(60) DEF G
<1>2. CASE roomy = {} /\ spans # {}
  <2> DEFINE W == whole(p1)
             k == TP \div gpn(p1)
             N == FirstK(W, k)
  <2>1. G = UNION {GPUsOf(n) : n \in N} BY <1>2, ZenonT(60) DEF PlaceInstance
  <2>2. p1 \in spans
    <3>1. spans \subseteq Nat BY NodeShape
    <3> HIDE DEF spans
    <3> QED BY <1>2, <3>1, LeastNat
  <2>3. /\ p1 \in DOMAIN Pools /\ TP > Size(p1) /\ TP % Size(p1) = 0
        /\ Cardinality(W) >= k /\ k = TP \div Size(p1)
    BY <2>2, ZenonT(60) DEF Size
  <2>4. W \subseteq ready /\ W \subseteq Nodes
        /\ \A n \in W : n[1] = p1 /\ allocatedCount(a, n) = 0
    OBVIOUS
  <2> HIDE DEF p1, W, k
  <2>5. Size(p1) \in Nat \ {0} BY <2>3, NodeShape
  <2>6. k \in Nat /\ k * Size(p1) = TP BY <1>0, <2>3, <2>5, DivisionExact
  <2>7. IsFiniteSet(W) /\ Ordered(W)
    BY <1>0, <2>4, SubsetFinite, NodesOrdered, OrderedPart
  <2>8. N \subseteq W /\ IsFiniteSet(N) /\ Cardinality(N) = k
    BY <2>3, <2>6, <2>7, FirstKCount
  <2> HIDE DEF N
  <2>9. N # {}
    <3>1. k # 0 BY <1>0, <2>5, <2>6
    <3> QED BY <2>8, <3>1, FS_EmptySet
  <2>10. N \in SUBSET Nodes /\ \A n \in N : n[1] = p1 BY <2>4, <2>8
  <2>11. Fits(UNION {GPUsOf(n) : n \in N})
    BY <2>3, <2>6, <2>8, <2>9, <2>10, WholeNodesFit
  <2> HIDE DEF G
  <2>12. ASSUME NEW g \in G
         PROVE  g \in GPUs /\ a[g] = NoInst /\ NodeOf(g) \in ready
    <3>1. PICK n \in N : g \in GPUsOf(n) BY <2>1
    <3>2. n \in Nodes /\ n \in ready /\ allocatedCount(a, n) = 0 BY <2>4, <2>8
    <3>3. a[g] = NoInst BY <3>1, <3>2, UnallocatedNode
    <3> QED BY <3>1, <3>2, <3>3, GPUShape
  <2> QED BY <2>1, <2>11, <2>12, SMTT(60) DEF G
<1>3. CASE ~(roomy # {}) /\ ~(roomy = {} /\ spans # {})
  <2>1. G = {} BY <1>3 DEF PlaceInstance
  <2> QED BY <2>1, SMTT(60)
<1> QED BY <1>1, <1>2, <1>3

------------------------------
(* Placing several instances, one after another. *)

\* Allocation a is a0 and what the instances S were given on ready nodes.
Grown(a0, a, ready, S) ==
    /\ a \in [GPUs -> Insts \cup {NoInst}]
    /\ \A g \in GPUs : \/ a[g] = a0[g]
                       \/ a0[g] = NoInst /\ a[g] \in S /\ NodeOf(g) \in ready
    /\ \A i \in S : Fits(Own(a, i))

(* NoInst is the name of no instance. *)
LEMMA InstsShape == NoInst \notin Insts /\ \A i \in Insts : i \in Nat /\ i >= 1
<1> QED BY FleetAssumption DEF NoInst, Insts

(* One more placement. *)
LEMMA PlaceOneMore ==
  ASSUME NEW a0, NEW a, NEW ready \in SUBSET Nodes, NEW S \in SUBSET Insts,
         Grown(a0, a, ready, S), NEW i \in Insts \ S, Own(a0, i) = {},
         PlaceInstance(a, ready) # {}
  PROVE  Grown(a0, Commit(a, PlaceInstance(a, ready), i), ready, S \cup {i})
<1> DEFINE G == PlaceInstance(a, ready)
           b == Commit(a, G, i)
<1>1. Fits(G) /\ \A g \in G : g \in GPUs /\ a[g] = NoInst /\ NodeOf(g) \in ready
  BY PlacementFits
<1> HIDE DEF G
<1>2. \A g \in GPUs : b[g] = IF g \in G THEN i ELSE a[g] BY DEF Commit
<1>3. /\ \A g \in GPUs : a[g] \in Insts \cup {NoInst}
      /\ \A g \in GPUs : \/ a[g] = a0[g]
                         \/ a0[g] = NoInst /\ a[g] \in S /\ NodeOf(g) \in ready
      /\ \A j \in S : Fits(Own(a, j))
  BY DEF Grown
<1>4. b \in [GPUs -> Insts \cup {NoInst}] BY <1>3 DEF Commit
<1> HIDE DEF b
<1>5. \A g \in GPUs : a[g] # i BY <1>3 DEF Own
<1>6. Own(b, i) = G BY <1>1, <1>2, <1>5 DEF Own
<1>7. \A j \in S : Own(b, j) = Own(a, j) BY <1>1, <1>2, InstsShape DEF Own
<1>8. \A g \in GPUs : \/ b[g] = a0[g]
                      \/ a0[g] = NoInst /\ b[g] \in S \cup {i} /\ NodeOf(g) \in ready
  <2> TAKE g \in GPUs
  <2>1. CASE g \in G
    <3>1. a[g] = NoInst /\ b[g] = i /\ NodeOf(g) \in ready BY <1>1, <1>2, <2>1
    <3>2. a0[g] = NoInst BY <1>3, <3>1, InstsShape
    <3> QED BY <3>1, <3>2
  <2>2. CASE g \notin G BY <1>2, <1>3, <2>2
  <2> QED BY <2>1, <2>2
<1>9. \A j \in S \cup {i} : Fits(Own(b, j)) BY <1>1, <1>3, <1>6, <1>7
<1> QED BY <1>4, <1>8, <1>9 DEF Grown, b, G

(* The swap that removes a placed instance from the pending list. *)
LEMMA SwapRemove ==
  ASSUME NEW S, NEW q \in Seq(S), Distinct(q), NEW i \in 1..Len(q),
         NEW d, d = SubSeq([q EXCEPT ![i] = q[Len(q)]], 1, Len(q) - 1)
  PROVE  /\ d \in Seq(S) /\ Len(d) = Len(q) - 1
         /\ Distinct(d)
         /\ RangeOf(d) = RangeOf(q) \ {q[i]}
<1> DEFINE n == Len(q)
           e == [q EXCEPT ![i] = q[n]]
<1>1. n \in Nat /\ n >= 1 /\ i \in 1..n /\ \A k \in 1..n : q[k] \in S
  BY ElementOfSeq
<1>2. e \in Seq(S) /\ Len(e) = n /\ \A k \in 1..n : e[k] = IF k = i THEN q[n] ELSE q[k]
  <2>1. q[n] \in S BY <1>1
  <2> QED BY <2>1
<1> HIDE DEF e
<1>3. d = SubSeq(e, 1, n - 1) BY DEF e
<1> HIDE DEF n
<1>4. d \in Seq(S) /\ Len(d) = n - 1 /\ \A k \in 1..n - 1 : d[k] = e[k]
  BY <1>1, <1>2, <1>3, SubSeqProperties
<1>5. \A j, k \in 1..n : q[j] = q[k] => j = k BY DEF Distinct, n
<1>6. \A k \in 1..n - 1 : d[k] = IF k = i THEN q[n] ELSE q[k]
  BY <1>1, <1>2, <1>4
<1>7. Distinct(d)
  <2>1. ASSUME NEW j \in 1..n - 1, NEW k \in 1..n - 1, d[j] = d[k] PROVE j = k
    <3>1. j \in 1..n /\ k \in 1..n /\ n \in 1..n /\ j # n /\ k # n BY <1>1
    <3>2. CASE j = i /\ k # i
      <4>1. q[n] = q[k] BY <1>6, <2>1, <3>2
      <4> QED BY <1>5, <3>1, <4>1
    <3>3. CASE j # i /\ k = i
      <4>1. q[j] = q[n] BY <1>6, <2>1, <3>3
      <4> QED BY <1>5, <3>1, <4>1
    <3>4. CASE j # i /\ k # i
      <4>1. q[j] = q[k] BY <1>6, <2>1, <3>4
      <4> QED BY <1>5, <3>1, <4>1
    <3> QED BY <3>2, <3>3, <3>4
  <2> QED BY <1>4, <2>1 DEF Distinct
<1>8. RangeOf(d) = {d[k] : k \in 1..n - 1} /\ RangeOf(q) = {q[k] : k \in 1..n}
  BY <1>4 DEF RangeOf, n
<1>9. ASSUME NEW x \in RangeOf(d) PROVE x \in RangeOf(q) /\ x # q[i]
  <2>1. PICK k \in 1..n - 1 : x = d[k] BY <1>8
  <2>2. x = IF k = i THEN q[n] ELSE q[k] BY <1>6, <2>1
  <2>3. k \in 1..n /\ n \in 1..n /\ k # n BY <1>1
  <2> QED BY <1>1, <1>5, <1>8, <2>2, <2>3
<1>10. ASSUME NEW x \in RangeOf(q), x # q[i] PROVE x \in RangeOf(d)
  <2>1. PICK k \in 1..n : x = q[k] BY <1>8
  <2>2. k # i BY <1>10, <2>1
  <2>3. CASE k = n
    <3>1. i \in 1..n - 1 BY <1>1, <2>2, <2>3
    <3>2. d[i] = x BY <1>6, <2>1, <2>3, <3>1
    <3> QED BY <1>8, <3>1, <3>2
  <2>4. CASE k # n
    <3>1. k \in 1..n - 1 BY <1>1, <2>4
    <3>2. d[k] = x BY <1>6, <2>1, <2>2, <3>1
    <3> QED BY <1>8, <3>1, <3>2
  <2> QED BY <2>3, <2>4
<1> QED BY <1>4, <1>7, <1>9, <1>10 DEF n

\* A state of the pass over the pending list q0 after k attempts.
PassState ==
    [a : [GPUs -> Insts \cup {NoInst}], q : Seq(Insts), i : Nat, placed : SUBSET Insts]
Passed(a0, q0, ready, k, s) ==
    /\ s \in PassState
    /\ s.i >= 1 /\ s.i - 1 + (Len(q0) - Len(s.q)) = k
    /\ Distinct(s.q)
    /\ RangeOf(s.q) \cap s.placed = {}
    /\ RangeOf(s.q) \cup s.placed = RangeOf(q0)
    /\ Grown(a0, s.a, ready, s.placed)

(* One attempt of RetryPendingInstances. *)
LEMMA RetryNextPassed ==
  ASSUME NEW a0, NEW q0 \in Seq(Insts), NEW ready \in SUBSET Nodes,
         \A i \in RangeOf(q0) : Own(a0, i) = {},
         NEW k \in 1..Len(q0), NEW s, Passed(a0, q0, ready, k - 1, s)
  PROVE  Passed(a0, q0, ready, k, RetryNext(s, ready))
<1> DEFINE G == PlaceInstance(s.a, ready)
           n == Len(s.q)
           m == Len(q0)
           x == s.q[s.i]
           d == SubSeq([s.q EXCEPT ![s.i] = s.q[n]], 1, n - 1)
           t == RetryNext(s, ready)
<1>1. /\ s \in PassState
      /\ s.i >= 1 /\ s.i - 1 + (m - n) = k - 1
      /\ Distinct(s.q) /\ RangeOf(s.q) \cap s.placed = {}
      /\ RangeOf(s.q) \cup s.placed = RangeOf(q0)
      /\ Grown(a0, s.a, ready, s.placed)
  BY DEF Passed
<1>2. /\ s = [a |-> s.a, q |-> s.q, i |-> s.i, placed |-> s.placed]
      /\ s.a \in [GPUs -> Insts \cup {NoInst}] /\ s.q \in Seq(Insts)
      /\ s.i \in Nat /\ s.placed \in SUBSET Insts
  BY <1>1 DEF PassState
<1>3. n \in Nat /\ m \in Nat BY <1>2, LenProperties
<1>4. CASE G = {}
  <2>1. t = [s EXCEPT !.i = s.i + 1] BY <1>4 DEF RetryNext
  <2>2. t = [a |-> s.a, q |-> s.q, i |-> s.i + 1, placed |-> s.placed]
    BY <1>2, <2>1
  <2> HIDE DEF t
  <2>3. t.a = s.a /\ t.q = s.q /\ t.i = s.i + 1 /\ t.placed = s.placed BY <2>2
  <2>4. t \in PassState BY <1>2, <2>2 DEF PassState
  <2>5. t.i >= 1 /\ t.i - 1 + (m - Len(t.q)) = k BY SMTT(60), <1>1, <1>2, <1>3, <2>3
  <2>6. Passed(a0, q0, ready, k, t) BY <1>1, <2>3, <2>4, <2>5 DEF Passed
  <2> QED BY <2>6 DEF t
<1>5. CASE G # {}
  <2>1. t = [a |-> Commit(s.a, G, x), q |-> d, i |-> s.i, placed |-> s.placed \cup {x}]
    BY <1>5 DEF RetryNext
  <2>2. s.i \in 1..n BY <1>1, <1>2, <1>3
  <2>3. x \in RangeOf(s.q) /\ x \in Insts
    BY <1>2, <1>3, <2>2, ElementOfSeq DEF RangeOf
  <2>4. d \in Seq(Insts) /\ Len(d) = n - 1 /\ Distinct(d) /\ RangeOf(d) = RangeOf(s.q) \ {x}
    <3> HIDE DEF d, x
    <3> QED BY <1>1, <1>2, <2>2, SwapRemove, ZenonT(60) DEF d, x
  <2>5. x \notin s.placed /\ x \in RangeOf(q0) BY <1>1, <2>3
  <2>6. Grown(a0, Commit(s.a, G, x), ready, s.placed \cup {x})
    <3>1. Own(a0, x) = {} /\ x \in Insts \ s.placed BY <2>3, <2>5
    <3> HIDE DEF x
    <3> QED BY <1>1, <1>2, <1>5, <3>1, PlaceOneMore
  <2> HIDE DEF t, x, d
  <2>7. /\ t.a = Commit(s.a, G, x) /\ t.q = d /\ t.i = s.i
        /\ t.placed = s.placed \cup {x}
    BY <2>1
  <2>8. Commit(s.a, G, x) \in [GPUs -> Insts \cup {NoInst}] BY <2>6 DEF Grown
  <2>9. t \in PassState
    <3>1. s.placed \cup {x} \in SUBSET Insts BY <1>2, <2>3
    <3> QED BY <1>2, <2>1, <2>4, <2>8, <3>1 DEF PassState
  <2>10. t.i >= 1 /\ t.i - 1 + (m - Len(t.q)) = k
    BY SMTT(60), <1>1, <1>2, <1>3, <2>4, <2>7
  <2>11. RangeOf(t.q) \cap t.placed = {} /\ RangeOf(t.q) \cup t.placed = RangeOf(q0)
    BY <1>1, <2>3, <2>4, <2>5, <2>7
  <2>12. Distinct(t.q) /\ Grown(a0, t.a, ready, t.placed) BY <2>4, <2>6, <2>7
  <2>13. Passed(a0, q0, ready, k, t) BY <2>9, <2>10, <2>11, <2>12 DEF Passed
  <2> QED BY <2>13 DEF t
<1> QED BY <1>4, <1>5

(* The pass over the pending list loses and repeats no instance. *)
LEMMA RetriesPassed ==
  ASSUME NEW a0 \in [GPUs -> Insts \cup {NoInst}], NEW q0 \in Seq(Insts), Distinct(q0),
         NEW ready \in SUBSET Nodes, \A i \in RangeOf(q0) : Own(a0, i) = {}
  PROVE  Passed(a0, q0, ready, Len(q0), Retries(a0, q0, ready)[Len(q0)])
<1> DEFINE n == Len(q0)
           b == [a |-> a0, q |-> q0, i |-> 1, placed |-> {}]
           T == [k \in 0..n |-> {s \in PassState : Passed(a0, q0, ready, k, s)}]
           F == [k \in 1..n |-> [s \in T[k - 1] |-> RetryNext(s, ready)]]
           run == Retries(a0, q0, ready)
<1>1. n \in Nat BY LenProperties
<1>2. b \in T[0]
  <2>1. b \in PassState BY DEF PassState
  <2>2. Grown(a0, a0, ready, {}) BY DEF Grown
  <2>3. b.a = a0 /\ b.q = q0 /\ b.i = 1 /\ b.placed = {} OBVIOUS
  <2> HIDE DEF b
  <2>4. Passed(a0, q0, ready, 0, b) BY <1>1, <2>1, <2>2, <2>3 DEF Passed
  <2> QED BY <1>1, <2>1, <2>4
<1>3. ASSUME NEW k \in 1..n, NEW s \in T[k - 1] PROVE RetryNext(s, ready) \in T[k]
  <2>1. k - 1 \in 0..n /\ k \in 0..n BY <1>1
  <2>2. Passed(a0, q0, ready, k - 1, s) BY <1>3, <2>1
  <2>3. Passed(a0, q0, ready, k, RetryNext(s, ready)) BY <2>2, RetryNextPassed
  <2>4. RetryNext(s, ready) \in PassState BY <2>3 DEF Passed
  <2> QED BY <2>1, <2>3, <2>4
<1>9. \A k \in 0..n : T[k] \subseteq PassState OBVIOUS
<1> HIDE DEF T, b
<1>4. \A k \in 1..n : \A s \in T[k - 1] : F[k][s] \in T[k] BY <1>3
<1>5. \E f : f = [k \in 0..n |-> IF k = 0 THEN b ELSE RetryNext(f[k - 1], ready)]
  <2> HIDE DEF F, n
  <2>0. StepsStay(n, PassState, T, F, b) BY <1>2, <1>4, <1>9 DEF StepsStay
  <2>1. PICK f \in [0..n -> PassState] : RunOf(n, T, F, b, f)
    BY <1>1, <2>0, StepsDefined
  <2>2. \A k \in 1..n : F[k][f[k - 1]] = RetryNext(f[k - 1], ready)
    <3> TAKE k \in 1..n
    <3>1. k - 1 \in 0..n BY <1>1
    <3>2. f[k - 1] \in T[k - 1] BY <2>1, <3>1 DEF RunOf
    <3> QED BY <3>2 DEF F
  <2>3. f = [k \in 0..n |-> IF k = 0 THEN b ELSE RetryNext(f[k - 1], ready)]
    BY <1>1, <2>1, <2>2 DEF RunOf
  <2> QED BY <2>3
<1>6. run = [k \in 0..n |-> IF k = 0 THEN b ELSE RetryNext(run[k - 1], ready)]
  BY <1>5 DEF Retries, b
<1> HIDE DEF run, n
<1>7. \A k \in 0..n : k \in {j \in 0..n : run[j] \in T[j]}
  <2> DEFINE Good == {j \in 0..n : run[j] \in T[j]}
  <2>1. 0 \in Good BY <1>1, <1>2, <1>6
  <2>2. \A k \in 1..n : k - 1 \in Good => k \in Good
    <3> TAKE k \in 1..n
    <3>1. k \in 0..n /\ k # 0 BY <1>1
    <3>2. run[k] = RetryNext(run[k - 1], ready) BY <1>6, <3>1
    <3> QED BY <1>3, <3>1, <3>2
  <2> HIDE DEF Good
  <2>3. \A k \in 0..n : k \in Good BY <1>1, <2>1, <2>2, StepsInduction
  <2> QED BY <2>3 DEF Good
<1>8. run[n] \in T[n] /\ n \in 0..n BY <1>1, <1>7
<1> QED BY <1>8 DEF T, run, n

\* A state of the start-up placement after k instances.
NoAlloc == [g \in GPUs |-> NoInst]
StartState == [a : [GPUs -> Insts \cup {NoInst}], q : Seq(Insts)]
Started(k, s) ==
    /\ s \in StartState
    /\ Distinct(s.q) /\ RangeOf(s.q) \subseteq 1..k
    /\ Grown(NoAlloc, s.a, InitialNodes, (1..k) \ RangeOf(s.q))

(* An element appended. *)
LEMMA AppendShape ==
  ASSUME NEW S, NEW q \in Seq(S), NEW x \in S
  PROVE  /\ Append(q, x) \in Seq(S)
         /\ RangeOf(Append(q, x)) = RangeOf(q) \cup {x}
         /\ Distinct(q) /\ x \notin RangeOf(q) => Distinct(Append(q, x))
<1> DEFINE n == Len(q)
           e == Append(q, x)
<1>1. /\ n \in Nat /\ e \in Seq(S) /\ Len(e) = n + 1
      /\ \A k \in 1..n : e[k] = q[k]
      /\ e[n + 1] = x
  OBVIOUS
<1>2. RangeOf(q) = {q[k] : k \in 1..n} /\ RangeOf(e) = {e[k] : k \in 1..n + 1}
  BY <1>1 DEF RangeOf
<1> HIDE DEF e
<1>3. ASSUME Distinct(q), x \notin RangeOf(q) PROVE Distinct(e)
  <2>1. \A j, k \in 1..n : q[j] = q[k] => j = k BY <1>3 DEF Distinct
  <2> HIDE DEF n
  <2>2. ASSUME NEW j \in 1..n + 1, NEW k \in 1..n + 1, e[j] = e[k] PROVE j = k
    <3>1. \A m \in 1..n + 1 : m \in 1..n \/ m = n + 1 BY <1>1
    <3>2. \A m \in 1..n : e[m] # x BY <1>1, <1>2, <1>3
    <3>3. CASE j \in 1..n /\ k \in 1..n BY <1>1, <2>1, <2>2, <3>3
    <3>4. CASE j = n + 1 \/ k = n + 1 BY <1>1, <2>2, <3>1, <3>2, <3>4
    <3> QED BY <3>1, <3>3, <3>4
  <2> QED BY <1>1, <2>2 DEF Distinct
<1> HIDE DEF n
<1>4. RangeOf(e) = RangeOf(q) \cup {x}
  <2>1. \A k \in 1..n + 1 : e[k] \in RangeOf(q) \cup {x}
    <3> TAKE k \in 1..n + 1
    <3>1. k \in 1..n \/ k = n + 1 BY <1>1
    <3> QED BY <1>1, <1>2, <3>1
  <2>2. x \in RangeOf(e)
    <3>1. n + 1 \in 1..n + 1 BY <1>1
    <3> QED BY <1>1, <1>2, <3>1
  <2>3. \A k \in 1..n : q[k] \in RangeOf(e)
    <3> TAKE k \in 1..n
    <3>1. k \in 1..n + 1 BY <1>1
    <3> QED BY <1>1, <1>2, <3>1
  <2> QED BY <1>2, <2>1, <2>2, <2>3
<1> QED BY <1>1, <1>3, <1>4 DEF e

(* One start-up instance is placed, or put on the pending list. *)
LEMMA PlaceStartupStarted ==
  ASSUME NEW k \in 1..NumInstances, NEW s, Started(k - 1, s)
  PROVE  Started(k, PlaceStartup(s, k))
<1> DEFINE G == PlaceInstance(s.a, InitialNodes)
           t == PlaceStartup(s, k)
<1>1. /\ s \in StartState /\ Distinct(s.q) /\ RangeOf(s.q) \subseteq 1..(k - 1)
      /\ Grown(NoAlloc, s.a, InitialNodes, (1..(k - 1)) \ RangeOf(s.q))
  BY DEF Started
<1>2. /\ s = [a |-> s.a, q |-> s.q]
      /\ s.a \in [GPUs -> Insts \cup {NoInst}] /\ s.q \in Seq(Insts)
  BY <1>1 DEF StartState
<1>3. k \in Insts /\ k \in Nat /\ 1..k = (1..(k - 1)) \cup {k} /\ k \notin 1..(k - 1)
      /\ 1..(k - 1) \subseteq Insts
  BY FleetAssumption DEF Insts
<1>4. k \notin RangeOf(s.q) BY <1>1, <1>3
<1>5. CASE G = {}
  <2>1. t = [s EXCEPT !.q = Append(s.q, k)] BY <1>5 DEF PlaceStartup
  <2>2. t = [a |-> s.a, q |-> Append(s.q, k)] BY <1>2, <2>1
  <2>3. /\ Append(s.q, k) \in Seq(Insts) /\ Distinct(Append(s.q, k))
        /\ RangeOf(Append(s.q, k)) = RangeOf(s.q) \cup {k}
    BY <1>1, <1>2, <1>3, <1>4, AppendShape
  <2> HIDE DEF t
  <2>4. t.a = s.a /\ t.q = Append(s.q, k) /\ t \in StartState
    BY <1>2, <2>2, <2>3 DEF StartState
  <2>5. (1..k) \ RangeOf(t.q) = (1..(k - 1)) \ RangeOf(s.q) BY <1>3, <2>3, <2>4
  <2>6. RangeOf(t.q) \subseteq 1..k BY <1>1, <1>3, <2>3, <2>4
  <2>7. Started(k, t) BY <1>1, <2>3, <2>4, <2>5, <2>6 DEF Started
  <2> QED BY <2>7 DEF t
<1>6. CASE G # {}
  <2>1. t = [s EXCEPT !.a = Commit(s.a, G, k)] BY <1>6 DEF PlaceStartup
  <2>2. t = [a |-> Commit(s.a, G, k), q |-> s.q] BY <1>2, <2>1
  <2> DEFINE P == (1..(k - 1)) \ RangeOf(s.q)
  <2>3. P \in SUBSET Insts /\ k \in Insts \ P BY <1>3
  <2>4. (1..k) \ RangeOf(s.q) = P \cup {k} BY <1>3, <1>4
  <2>5. Own(NoAlloc, k) = {} BY <1>3, InstsShape DEF Own, NoAlloc
  <2>6. InitialNodes \in SUBSET Nodes BY DEF InitialNodes
  <2>7. Grown(NoAlloc, s.a, InitialNodes, P) BY <1>1
  <2> HIDE DEF P, t
  <2>8. Grown(NoAlloc, Commit(s.a, G, k), InitialNodes, P \cup {k})
    BY <1>6, <2>3, <2>5, <2>6, <2>7, PlaceOneMore
  <2>9. Commit(s.a, G, k) \in [GPUs -> Insts \cup {NoInst}] BY <2>8 DEF Grown
  <2>10. t.a = Commit(s.a, G, k) /\ t.q = s.q /\ t \in StartState
    BY <1>2, <2>2, <2>9 DEF StartState
  <2>11. RangeOf(s.q) \subseteq 1..k BY <1>1, <1>3
  <2>12. Started(k, t) BY <1>1, <2>4, <2>8, <2>10, <2>11 DEF Started
  <2> QED BY <2>12 DEF t
<1> QED BY <1>5, <1>6

(* Start-up places or defers every instance, each once. *)
LEMMA StartupStarted == Started(NumInstances, Startup0)
<1> DEFINE n == NumInstances
           b == [a |-> [g \in GPUs |-> NoInst], q |-> <<>>]
           T == [k \in 0..n |-> {s \in StartState : Started(k, s)}]
           F == [k \in 1..n |-> [s \in T[k - 1] |-> PlaceStartup(s, k)]]
           run == StartupRun
<1>1. n \in Nat BY FleetAssumption
<1>2. b \in T[0]
  <2>1. b \in StartState BY DEF StartState
  <2>2. Distinct(<<>>) /\ RangeOf(<<>>) = {} BY DEF Distinct, RangeOf
  <2>3. Grown(NoAlloc, NoAlloc, InitialNodes, {}) BY DEF Grown, NoAlloc
  <2>4. b.a = NoAlloc /\ b.q = <<>> BY DEF NoAlloc
  <2>5. 1..0 = {} OBVIOUS
  <2> HIDE DEF b
  <2>6. Started(0, b) BY <2>1, <2>2, <2>3, <2>4, <2>5 DEF Started
  <2> QED BY <1>1, <2>1, <2>6
<1>3. ASSUME NEW k \in 1..n, NEW s \in T[k - 1] PROVE PlaceStartup(s, k) \in T[k]
  <2>1. k - 1 \in 0..n /\ k \in 0..n BY <1>1
  <2>2. Started(k - 1, s) BY <1>3, <2>1
  <2>3. Started(k, PlaceStartup(s, k)) BY <2>2, PlaceStartupStarted
  <2>4. PlaceStartup(s, k) \in StartState BY <2>3 DEF Started
  <2> QED BY <2>1, <2>3, <2>4
<1>4. \A k \in 0..n : T[k] \subseteq StartState OBVIOUS
<1> HIDE DEF T, b, n
<1>5. \A k \in 1..n : \A s \in T[k - 1] : F[k][s] \in T[k] BY <1>3
<1>6. \E f : f = [k \in 0..n |-> IF k = 0 THEN b ELSE PlaceStartup(f[k - 1], k)]
  <2> HIDE DEF F
  <2>1. StepsStay(n, StartState, T, F, b) BY <1>2, <1>4, <1>5 DEF StepsStay
  <2>2. PICK f \in [0..n -> StartState] : RunOf(n, T, F, b, f)
    BY <1>1, <2>1, StepsDefined
  <2>3. \A k \in 1..n : F[k][f[k - 1]] = PlaceStartup(f[k - 1], k)
    <3> TAKE k \in 1..n
    <3>1. k - 1 \in 0..n BY <1>1
    <3>2. f[k - 1] \in T[k - 1] BY <2>2, <3>1 DEF RunOf
    <3> QED BY <3>2 DEF F
  <2>4. f = [k \in 0..n |-> IF k = 0 THEN b ELSE PlaceStartup(f[k - 1], k)]
    BY <1>1, <2>2, <2>3 DEF RunOf
  <2> QED BY <2>4
<1>7. run = [k \in 0..n |-> IF k = 0 THEN b ELSE PlaceStartup(run[k - 1], k)]
  BY <1>6 DEF StartupRun, b, n
<1> HIDE DEF run
<1>8. \A k \in 0..n : k \in {j \in 0..n : run[j] \in T[j]}
  <2> DEFINE Good == {j \in 0..n : run[j] \in T[j]}
  <2>1. 0 \in Good BY <1>1, <1>2, <1>7
  <2>2. \A k \in 1..n : k - 1 \in Good => k \in Good
    <3> TAKE k \in 1..n
    <3>1. k \in 0..n /\ k # 0 BY <1>1
    <3>2. run[k] = PlaceStartup(run[k - 1], k) BY <1>7, <3>1
    <3> QED BY <1>3, <3>1, <3>2
  <2> HIDE DEF Good
  <2>3. \A k \in 0..n : k \in Good BY <1>1, <2>1, <2>2, StepsInduction
  <2> QED BY <2>3 DEF Good
<1>9. run[n] \in T[n] /\ n \in 0..n BY <1>1, <1>8
<1> QED BY <1>9 DEF T, run, n, Startup0

\* A state of a scale-up after some attempts.
AddState == [a : [GPUs -> Insts \cup {NoInst}], n : Nat]
Added(a0, ready, first, room, s) ==
    /\ s \in AddState
    /\ s.n <= room
    /\ Grown(a0, s.a, ready, (first + 1)..(first + s.n))

(* One attempt of scaleUp. *)
LEMMA PlaceNewAdded ==
  ASSUME NEW a0, NEW ready \in SUBSET Nodes, NEW first \in Nat, NEW room \in Nat,
         (first + 1)..(first + room) \subseteq Insts,
         \A i \in (first + 1)..(first + room) : Own(a0, i) = {},
         NEW s, Added(a0, ready, first, room, s)
  PROVE  Added(a0, ready, first, room, PlaceNew(s, ready, first, room))
<1> DEFINE G == PlaceInstance(s.a, ready)
           t == PlaceNew(s, ready, first, room)
           i == first + s.n + 1
           S == (first + 1)..(first + s.n)
<1>1. CASE G = {} \/ s.n = room
  <2>1. t = s BY <1>1 DEF PlaceNew
  <2> QED BY <2>1
<1>2. CASE ~(G = {} \/ s.n = room)
  <2>1. t = [a |-> Commit(s.a, G, i), n |-> s.n + 1] BY <1>2 DEF PlaceNew
  <2>2. /\ s \in AddState /\ s.n <= room /\ Grown(a0, s.a, ready, S)
    BY DEF Added
  <2>3. s.n \in Nat /\ s.n < room BY <1>2, <2>2 DEF AddState
  <2>4. i \in (first + 1)..(first + room) BY <2>3
  <2>5. i \in Insts \ S BY <2>3, <2>4
  <2>6. S \in SUBSET Insts
    <3>1. \A x \in S : x \in (first + 1)..(first + room) BY <2>3
    <3> QED BY <3>1
  <2>7. Own(a0, i) = {} BY <2>4
  <2>8. (first + 1)..(first + (s.n + 1)) = S \cup {i} BY <2>3
  <2> HIDE DEF i, S, t
  <2>9. Grown(a0, Commit(s.a, G, i), ready, S \cup {i})
    BY <1>2, <2>2, <2>5, <2>6, <2>7, PlaceOneMore
  <2>10. Commit(s.a, G, i) \in [GPUs -> Insts \cup {NoInst}] BY <2>9 DEF Grown
  <2>11. t.a = Commit(s.a, G, i) /\ t.n = s.n + 1 /\ t \in AddState
    BY <2>1, <2>3, <2>10 DEF AddState
  <2>12. t.n <= room BY <2>3, <2>11
  <2>13. Grown(a0, t.a, ready, (first + 1)..(first + t.n)) BY <2>8, <2>9, <2>11
  <2>14. Added(a0, ready, first, room, t) BY <2>11, <2>12, <2>13 DEF Added
  <2> QED BY <2>14 DEF t
<1> QED BY <1>1, <1>2

(* A scale-up places its instances under the next free identifiers. *)
LEMMA AdditionsAdded ==
  ASSUME NEW a0 \in [GPUs -> Insts \cup {NoInst}], NEW ready \in SUBSET Nodes,
         NEW first \in Nat, NEW room \in Nat, NEW n \in Nat,
         (first + 1)..(first + room) \subseteq Insts,
         \A i \in (first + 1)..(first + room) : Own(a0, i) = {}
  PROVE  Added(a0, ready, first, room, Additions(a0, ready, first, room, n)[n])
<1> DEFINE b == [a |-> a0, n |-> 0]
           T == [k \in 0..n |-> {s \in AddState : Added(a0, ready, first, room, s)}]
           F == [k \in 1..n |-> [s \in T[k - 1] |-> PlaceNew(s, ready, first, room)]]
           run == Additions(a0, ready, first, room, n)
<1>2. b \in T[0]
  <2>1. b \in AddState /\ b.a = a0 /\ b.n = 0 BY DEF AddState
  <2>2. Grown(a0, a0, ready, {}) BY DEF Grown
  <2>3. (first + 1)..(first + 0) = {} /\ 0 <= room OBVIOUS
  <2> HIDE DEF b
  <2>4. Added(a0, ready, first, room, b) BY <2>1, <2>2, <2>3 DEF Added
  <2> QED BY <2>1, <2>4
<1>3. ASSUME NEW k \in 1..n, NEW s \in T[k - 1]
      PROVE  PlaceNew(s, ready, first, room) \in T[k]
  <2>1. k - 1 \in 0..n /\ k \in 0..n OBVIOUS
  <2>2. Added(a0, ready, first, room, s) BY <1>3, <2>1
  <2>3. Added(a0, ready, first, room, PlaceNew(s, ready, first, room))
    BY <2>2, PlaceNewAdded
  <2>4. PlaceNew(s, ready, first, room) \in AddState BY <2>3 DEF Added
  <2> QED BY <2>1, <2>3, <2>4
<1>4. \A k \in 0..n : T[k] \subseteq AddState OBVIOUS
<1> HIDE DEF T, b
<1>5. \A k \in 1..n : \A s \in T[k - 1] : F[k][s] \in T[k] BY <1>3
<1>6. \E f : f = [k \in 0..n |-> IF k = 0 THEN b ELSE PlaceNew(f[k - 1], ready, first, room)]
  <2> HIDE DEF F
  <2>1. StepsStay(n, AddState, T, F, b) BY <1>2, <1>4, <1>5 DEF StepsStay
  <2>2. PICK f \in [0..n -> AddState] : RunOf(n, T, F, b, f)
    BY <2>1, StepsDefined
  <2>3. \A k \in 1..n : F[k][f[k - 1]] = PlaceNew(f[k - 1], ready, first, room)
    <3> TAKE k \in 1..n
    <3>1. k - 1 \in 0..n OBVIOUS
    <3>2. f[k - 1] \in T[k - 1] BY <2>2, <3>1 DEF RunOf
    <3> QED BY <3>2 DEF F
  <2>4. f = [k \in 0..n |-> IF k = 0 THEN b ELSE PlaceNew(f[k - 1], ready, first, room)]
    BY <2>2, <2>3 DEF RunOf
  <2> QED BY <2>4
<1>7. run = [k \in 0..n |-> IF k = 0 THEN b ELSE PlaceNew(run[k - 1], ready, first, room)]
  BY <1>6 DEF Additions, b
<1> HIDE DEF run
<1>8. \A k \in 0..n : k \in {j \in 0..n : run[j] \in T[j]}
  <2> DEFINE Good == {j \in 0..n : run[j] \in T[j]}
  <2>1. 0 \in Good BY <1>2, <1>7
  <2>2. \A k \in 1..n : k - 1 \in Good => k \in Good
    <3> TAKE k \in 1..n
    <3>1. k \in 0..n /\ k # 0 OBVIOUS
    <3>2. run[k] = PlaceNew(run[k - 1], ready, first, room) BY <1>7, <3>1
    <3> QED BY <1>3, <3>1, <3>2
  <2> HIDE DEF Good
  <2>3. \A k \in 0..n : k \in Good BY <2>1, <2>2, StepsInduction
  <2> QED BY <2>3 DEF Good
<1>9. run[n] \in T[n] /\ n \in 0..n BY <1>8
<1> QED BY <1>9 DEF T, run

------------------------------
(* What changes of the life-cycle states and of the allocation keep. *)

(* The number of allocated GPUs of a node depends on which are allocated. *)
LEMMA SameAllocated ==
  ASSUME NEW a, NEW b, NEW n \in Nodes,
         \A g \in GPUsOf(n) : a[g] = NoInst <=> b[g] = NoInst
  PROVE  allocatedCount(b, n) = allocatedCount(a, n)
<1>1. {g \in GPUsOf(n) : a[g] # NoInst} = {g \in GPUsOf(n) : b[g] # NoInst}
  OBVIOUS
<1> QED BY <1>1 DEF allocatedCount

(* A node without allocated GPUs. *)
LEMMA NoneAllocated ==
  ASSUME NEW a, NEW n \in Nodes
  PROVE  allocatedCount(a, n) = 0 <=> \A g \in GPUsOf(n) : a[g] = NoInst
<1>1. ASSUME \A g \in GPUsOf(n) : a[g] = NoInst PROVE allocatedCount(a, n) = 0
  <2>1. {g \in GPUsOf(n) : a[g] # NoInst} = {} BY <1>1
  <2> QED BY <2>1, FS_EmptySet DEF allocatedCount
<1> QED BY <1>1, UnallocatedNode

(* The size of a part of a node is a natural number. *)
LEMMA AllocatedNat ==
  ASSUME NEW a, NEW n \in Nodes
  PROVE  allocatedCount(a, n) \in Nat
<1> DEFINE A == {g \in GPUsOf(n) : a[g] # NoInst}
<1>1. A \subseteq GPUsOf(n) OBVIOUS
<1> HIDE DEF A
<1>2. Cardinality(A) \in Nat BY <1>1, GPUsOfCount, SubsetFinite
<1> QED BY <1>2 DEF allocatedCount, A

\* The same instances are built, and the same have ended.
SameBuilt(st, su) ==
    \A i \in Insts : /\ st[i] = "Scheduling" <=> su[i] = "Scheduling"
                     /\ st[i] = "Terminated" <=> su[i] = "Terminated"

(* Moving between the states of a live instance. *)
LEMMA SameBuiltKeeps ==
  ASSUME NEW a, NEW st, NEW su, NEW h, NEW q, SameBuilt(st, su)
  PROVE  /\ Matching(a, st, h) => Matching(a, su, h)
         /\ Fitting(st, h) => Fitting(su, h)
         /\ Waiting(q, st) => Waiting(q, su)
         /\ NewInOrder(st) => NewInOrder(su)
<1>1. Matching(a, st, h) => Matching(a, su, h) BY DEF SameBuilt, Matching
<1>2. Fitting(st, h) => Fitting(su, h) BY DEF SameBuilt, Fitting
<1>3. {i \in Insts : Startup(i) /\ st[i] = "Scheduling"}
        = {i \in Insts : Startup(i) /\ su[i] = "Scheduling"}
  BY DEF SameBuilt
<1>4. Waiting(q, st) => Waiting(q, su) BY <1>3 DEF Waiting
<1>5. NewInOrder(st) => NewInOrder(su) BY DEF SameBuilt, NewInOrder
<1> QED BY <1>1, <1>2, <1>4, <1>5

(* What ReleaseInstance leaves allocated. *)
LEMMA ReleasedShape ==
  ASSUME NEW a \in Allocations, NEW i \in Insts
  PROVE  /\ Released(a, i) \in Allocations
         /\ \A g \in GPUs : Released(a, i)[g] = NoInst <=> a[g] = NoInst \/ a[g] = i
         /\ Own(Released(a, i), i) = {}
         /\ \A j \in Insts : j # i => Own(Released(a, i), j) = Own(a, j)
<1> DEFINE b == Released(a, i)
<1>1. \A g \in GPUs : b[g] = IF a[g] = i THEN NoInst ELSE a[g] BY DEF Released
<1>2. b \in Allocations BY DEF Released, Allocations
<1> HIDE DEF b
<1>3. Own(b, i) = {} BY <1>1, InstsShape DEF Own
<1>4. \A j \in Insts : j # i => Own(b, j) = Own(a, j)
  BY <1>1, InstsShape DEF Own
<1>5. \A g \in GPUs : b[g] = NoInst <=> a[g] = NoInst \/ a[g] = i BY <1>1
<1> QED BY <1>2, <1>3, <1>4, <1>5 DEF b

(* A live instance ends and gives its GPUs back. *)
LEMMA EndKeeps ==
  ASSUME NEW a \in Allocations, NEW st \in Lives, NEW h, NEW q, NEW i \in Insts,
         st[i] # "Scheduling", NEW su, su = [st EXCEPT ![i] = "Terminated"]
  PROVE  /\ Matching(a, st, h) => Matching(Released(a, i), su, h)
         /\ Fitting(st, h) => Fitting(su, h)
         /\ Waiting(q, st) => Waiting(q, su)
         /\ NewInOrder(st) => NewInOrder(su)
         /\ su \in Lives
<1>0. /\ su \in Lives /\ su[i] = "Terminated"
      /\ \A j \in Insts : j # i => su[j] = st[j]
  BY DEF Lives, InstStates
<1>1. ASSUME Matching(a, st, h) PROVE Matching(Released(a, i), su, h)
  BY <1>0, <1>1, ReleasedShape DEF Matching
<1>2. Fitting(st, h) => Fitting(su, h) BY <1>0 DEF Fitting
<1>3. {j \in Insts : Startup(j) /\ st[j] = "Scheduling"}
        = {j \in Insts : Startup(j) /\ su[j] = "Scheduling"}
  BY <1>0
<1>4. Waiting(q, st) => Waiting(q, su) BY <1>3 DEF Waiting
<1>5. NewInOrder(st) => NewInOrder(su) BY <1>0 DEF NewInOrder
<1> QED BY <1>0, <1>1, <1>2, <1>4, <1>5

(* Releasing an instance arms every draining node it was the last on. *)
LEMMA ReleaseArms ==
  ASSUME Shapes, Armed(nstate, cb, drainedEv, alloc), NEW i \in Insts
  PROVE  Armed(nstate, cb \ DrainCompleted(alloc, i),
               drainedEv \cup DrainCompleted(alloc, i), Released(alloc, i))
<1> DEFINE b == Released(alloc, i)
           D == DrainCompleted(alloc, i)
<1>1. alloc \in Allocations BY DEF Shapes
<1>2. \A g \in GPUs : b[g] = NoInst <=> alloc[g] = NoInst \/ alloc[g] = i
  BY <1>1, ReleasedShape
<1>3. \A n \in Nodes : n \in D <=> /\ n \in cb /\ nstate[n] = "Draining"
                                  /\ \E g \in GPUsOf(n) : alloc[g] = i
                                  /\ allocatedCount(b, n) = 0
  BY DEF DrainCompleted, Shapes
<1> HIDE DEF b, D
<1>4. ASSUME NEW n \in Nodes
      PROVE  /\ nstate[n] = "Draining" /\ allocatedCount(b, n) # 0
                  => n \in cb \ D /\ n \notin drainedEv \cup D
             /\ nstate[n] = "Draining" /\ allocatedCount(b, n) = 0
                  => n \notin cb \ D /\ n \in drainedEv \cup D
             /\ nstate[n] # "Draining" => n \notin cb \ D /\ n \notin drainedEv \cup D
  <2>1. /\ nstate[n] = "Draining" /\ allocatedCount(alloc, n) # 0 => n \in cb /\ n \notin drainedEv
        /\ nstate[n] = "Draining" /\ allocatedCount(alloc, n) = 0 => n \notin cb /\ n \in drainedEv
        /\ nstate[n] # "Draining" => n \notin cb /\ n \notin drainedEv
    BY DEF Armed
  <2>3. CASE \E g \in GPUsOf(n) : alloc[g] = i
    <3>1. allocatedCount(alloc, n) # 0 BY <2>3, NoneAllocated, InstsShape
    <3> QED BY <1>3, <2>1, <2>3, <3>1
  <2>4. CASE ~\E g \in GPUsOf(n) : alloc[g] = i
    <3>1. \A g \in GPUsOf(n) : alloc[g] = NoInst <=> b[g] = NoInst
      BY <1>2, <2>4, GPUShape
    <3>2. allocatedCount(b, n) = allocatedCount(alloc, n)
      BY <3>1, SameAllocated
    <3>3. n \notin D BY <1>3, <2>4
    <3> QED BY <2>1, <3>2, <3>3
  <2> QED BY <2>3, <2>4
<1> QED BY <1>4 DEF Armed, b, D

(* What addLiveInstance does to the instances S of allocation b. *)
LEMMA AddLiveShape ==
  ASSUME Shapes, NEW S \in SUBSET Insts, NEW b, AddLiveInstances(S, b)
  PROVE  /\ held' \in [Insts -> SUBSET GPUs] /\ warm' \in [Insts -> 0..WarmUp]
         /\ ist' \in Lives /\ loadEv' \in SUBSET Insts
         /\ \A i \in Insts \ S : ist'[i] = ist[i] /\ held'[i] = held[i]
         /\ \A i \in S : ist'[i] \in {"Loading", "WarmingUp", "Active"} /\ held'[i] = Own(b, i)
         /\ Loads(loadEv, ist) /\ (\A i \in S : ist[i] = "Scheduling") => Loads(loadEv', ist')
<1>1. /\ held \in [Insts -> SUBSET GPUs] /\ warm \in [Insts -> 0..WarmUp]
      /\ ist \in Lives /\ loadEv \in SUBSET Insts
  BY DEF Shapes
<1>2. held' = [i \in Insts |-> IF i \in S THEN {g \in GPUs : b[g] = i} ELSE held[i]]
      /\ warm' = [i \in Insts |-> IF i \in S THEN WarmUp ELSE warm[i]]
  BY DEF AddLiveInstances
<1>3. PICK delay \in [S -> LoadDelays] :
        /\ ist' = [i \in Insts |-> IF i \notin S THEN ist[i]
                                   ELSE IF delay[i] = 0 THEN LoadedState ELSE "Loading"]
        /\ loadEv' = loadEv \cup {i \in S : delay[i] # 0}
  BY DEF AddLiveInstances
<1>4. LoadedState \in {"WarmingUp", "Active"} BY DEF LoadedState
<1>5. held' \in [Insts -> SUBSET GPUs] /\ warm' \in [Insts -> 0..WarmUp]
  BY <1>1, <1>2, FleetAssumption
<1>6. /\ \A i \in Insts \ S : ist'[i] = ist[i] /\ held'[i] = held[i]
      /\ \A i \in S : held'[i] = Own(b, i)
      /\ \A i \in S : /\ ist'[i] \in {"Loading", "WarmingUp", "Active"}
                      /\ ist'[i] = "Loading" <=> delay[i] # 0
  BY <1>2, <1>3, <1>4 DEF Own
<1>7. loadEv' \in SUBSET Insts BY <1>1, <1>3
<1>8. ist' \in Lives
  <2>1. \A i \in Insts : (IF i \notin S THEN ist[i]
                          ELSE IF delay[i] = 0 THEN LoadedState ELSE "Loading") \in InstStates
    BY <1>1, <1>4 DEF Lives, InstStates
  <2> QED BY <1>3, <2>1 DEF Lives
<1>9. ASSUME Loads(loadEv, ist), \A i \in S : ist[i] = "Scheduling"
      PROVE  Loads(loadEv', ist')
  <2>1. \A i \in Insts : i \in loadEv' <=> ist'[i] = "Loading"
    BY <1>1, <1>3, <1>6, <1>9 DEF Loads
  <2> QED BY <1>7, <2>1 DEF Loads
<1> QED BY <1>5, <1>6, <1>7, <1>8, <1>9

(* Building instances gives each the GPUs it was placed on, and no other. *)
LEMMA BuildKeeps ==
  ASSUME NEW a \in Allocations, NEW b, NEW ready, NEW S \in SUBSET Insts,
         Grown(a, b, ready, S),
         NEW st, NEW su, NEW h, NEW hh,
         \A i \in Insts \ S : su[i] = st[i] /\ hh[i] = h[i],
         \A i \in S : st[i] = "Scheduling",
         \A i \in S : su[i] \in {"Loading", "WarmingUp", "Active"} /\ hh[i] = Own(b, i)
  PROVE  /\ b \in Allocations
         /\ Matching(a, st, h) => Matching(b, su, hh)
         /\ Fitting(st, h) => Fitting(su, hh)
<1>1. /\ b \in Allocations
      /\ \A g \in GPUs : b[g] = a[g] \/ (a[g] = NoInst /\ b[g] \in S)
      /\ \A i \in S : Fits(Own(b, i))
  BY DEF Grown, Allocations
<1>2. \A i \in Insts \ S : Own(b, i) = Own(a, i) BY <1>1, InstsShape DEF Own
<1>3. ASSUME Matching(a, st, h) PROVE Matching(b, su, hh)
  <2>1. \A i \in Insts \ S :
          /\ su[i] \notin {"Scheduling", "Terminated"} => Own(b, i) = hh[i]
          /\ su[i] \in {"Scheduling", "Terminated"} => Own(b, i) = {}
    BY <1>2, <1>3 DEF Matching
  <2> QED BY <2>1 DEF Matching
<1>4. Fitting(st, h) => Fitting(su, hh) BY <1>1 DEF Fitting
<1> QED BY <1>1, <1>3, <1>4

(* Placements are on ready nodes: what the draining ones wait for stays. *)
LEMMA BuildArms ==
  ASSUME NEW a, NEW b, NEW ready \in SUBSET Nodes, NEW S, Grown(a, b, ready, S),
         NEW ns, NEW nt, NEW c, NEW d, Armed(ns, c, d, a),
         \A n \in Nodes : ns[n] = "Draining" <=> nt[n] = "Draining",
         \A n \in ready : nt[n] = "Ready"
  PROVE  Armed(nt, c, d, b)
<1>1. ASSUME NEW n \in Nodes, nt[n] = "Draining"
      PROVE  allocatedCount(b, n) = allocatedCount(a, n)
  <2>1. n \notin ready BY <1>1
  <2>2. \A g \in GPUsOf(n) : b[g] = a[g] BY <2>1, GPUShape DEF Grown
  <2> QED BY <2>2, SameAllocated
<1> QED BY <1>1 DEF Armed

------------------------------
(* Requests on board. *)

(* The requests on board of an instance are finitely many. *)
LEMMA OnBoardFinite ==
  ASSUME NEW w, NEW i
  PROVE  /\ IsFiniteSet(OnBoard(w, i)) /\ Cardinality(OnBoard(w, i)) \in Nat
         /\ Cardinality(OnBoard(w, i)) <= Cardinality(Requests)
<1>1. OnBoard(w, i) \subseteq Requests BY DEF OnBoard
<1> QED BY <1>1, SubsetFinite, FleetAssumption

\* From w to v the requests D leave instance i, and no other moves off board.
Leaves(w, v, i, D) ==
    /\ D \subseteq OnBoard(w, i)
    /\ OnBoard(v, i) = OnBoard(w, i) \ D
    /\ \A j \in Insts : j # i => OnBoard(v, j) = OnBoard(w, j)

(* Requests leave an instance, and its count goes down by as many, or by   *)
(* more when an immediate drain takes the batch off it.                    *)
LEMMA CountDown ==
  ASSUME inFlight \in [Insts -> Nat], Counted(inFlight, where, clean),
         NEW i \in Insts, NEW D, Leaves(where, where', i, D),
         NEW m \in Nat, m >= Cardinality(D),
         clean' \subseteq clean, i \in clean' => m = Cardinality(D),
         inFlight' = [inFlight EXCEPT ![i] = Minus(inFlight[i], m)]
  PROVE  inFlight' \in [Insts -> Nat] /\ Counted(inFlight', where', clean')
<1>1. IsFiniteSet(OnBoard(where, i)) /\ Cardinality(OnBoard(where, i)) \in Nat
  BY OnBoardFinite
<1>2. /\ D \subseteq OnBoard(where, i) /\ OnBoard(where', i) = OnBoard(where, i) \ D
      /\ \A j \in Insts : j # i => OnBoard(where', j) = OnBoard(where, j)
  BY DEF Leaves
<1>3. IsFiniteSet(D) /\ Cardinality(D) \in Nat /\ Cardinality(D) <= Cardinality(OnBoard(where, i))
  BY <1>1, <1>2, SubsetFinite
<1>4. Cardinality(OnBoard(where', i)) = Cardinality(OnBoard(where, i)) - Cardinality(D)
  <2>1. Cardinality(OnBoard(where, i) \ D)
          = Cardinality(OnBoard(where, i)) - Cardinality(OnBoard(where, i) \cap D)
    BY <1>1, FS_Difference
  <2>2. OnBoard(where, i) \cap D = D BY <1>2
  <2> QED BY <1>2, <2>1, <2>2
<1>5. /\ inFlight[i] \in Nat /\ inFlight[i] <= Cardinality(OnBoard(where, i))
      /\ i \in clean => inFlight[i] = Cardinality(OnBoard(where, i))
  BY DEF Counted
<1>6. Minus(inFlight[i], m) \in Nat BY <1>5 DEF Minus
<1>7. /\ inFlight' \in [Insts -> Nat] /\ inFlight'[i] = Minus(inFlight[i], m)
      /\ \A j \in Insts : j # i => inFlight'[j] = inFlight[j]
  BY <1>6
<1>8. inFlight'[i] <= Cardinality(OnBoard(where', i))
  BY <1>1, <1>3, <1>4, <1>5, <1>7 DEF Minus
<1>9. i \in clean' => inFlight'[i] = Cardinality(OnBoard(where', i))
  BY <1>1, <1>3, <1>4, <1>5, <1>7 DEF Minus
<1>10. ASSUME NEW j \in Insts, j # i
       PROVE  /\ inFlight'[j] <= Cardinality(OnBoard(where', j))
              /\ j \in clean' => inFlight'[j] = Cardinality(OnBoard(where', j))
  BY <1>2, <1>7, <1>10 DEF Counted
<1> QED BY <1>7, <1>8, <1>9, <1>10 DEF Counted

(* A request is routed to an instance. *)
LEMMA CountUp ==
  ASSUME NEW f \in [Insts -> Nat], NEW w, NEW cl, Counted(f, w, cl),
         NEW i \in Insts, NEW v, NEW r, r \notin OnBoard(w, i),
         OnBoard(v, i) = OnBoard(w, i) \cup {r},
         \A j \in Insts : j # i => OnBoard(v, j) = OnBoard(w, j),
         NEW e, e = [f EXCEPT ![i] = f[i] + 1]
  PROVE  e \in [Insts -> Nat] /\ Counted(e, v, cl)
<1>1. IsFiniteSet(OnBoard(w, i)) /\ Cardinality(OnBoard(w, i)) \in Nat
  BY OnBoardFinite
<1>2. Cardinality(OnBoard(v, i)) = Cardinality(OnBoard(w, i)) + 1
  BY <1>1, FS_AddElement, ZenonT(60)
<1>3. e \in [Insts -> Nat] /\ e[i] = f[i] + 1 /\ \A j \in Insts : j # i => e[j] = f[j]
  OBVIOUS
<1>4. f[i] \in Nat /\ f[i] <= Cardinality(OnBoard(w, i))
      /\ (i \in cl => f[i] = Cardinality(OnBoard(w, i)))
  BY DEF Counted
<1>5. /\ e[i] <= Cardinality(OnBoard(v, i))
      /\ i \in cl => e[i] = Cardinality(OnBoard(v, i))
  BY <1>1, <1>2, <1>3, <1>4
<1>6. ASSUME NEW j \in Insts, j # i
      PROVE  /\ e[j] <= Cardinality(OnBoard(v, j))
             /\ j \in cl => e[j] = Cardinality(OnBoard(v, j))
  BY <1>3, <1>6 DEF Counted
<1> QED BY <1>3, <1>5, <1>6 DEF Counted

(* The counts depend on who is on board only. *)
LEMMA CountSame ==
  ASSUME NEW f, NEW w, NEW cl, Counted(f, w, cl), NEW v,
         \A j \in Insts : OnBoard(v, j) = OnBoard(w, j)
  PROVE  Counted(f, v, cl)
<1> QED BY DEF Counted

------------------------------
(* What the autoscaler decides. *)

(* Division rounded up, as scaleUpN does it. *)
LEMMA DivideUp ==
  ASSUME NEW x \in Int, NEW y \in Nat \ {0}, x > 0,
         NEW d, d = (x + y - 1) \div y
  PROVE  d \in Int /\ d >= 1 /\ d * y >= x /\ (d - 1) * y < x
<1> DEFINE z == x + y - 1
<1>1. z \in Int /\ z >= y OBVIOUS
<1>2. z \div y \in Int /\ z = y * (z \div y) + (z % y) /\ z % y \in 0..(y - 1)
  BY <1>1
<1>3. d = z \div y OBVIOUS
<1> HIDE DEF z
<1>4. d \in Int /\ z = y * d + (z % y) /\ z % y \in 0..(y - 1) BY <1>2, <1>3
<1>5. z = x + y - 1 BY DEF z
<1>6. d * y >= x /\ (d - 1) * y < x BY <1>4, <1>5
<1>7. d >= 1 BY <1>4, <1>6
<1> QED BY <1>4, <1>6, <1>7

(* Division rounded down, as scaleDownN does it. *)
LEMMA DivideDown ==
  ASSUME NEW x \in Int, NEW y \in Nat \ {0}, NEW d, d = x \div y
  PROVE  d \in Int /\ d * y <= x
<1>2. x \div y \in Int /\ x = y * (x \div y) + (x % y) /\ x % y \in 0..(y - 1)
  OBVIOUS
<1> QED BY <1>2

(* The quantities the autoscaler computes with. *)
LEMMA ScalerNumbers ==
  /\ \A S \in SUBSET Insts : IsFiniteSet(S) /\ Cardinality(S) \in Nat
  /\ \A S : Demand(S) \in Nat
  /\ Supply \in Nat /\ PendingSupply \in Nat
  /\ required \in Nat /\ spare \in Nat
<1>1. \A S \in SUBSET Insts : IsFiniteSet(S) /\ Cardinality(S) \in Nat
  BY FleetFinite, SubsetFinite
<1>2. \A S : Demand(S) \in Nat
  <2> TAKE S
  <2> DEFINE U == UNION {WaitQ(i) \cup Batch(i) : i \in S}
  <2>1. U \subseteq Requests BY DEF WaitQ, Batch, On
  <2> HIDE DEF U
  <2>2. Cardinality(U) \in Nat BY <2>1, SubsetFinite, FleetAssumption
  <2> QED BY <2>2 DEF Demand, U
<1>3. RoutableInsts \in SUBSET Insts /\ {i \in Insts : ist[i] = "Loading"} \in SUBSET Insts
  BY DEF RoutableInsts
<1>4. Cap \in Nat /\ UpPct \in Nat /\ DownPct \in Nat BY FleetAssumption
<1>5. Supply \in Nat /\ PendingSupply \in Nat
  <2>1. Cardinality(RoutableInsts) \in Nat
        /\ Cardinality({i \in Insts : ist[i] = "Loading"}) \in Nat
    BY <1>1, <1>3
  <2> QED BY <1>4, <2>1 DEF Supply, PendingSupply
<1>6. required \in Nat
  <2>1. 100 * Demand(RoutableInsts) \in Nat /\ UpPct * (Supply + PendingSupply) \in Nat
    BY <1>2, <1>4, <1>5
  <2> QED BY <2>1 DEF required, Minus
<1>7. spare \in Nat
  <2>1. 100 * Demand(RoutableInsts) \in Nat /\ Supply * DownPct \in Nat
    BY <1>2, <1>4, <1>5
  <2> QED BY <2>1 DEF spare, Minus
<1> QED BY <1>1, <1>2, <1>5, <1>6, <1>7

(* Replicas of a pool are instances. *)
LEMMA ReplicasCount ==
  ASSUME NEW p
  PROVE  Cardinality(ReplicasOf(p)) \in Nat
<1>1. ReplicasOf(p) \in SUBSET Insts BY DEF ReplicasOf, RoutableInsts
<1> QED BY <1>1, ScalerNumbers

(* A decision to scale up. *)
LEMMA UpFits ==
  ASSUME required > 0
  PROVE  /\ scaleUpN \in Int /\ scaleUpN >= 1
         /\ 100 * Demand(RoutableInsts) <= UpPct * (Supply + PendingSupply + scaleUpN * Cap)
         /\ 100 * Demand(RoutableInsts) > UpPct * (Supply + PendingSupply + (scaleUpN - 1) * Cap)
<1> DEFINE x == required
           y == UpPct * Cap
           d == (x + y - 1) \div y
           dem == 100 * Demand(RoutableInsts)
           s == Supply + PendingSupply
<1>1. /\ x \in Int /\ x > 0 /\ dem \in Int /\ s \in Int
      /\ UpPct \in Nat \ {0} /\ Cap \in Nat \ {0}
  BY ScalerNumbers, FleetAssumption
<1>2. x = dem - UpPct * s
  <2>1. x = IF RoutableInsts = {} THEN 0 ELSE Minus(dem, UpPct * s)
    BY DEF required
  <2> HIDE DEF x, dem, s
  <2>2. UpPct * s \in Int BY <1>1
  <2> QED BY <1>1, <2>1, <2>2 DEF Minus
<1>3. y \in Nat \ {0} BY <1>1
<1>4. scaleUpN = AtLeast1(d) BY DEF scaleUpN
<1> HIDE DEF x, dem, s, d
<1>5. d \in Int /\ d >= 1 /\ d * y >= x /\ (d - 1) * y < x
  <2> HIDE DEF y
  <2> QED BY <1>1, <1>3, DivideUp DEF d
<1>6. scaleUpN = d BY <1>4, <1>5 DEF AtLeast1
<1>7. UpPct * (s + d * Cap) = UpPct * s + d * y
      /\ UpPct * (s + (d - 1) * Cap) = UpPct * s + (d - 1) * y
  BY <1>1, <1>5
<1> HIDE DEF y
<1>8. UpPct * s \in Int /\ d * y \in Int /\ (d - 1) * y \in Int
  BY <1>1, <1>3, <1>5
<1>9. dem <= UpPct * (s + d * Cap) /\ dem > UpPct * (s + (d - 1) * Cap)
  BY <1>1, <1>2, <1>5, <1>7, <1>8
<1> QED BY <1>5, <1>6, <1>9 DEF dem, s

(* A decision to scale down. *)
LEMMA DownFits ==
  ASSUME spare > 0, NEW p
  PROVE  /\ scaleDownN(p) \in Nat
         /\ 100 * Demand(RoutableInsts) <= DownPct * (Supply - scaleDownN(p) * Cap)
<1> DEFINE y == DownPct * Cap
           d == spare \div y
           n == AtLeast1(d)
           m == scaleDownN(p)
           dem == 100 * Demand(RoutableInsts)
<1>1. /\ spare \in Int /\ dem \in Int /\ Supply \in Int
      /\ DownPct \in Nat \ {0} /\ Cap \in Nat \ {0}
      /\ Cardinality(ReplicasOf(p)) \in Nat
  BY ScalerNumbers, ReplicasCount, FleetAssumption
<1>2. (Supply - Cap) * DownPct > dem /\ spare = Minus(Supply * DownPct, dem)
  BY DEF spare
<1>3. y \in Nat \ {0} /\ (Supply - Cap) * DownPct = Supply * DownPct - y
  BY <1>1
<1>4. m = IF n > Cardinality(ReplicasOf(p)) THEN Cardinality(ReplicasOf(p)) ELSE n
  BY DEF scaleDownN
<1> HIDE DEF y, dem, m
<1>5. d \in Int /\ d * y <= spare BY <1>1, <1>3, DivideDown
<1> HIDE DEF d
<1>6. Supply * DownPct \in Int BY <1>1
<1>7. spare = Supply * DownPct - dem BY <1>1, <1>2, <1>6 DEF Minus
<1>8. n \in Int /\ n >= 1 /\ n * y <= Supply * DownPct - dem
  <2>1. CASE d < 1
    <3>1. n = 1 BY <2>1 DEF AtLeast1
    <3> QED BY <1>1, <1>2, <1>3, <1>6, <3>1
  <2>2. CASE ~(d < 1)
    <3>1. n = d BY <2>2 DEF AtLeast1
    <3> QED BY <1>5, <1>7, <2>2, <3>1
  <2> QED BY <2>1, <2>2
<1> HIDE DEF n
<1>9. m \in Nat /\ m <= n BY <1>1, <1>4, <1>8
<1>10. m * y <= n * y BY <1>3, <1>8, <1>9
<1>11. DownPct * (Supply - m * Cap) = Supply * DownPct - m * y
  BY <1>1, <1>9 DEF y
<1>12. m * y \in Int /\ n * y \in Int BY <1>3, <1>8, <1>9
<1> QED BY <1>1, <1>6, <1>8, <1>9, <1>10, <1>11, <1>12 DEF m, dem

(* Decisions are sized for the demand they were taken on. *)
LEMMA OptimizeFits == Optimize.delta \in Int /\ DecisionFits
<1> DEFINE dem == 100 * Demand(RoutableInsts)
           s == Supply + PendingSupply
<1>1. required \in Nat /\ spare \in Nat /\ Supply \in Int BY ScalerNumbers
<1>2. CASE required > 0 /\ roomFor(Variants) # {}
  <2>1. Optimize = [pool |-> Cheapest(roomFor(Variants)), delta |-> scaleUpN]
    BY <1>2 DEF Optimize
  <2>2. Optimize.delta = scaleUpN BY <2>1
  <2> QED BY <1>2, <2>2, UpFits DEF DecisionFits
<1>3. CASE required = 0 /\ spare > 0
  <2> DEFINE m == scaleDownN(Dearest(Variants))
  <2>1. Optimize = [pool |-> Dearest(Variants), delta |-> -m]
    BY <1>3 DEF Optimize
  <2>2. Optimize.delta = -m BY <2>1
  <2>3. m \in Nat /\ dem <= DownPct * (Supply - m * Cap) BY <1>3, DownFits
  <2> HIDE DEF m
  <2>4. Supply + Optimize.delta * Cap = Supply - m * Cap
    BY <1>1, <2>2, <2>3, FleetAssumption
  <2>5. Optimize.delta > 0 => /\ dem <= UpPct * (s + Optimize.delta * Cap)
                              /\ dem > UpPct * (s + (Optimize.delta - 1) * Cap)
    <3>1. ~(Optimize.delta > 0) BY <2>2, <2>3
    <3> QED BY <3>1
  <2> QED BY <2>2, <2>3, <2>4, <2>5 DEF DecisionFits
<1>4. CASE ~(required > 0 /\ roomFor(Variants) # {}) /\ ~(required = 0 /\ spare > 0)
  <2>1. Optimize = NoDecision BY <1>4 DEF Optimize
  <2>2. Optimize.delta = 0 BY <2>1 DEF NoDecision
  <2> QED BY <2>2 DEF DecisionFits
<1> QED BY <1>2, <1>3, <1>4

------------------------------
(* The actions, one by one. *)

Whereabouts == [Requests -> [at : Stages, on : Insts \cup {NoInst}]]

(* Requests that move within an instance, or leave it, stay where they are *)
(* known to be.                                                            *)
LEMMA MoveShape ==
  ASSUME where \in Whereabouts, NEW S, NEW stage \in Stages
  PROVE  /\ Move(S, stage) \in Whereabouts
         /\ \A r \in Requests : /\ Move(S, stage)[r].on = where[r].on
                                /\ r \in S => Move(S, stage)[r].at = stage
                                /\ r \notin S => Move(S, stage)[r] = where[r]
<1>1. \A r \in Requests : where[r] \in [at : Stages, on : Insts \cup {NoInst}]
  BY DEF Whereabouts
<1>2. \A r \in Requests : (IF r \in S THEN [where[r] EXCEPT !.at = stage] ELSE where[r])
                            \in [at : Stages, on : Insts \cup {NoInst}]
  BY <1>1
<1>3. Move(S, stage) \in Whereabouts BY <1>2 DEF Move, Whereabouts
<1>4. \A r \in Requests : Move(S, stage)[r] = IF r \in S THEN [where[r] EXCEPT !.at = stage]
                                                      ELSE where[r]
  BY DEF Move
<1> QED BY <1>1, <1>3, <1>4

(* A move between two stages on board changes nobody's count. *)
LEMMA MoveOnBoard ==
  ASSUME where \in Whereabouts, NEW S, NEW stage \in {"arriving", "arrived", "queued", "running"},
         NEW i, S \subseteq OnBoard(where, i)
  PROVE  \A j \in Insts : OnBoard(Move(S, stage), j) = OnBoard(where, j)
<1>1. stage \in Stages BY DEF Stages
<1>2. \A r \in Requests : /\ Move(S, stage)[r].on = where[r].on
                          /\ r \in S => Move(S, stage)[r].at = stage
                          /\ r \notin S => Move(S, stage)[r] = where[r]
  BY <1>1, MoveShape
<1>3. \A r \in S : where[r].on = i /\ where[r].at \in {"arriving", "arrived", "queued", "running"}
  BY DEF OnBoard
<1> QED BY <1>2, <1>3 DEF OnBoard

(* A move off board takes the requests off the instance's count. *)
LEMMA MoveOff ==
  ASSUME where \in Whereabouts, NEW S, NEW stage \in {"done", "abandoned"},
         NEW i \in Insts, S \subseteq OnBoard(where, i)
  PROVE  /\ OnBoard(Move(S, stage), i) = OnBoard(where, i) \ S
         /\ \A j \in Insts : j # i => OnBoard(Move(S, stage), j) = OnBoard(where, j)
<1>1. stage \in Stages /\ stage \notin {"arriving", "arrived", "queued", "running"}
  BY DEF Stages
<1>2. \A r \in Requests : /\ Move(S, stage)[r].on = where[r].on
                          /\ r \in S => Move(S, stage)[r].at = stage
                          /\ r \notin S => Move(S, stage)[r] = where[r]
  BY <1>1, MoveShape
<1>3. \A r \in S : where[r].on = i BY DEF OnBoard
<1>4. OnBoard(Move(S, stage), i) = OnBoard(where, i) \ S
  BY <1>1, <1>2 DEF OnBoard
<1>5. \A j \in Insts : j # i => OnBoard(Move(S, stage), j) = OnBoard(where, j)
  BY <1>1, <1>2, <1>3 DEF OnBoard
<1> QED BY <1>4, <1>5

(* ClusterArrivalEvent. *)
LEMMA ClusterArrivalKeeps ==
  ASSUME FleetInv, NEW r \in Requests, ClusterArrival(r)
  PROVE  FleetInv'
<1>1. /\ where[r].at = "client" /\ where' = Move({r}, "admitting")
      /\ UNCHANGED <<placementVars, ist, warm, loadEv, inFlight, clean, scalerVars, ops>>
  BY DEF ClusterArrival
<1>2. where \in Whereabouts /\ "admitting" \in Stages
  BY DEF FleetInv, Shapes, Whereabouts, Stages
<1>3. /\ where' \in Whereabouts
      /\ \A q \in Requests : /\ where'[q].on = where[q].on
                             /\ q = r => where'[q].at = "admitting"
                             /\ q # r => where'[q] = where[q]
  BY <1>1, <1>2, MoveShape
<1>4. \A j \in Insts : OnBoard(where', j) = OnBoard(where, j)
  BY SMTT(60), <1>1, <1>3 DEF OnBoard
<1>5. Counted(inFlight', where', clean') BY <1>1, <1>4, CountSame DEF FleetInv
<1>6. Shapes'
  BY <1>1, <1>3 DEF FleetInv, Shapes, Whereabouts, placementVars, scalerVars
<1> QED BY <1>1, <1>5, <1>6 DEF FleetInv, placementVars, scalerVars

(* RoutingDecisionEvent. *)
LEMMA RouteKeeps ==
  ASSUME FleetInv, NEW r \in Requests, Route(r)
  PROVE  FleetInv'
<1>1. /\ where[r].at = "admitting"
      /\ UNCHANGED <<placementVars, ist, warm, loadEv, clean, scalerVars, ops>>
  BY DEF Route
<1>2. where \in Whereabouts /\ inFlight \in [Insts -> Nat]
      /\ Counted(inFlight, where, clean)
  BY DEF FleetInv, Shapes, Whereabouts
<1>3. /\ where' \in Whereabouts /\ inFlight' \in [Insts -> Nat]
      /\ Counted(inFlight', where', clean)
  <2>1. CASE where' = Move({r}, "rejected") /\ UNCHANGED inFlight
    <3>1. "rejected" \in Stages BY DEF Stages
    <3>2. /\ where' \in Whereabouts
          /\ \A q \in Requests : /\ where'[q].on = where[q].on
                                 /\ q = r => where'[q].at = "rejected"
                                 /\ q # r => where'[q] = where[q]
      BY <1>2, <2>1, <3>1, MoveShape
    <3>3. \A j \in Insts : OnBoard(where', j) = OnBoard(where, j)
      BY <1>1, <3>2 DEF OnBoard
    <3> QED BY <1>2, <2>1, <3>2, <3>3, CountSame
  <2>2. CASE \E i \in RoutableInsts :
               /\ where' = [where EXCEPT ![r] = [at |-> "arriving", on |-> i]]
               /\ inFlight' = [inFlight EXCEPT ![i] = @ + 1]
    <3>1. PICK i \in Insts :
               /\ where' = [where EXCEPT ![r] = [at |-> "arriving", on |-> i]]
               /\ inFlight' = [inFlight EXCEPT ![i] = inFlight[i] + 1]
      BY <2>2 DEF RoutableInsts
    <3>2. [at |-> "arriving", on |-> i] \in [at : Stages, on : Insts \cup {NoInst}]
      BY DEF Stages
    <3>3. /\ where' \in Whereabouts /\ where'[r] = [at |-> "arriving", on |-> i]
          /\ \A q \in Requests : q # r => where'[q] = where[q]
      BY <1>2, <3>1, <3>2 DEF Whereabouts
    <3>4. where'[r].at = "arriving" /\ where'[r].on = i BY <3>3
    <3>5. /\ r \notin OnBoard(where, i)
          /\ OnBoard(where', i) = OnBoard(where, i) \cup {r}
          /\ \A j \in Insts : j # i => OnBoard(where', j) = OnBoard(where, j)
      BY <1>1, <3>3, <3>4 DEF OnBoard
    <3>6. inFlight' \in [Insts -> Nat] /\ Counted(inFlight', where', clean)
      BY ZenonT(60), <1>2, <3>1, <3>5, CountUp
    <3> QED BY <1>1, <3>3, <3>6
  <2> QED BY <2>1, <2>2 DEF Route
<1>4. Shapes'
  BY <1>1, <1>3 DEF FleetInv, Shapes, Whereabouts, placementVars, scalerVars
<1> QED BY <1>1, <1>3, <1>4 DEF FleetInv, placementVars, scalerVars

(* An instance that serves or drains ends and its GPUs are released. *)
LEMMA EndReleases ==
  ASSUME FleetInv, NEW i \in Insts, ist[i] \in {"WarmingUp", "Active", "Draining"},
         ist' = [ist EXCEPT ![i] = "Terminated"], ReleaseInstance(i)
  PROVE  /\ alloc' \in Allocations /\ ist' \in Lives
         /\ cb' \in SUBSET Nodes /\ drainedEv' \in SUBSET Nodes
         /\ Matching(alloc', ist', held) /\ Fitting(ist', held) /\ Waiting(pending, ist')
         /\ Loads(loadEv, ist') /\ NewInOrder(ist')
         /\ Armed(nstate, cb', drainedEv', alloc')
<1>1. /\ Shapes /\ Matching(alloc, ist, held) /\ Fitting(ist, held) /\ Waiting(pending, ist)
      /\ Loads(loadEv, ist) /\ NewInOrder(ist) /\ Armed(nstate, cb, drainedEv, alloc)
  BY DEF FleetInv
<1>2. /\ alloc \in Allocations /\ ist \in Lives
      /\ cb \in SUBSET Nodes /\ drainedEv \in SUBSET Nodes
  BY <1>1 DEF Shapes
<1>3. /\ alloc' = Released(alloc, i)
      /\ cb' = cb \ DrainCompleted(alloc, i)
      /\ drainedEv' = drainedEv \cup DrainCompleted(alloc, i)
  BY DEF ReleaseInstance
<1>4. /\ ist' \in Lives
      /\ Matching(alloc', ist', held) /\ Fitting(ist', held) /\ Waiting(pending, ist')
      /\ NewInOrder(ist')
  BY <1>1, <1>2, <1>3, EndKeeps
<1>5. {j \in Insts : ist'[j] = "Loading"} = {j \in Insts : ist[j] = "Loading"}
  BY <1>2 DEF Lives
<1>6. Loads(loadEv, ist') BY <1>1, <1>5 DEF Loads
<1>7. Armed(nstate, cb', drainedEv', alloc') BY <1>1, <1>3, ReleaseArms
<1>8. alloc' \in Allocations BY <1>2, <1>3, ReleasedShape
<1>9. DrainCompleted(alloc, i) \subseteq Nodes BY <1>2 DEF DrainCompleted
<1> QED BY <1>2, <1>3, <1>4, <1>6, <1>7, <1>8, <1>9

(* What Run does after an instance's event: the requests D of instance i   *)
(* are done, and nobody else's are touched.                                *)
LEMMA AfterEventKeeps ==
  ASSUME FleetInv, NEW i \in Insts, NEW w \in Whereabouts, NEW D, Leaves(where, w, i, D),
         AfterEvent(i, w, Cardinality(D))
  PROVE  FleetInv'
<1> DEFINE m == Cardinality(D)
           warming == ist[i] = "WarmingUp"
           left == IF warming THEN Minus(warm[i], m) ELSE warm[i]
           idle == \A r \in Requests : w[r].on = i => w[r].at \notin {"queued", "running"}
<1>1. /\ where' = w
      /\ inFlight' = [inFlight EXCEPT ![i] = Minus(inFlight[i], m)]
      /\ warm' = [warm EXCEPT ![i] = left]
      /\ UNCHANGED <<nstate, pending, held, loadEv, clean, scalerVars, ops>>
  BY DEF AfterEvent
<1>2. /\ Shapes /\ Matching(alloc, ist, held) /\ Fitting(ist, held) /\ Waiting(pending, ist)
      /\ Loads(loadEv, ist) /\ NewInOrder(ist) /\ Armed(nstate, cb, drainedEv, alloc)
      /\ Counted(inFlight, where, clean)
  BY DEF FleetInv
<1>3. /\ alloc \in Allocations /\ ist \in Lives /\ inFlight \in [Insts -> Nat]
      /\ warm \in [Insts -> 0..WarmUp] /\ cb \in SUBSET Nodes /\ drainedEv \in SUBSET Nodes
  BY <1>2 DEF Shapes
<1>4. m \in Nat BY OnBoardFinite, SubsetFinite DEF Leaves
<1>5. inFlight' \in [Insts -> Nat] /\ Counted(inFlight', where', clean')
  <2>1. m >= Cardinality(D) /\ (i \in clean => m = Cardinality(D)) BY <1>4
  <2> HIDE DEF m, warming, left, idle
  <2>2. /\ inFlight' = [inFlight EXCEPT ![i] = Minus(inFlight[i], m)]
        /\ Leaves(where, where', i, D) /\ clean' \subseteq clean
        /\ i \in clean' => m = Cardinality(D)
    BY <1>1, <2>1
  <2> QED BY <1>2, <1>3, <1>4, <2>1, <2>2, CountDown
<1>6. warm' \in [Insts -> 0..WarmUp]
  <2>1. warm[i] \in 0..WarmUp /\ WarmUp \in Nat BY <1>3, FleetAssumption
  <2>2. Minus(warm[i], m) \in 0..WarmUp
    <3> HIDE DEF m
    <3> QED BY <1>4, <2>1 DEF Minus
  <2>3. left \in 0..WarmUp BY <2>1, <2>2
  <2> HIDE DEF left
  <2> QED BY <1>1, <1>3, <2>3
<1> HIDE DEF m
<1>7. /\ alloc' \in Allocations /\ ist' \in Lives
      /\ cb' \in SUBSET Nodes /\ drainedEv' \in SUBSET Nodes
      /\ Matching(alloc', ist', held') /\ Fitting(ist', held') /\ Waiting(pending', ist')
      /\ Loads(loadEv', ist') /\ NewInOrder(ist')
      /\ Armed(nstate', cb', drainedEv', alloc')
  <2>1. CASE ist[i] = "Draining" /\ idle
    <3>1. ist' = [ist EXCEPT ![i] = "Terminated"] /\ ReleaseInstance(i)
      BY <2>1 DEF AfterEvent
    <3>2. /\ alloc' \in Allocations /\ ist' \in Lives
          /\ cb' \in SUBSET Nodes /\ drainedEv' \in SUBSET Nodes
          /\ Matching(alloc', ist', held) /\ Fitting(ist', held) /\ Waiting(pending, ist')
          /\ Loads(loadEv, ist') /\ NewInOrder(ist')
          /\ Armed(nstate, cb', drainedEv', alloc')
      BY <2>1, <3>1, EndReleases
    <3> QED BY <1>1, <3>2
  <2>2. CASE ~(ist[i] = "Draining" /\ idle)
    <3>1. /\ ist' = [ist EXCEPT ![i] = IF warming /\ left = 0 THEN "Active" ELSE ist[i]]
          /\ UNCHANGED <<alloc, cb, drainedEv>>
      BY <2>2 DEF AfterEvent, m
    <3> HIDE DEF left
    <3>2. ist' \in Lives BY <1>3, <3>1 DEF Lives, InstStates
    <3>3. \A j \in Insts : \/ ist'[j] = ist[j]
                           \/ (ist[j] = "WarmingUp" /\ ist'[j] = "Active")
      <4>1. ist'[i] = IF warming /\ left = 0 THEN "Active" ELSE ist[i]
        BY <1>3, <3>1 DEF Lives
      <4>2. \A j \in Insts : j # i => ist'[j] = ist[j] BY <1>3, <3>1 DEF Lives
      <4> TAKE j \in Insts
      <4>3. CASE j = i
        <5>1. CASE warming /\ left = 0 BY <4>1, <4>3, <5>1
        <5>2. CASE ~(warming /\ left = 0) BY <4>1, <4>3, <5>2
        <5> QED BY <5>1, <5>2
      <4>4. CASE j # i BY <4>2, <4>4
      <4> QED BY <4>3, <4>4
    <3>4. SameBuilt(ist, ist') BY <3>3 DEF SameBuilt
    <3>5. /\ Matching(alloc, ist', held) /\ Fitting(ist', held) /\ Waiting(pending, ist')
          /\ NewInOrder(ist')
      BY <1>2, <3>4, SameBuiltKeeps
    <3>6. {j \in Insts : ist'[j] = "Loading"} = {j \in Insts : ist[j] = "Loading"}
      BY <3>3
    <3>7. Loads(loadEv, ist') BY <1>2, <3>6 DEF Loads
    <3> QED BY <1>1, <1>2, <1>3, <3>1, <3>2, <3>5, <3>7
  <2> QED BY <2>1, <2>2
<1>8. Shapes'
  BY <1>1, <1>2, <1>5, <1>6, <1>7 DEF Shapes, Whereabouts, scalerVars
<1> QED BY <1>5, <1>7, <1>8 DEF FleetInv

(* ArrivalEvent, QueuedEvent and StepEvent of an instance. *)
LEMMA InstanceEventKeeps ==
  ASSUME FleetInv, NEW i \in Insts, InstanceEvent(i)
  PROVE  FleetInv'
<1>1. where \in Whereabouts BY DEF FleetInv, Shapes, Whereabouts
<1>2. ASSUME NEW r \in Requests, NEW from \in {"arriving", "arrived"},
             NEW stage \in {"arrived", "queued"}, r \in On(i, {from}),
             AfterEvent(i, Move({r}, stage), 0)
      PROVE  FleetInv'
  <2>1. stage \in Stages /\ {r} \subseteq OnBoard(where, i)
    BY <1>2 DEF Stages, On, OnBoard
  <2>2. Move({r}, stage) \in Whereabouts BY <1>1, <2>1, MoveShape
  <2>3. \A j \in Insts : OnBoard(Move({r}, stage), j) = OnBoard(where, j)
    BY <1>1, <2>1, MoveOnBoard
  <2>4. Leaves(where, Move({r}, stage), i, {}) BY <2>3 DEF Leaves
  <2>5. AfterEvent(i, Move({r}, stage), Cardinality({})) BY <1>2, FS_EmptySet
  <2> QED BY <2>2, <2>4, <2>5, AfterEventKeeps
<1>3. CASE InstanceArrival(i)
  <2>1. PICK r \in On(i, {"arriving"}) : AfterEvent(i, Move({r}, "arrived"), 0)
    BY <1>3 DEF InstanceArrival
  <2>2. r \in Requests BY DEF On
  <2> QED BY <1>2, <2>1, <2>2
<1>4. CASE InstanceQueued(i)
  <2>1. PICK r \in On(i, {"arrived"}) : AfterEvent(i, Move({r}, "queued"), 0)
    BY <1>4 DEF InstanceQueued
  <2>2. r \in Requests BY DEF On
  <2> QED BY <1>2, <2>1, <2>2
<1>5. CASE InstanceStep(i)
  <2> DEFINE v(fin, adm) == [r \in Requests |->
               IF r \in fin THEN [where[r] EXCEPT !.at = "done"]
               ELSE IF r \in adm THEN [where[r] EXCEPT !.at = "running"] ELSE where[r]]
  <2>1. PICK fin \in SUBSET Batch(i), adm \in SUBSET WaitQ(i) :
               AfterEvent(i, v(fin, adm), Cardinality(fin))
    BY <1>5 DEF InstanceStep
  <2> DEFINE w == v(fin, adm)
  <2>2. \A r \in Requests : where[r] \in [at : Stages, on : Insts \cup {NoInst}]
    BY <1>1 DEF Whereabouts
  <2>3. \A r \in Requests : w[r] \in [at : Stages, on : Insts \cup {NoInst}]
    BY <2>2 DEF Stages
  <2>4. w \in Whereabouts BY <2>3 DEF Whereabouts
  <2>5. \A r \in Requests :
          /\ w[r].on = where[r].on
          /\ r \in fin => w[r].at = "done"
          /\ r \notin fin /\ r \in adm => w[r].at = "running"
          /\ r \notin fin /\ r \notin adm => w[r] = where[r]
    BY <2>2
  <2>6. AfterEvent(i, w, Cardinality(fin)) BY <2>1
  <2> HIDE DEF w
  <2>7. /\ fin \subseteq Requests /\ adm \subseteq Requests
        /\ \A r \in fin : where[r].on = i /\ where[r].at = "running"
        /\ \A r \in adm : where[r].on = i /\ where[r].at = "queued"
    BY DEF Batch, WaitQ, On
  <2>8. Leaves(where, w, i, fin)
    <3>1. fin \subseteq OnBoard(where, i) BY <2>7 DEF OnBoard
    <3>2. OnBoard(w, i) = OnBoard(where, i) \ fin BY <2>5, <2>7 DEF OnBoard
    <3>3. \A j \in Insts : j # i => OnBoard(w, j) = OnBoard(where, j)
      BY <2>5, <2>7 DEF OnBoard
    <3> QED BY <3>1, <3>2, <3>3 DEF Leaves
  <2> QED BY <2>4, <2>6, <2>8, AfterEventKeeps
<1> QED BY <1>3, <1>4, <1>5 DEF InstanceEvent

(* InstanceLoadedEvent. *)
LEMMA InstanceLoadedKeeps ==
  ASSUME FleetInv, NEW i \in Insts, InstanceLoaded(i)
  PROVE  FleetInv'
<1>1. /\ i \in loadEv /\ loadEv' = loadEv \ {i} /\ ist' = [ist EXCEPT ![i] = LoadedState]
      /\ UNCHANGED <<placementVars, warm, requestVars, clean, scalerVars, ops>>
  BY DEF InstanceLoaded
<1>2. /\ Shapes /\ Matching(alloc, ist, held) /\ Fitting(ist, held) /\ Waiting(pending, ist)
      /\ Loads(loadEv, ist) /\ NewInOrder(ist) /\ Armed(nstate, cb, drainedEv, alloc)
      /\ Counted(inFlight, where, clean)
  BY DEF FleetInv
<1>3. ist[i] = "Loading" /\ ist \in Lives BY <1>1, <1>2 DEF Loads, Shapes
<1>4. LoadedState \in {"WarmingUp", "Active"} BY DEF LoadedState
<1>5. ist' \in Lives /\ ist'[i] = LoadedState /\ \A j \in Insts : j # i => ist'[j] = ist[j]
  BY <1>1, <1>3, <1>4 DEF Lives, InstStates
<1>6. SameBuilt(ist, ist') BY <1>3, <1>4, <1>5 DEF SameBuilt
<1>7. /\ Matching(alloc, ist', held) /\ Fitting(ist', held) /\ Waiting(pending, ist')
      /\ NewInOrder(ist')
  BY <1>2, <1>6, SameBuiltKeeps
<1>8. Loads(loadEv', ist') BY <1>1, <1>2, <1>3, <1>4, <1>5 DEF Loads
<1>9. Shapes'
  BY <1>1, <1>2, <1>5 DEF Shapes, placementVars, requestVars, scalerVars
<1> QED BY <1>1, <1>2, <1>7, <1>8, <1>9 DEF FleetInv, placementVars, requestVars, scalerVars

(* ProvisionNode. *)
LEMMA ProvisionNodeKeeps ==
  ASSUME FleetInv, NEW p \in DOMAIN Pools, ProvisionNode(p)
  PROVE  FleetInv'
<1> DEFINE absent == {k \in 1..MaxNodes : nstate[<<p, k>>] = "Absent"}
           k0 == CHOOSE k \in absent : \A m \in absent : k <= m
           n == <<p, k0>>
<1>1. /\ absent # {} /\ nstate' = [nstate EXCEPT ![n] = "Provisioning"]
      /\ ops < MaxOps /\ ops' = ops + 1
      /\ UNCHANGED <<cb, drainedEv, alloc, pending, held, ist, warm, loadEv,
                     requestVars, clean, scalerVars>>
  BY DEF ProvisionNode
<1>2. /\ Shapes /\ Matching(alloc, ist, held) /\ Fitting(ist, held) /\ Waiting(pending, ist)
      /\ Loads(loadEv, ist) /\ NewInOrder(ist) /\ Armed(nstate, cb, drainedEv, alloc)
      /\ Counted(inFlight, where, clean)
  BY DEF FleetInv
<1>3. k0 \in absent
  <2>1. absent \subseteq Nat /\ absent # {} BY <1>1
  <2> HIDE DEF absent
  <2>2. \E k \in absent : \A m \in absent : k <= m BY <2>1, LeastNat
  <2> QED BY <2>2
<1>4. n \in Nodes /\ nstate[n] = "Absent"
  <2>1. k0 \in 1..MaxNodes BY <1>3
  <2> HIDE DEF k0
  <2> QED BY <1>3, <2>1 DEF Nodes
<1> HIDE DEF n, k0, absent
<1>5. /\ nstate' \in [Nodes -> NodeStates] /\ nstate'[n] = "Provisioning"
      /\ \A m \in Nodes : m # n => nstate'[m] = nstate[m]
  BY <1>1, <1>2, <1>4 DEF Shapes, NodeStates
<1>6. \A m \in Nodes : nstate'[m] = "Draining" <=> nstate[m] = "Draining"
  BY <1>4, <1>5
<1>7. Armed(nstate', cb, drainedEv, alloc) BY <1>2, <1>6 DEF Armed
<1>8. ops' \in 0..MaxOps BY <1>1, <1>2, FleetAssumption DEF Shapes
<1>9. Shapes' BY <1>1, <1>2, <1>5, <1>8 DEF Shapes, requestVars, scalerVars
<1> QED BY <1>1, <1>2, <1>7, <1>9 DEF FleetInv, requestVars, scalerVars

\* No instance changes but those that are built.
OnlyBuilt ==
    \A i \in Insts : \/ ist'[i] = ist[i]
                     \/ /\ ist[i] = "Scheduling"
                        /\ ist'[i] \in {"Loading", "WarmingUp", "Active"}

(* NodeReadyEvent: what the pass over the pending list places is built. *)
LEMMA NodeReadyKeeps ==
  ASSUME FleetInv, NEW n \in Nodes, NodeReady(n)
  PROVE  FleetInv' /\ OnlyBuilt
<1> DEFINE ready == ReadyNodes \cup {n}
           s == RetryPending(alloc, ready)
<1>1. /\ nstate[n] = "Provisioning" /\ nstate' = [nstate EXCEPT ![n] = "Ready"]
      /\ alloc' = s.a /\ pending' = s.q /\ AddLiveInstances(s.placed, s.a)
      /\ UNCHANGED <<cb, drainedEv, requestVars, clean, scalerVars, ops>>
  BY DEF NodeReady
<1>2. /\ Shapes /\ Matching(alloc, ist, held) /\ Fitting(ist, held) /\ Waiting(pending, ist)
      /\ Loads(loadEv, ist) /\ NewInOrder(ist) /\ Armed(nstate, cb, drainedEv, alloc)
      /\ Counted(inFlight, where, clean)
  BY DEF FleetInv
<1>3. alloc \in Allocations /\ pending \in Seq(Insts) /\ Distinct(pending)
      /\ nstate \in [Nodes -> NodeStates]
  BY <1>2 DEF Shapes, Waiting
<1>4. ready \in SUBSET Nodes BY DEF ReadyNodes
<1>5. /\ nstate' \in [Nodes -> NodeStates]
      /\ \A m \in Nodes : nstate[m] = "Draining" <=> nstate'[m] = "Draining"
      /\ \A m \in ready : nstate'[m] = "Ready"
  BY <1>1, <1>3 DEF NodeStates, ReadyNodes
<1> HIDE DEF ready
<1>6. \A i \in RangeOf(pending) : i \in Insts /\ Startup(i) /\ ist[i] = "Scheduling"
  BY <1>2 DEF Waiting
<1>7. \A i \in RangeOf(pending) : Own(alloc, i) = {} BY <1>2, <1>6 DEF Matching
<1>8. Passed(alloc, pending, ready, Len(pending), s)
  BY <1>3, <1>4, <1>7, RetriesPassed DEF RetryPending, Allocations
<1> DEFINE S == s.placed
           b == s.a
<1>9. /\ s.q \in Seq(Insts) /\ S \in SUBSET Insts /\ Distinct(s.q)
      /\ RangeOf(s.q) \cap S = {}
      /\ RangeOf(s.q) \cup S = RangeOf(pending)
      /\ Grown(alloc, b, ready, S)
  BY <1>8 DEF Passed, PassState
<1>10. alloc' = b /\ pending' = s.q /\ AddLiveInstances(S, b) BY <1>1
<1> HIDE DEF s, S, b
<1>11. \A i \in S : ist[i] = "Scheduling" BY <1>6, <1>9
<1>12. /\ held' \in [Insts -> SUBSET GPUs] /\ warm' \in [Insts -> 0..WarmUp]
       /\ ist' \in Lives /\ loadEv' \in SUBSET Insts
       /\ \A i \in Insts \ S : ist'[i] = ist[i] /\ held'[i] = held[i]
       /\ \A i \in S : /\ ist'[i] \in {"Loading", "WarmingUp", "Active"}
                              /\ held'[i] = Own(b, i)
       /\ Loads(loadEv', ist')
  <2>1. Shapes /\ S \in SUBSET Insts /\ AddLiveInstances(S, b) /\ Loads(loadEv, ist)
    BY <1>2, <1>9, <1>10
  <2> QED BY <1>11, <2>1, AddLiveShape
<1>13. alloc' \in Allocations /\ Matching(alloc', ist', held') /\ Fitting(ist', held')
  <2>1. alloc \in Allocations /\ S \in SUBSET Insts /\ Grown(alloc, b, ready, S)
    BY <1>3, <1>9
  <2>2. /\ \A i \in Insts \ S : ist'[i] = ist[i] /\ held'[i] = held[i]
        /\ \A i \in S : ist'[i] \in {"Loading", "WarmingUp", "Active"} /\ held'[i] = Own(b, i)
    BY <1>12
  <2>3. Matching(b, ist', held') /\ Fitting(ist', held') /\ b \in Allocations
    BY <1>2, <1>11, <2>1, <2>2, BuildKeeps
  <2> QED BY <1>10, <2>3
<1>14. Armed(nstate', cb, drainedEv, alloc')
  BY <1>2, <1>4, <1>5, <1>9, <1>10, BuildArms
<1>15. Waiting(pending', ist')
  <2>1. \A i \in Insts : /\ i \in S => ist'[i] # "Scheduling"
                         /\ i \notin S => ist'[i] = ist[i]
    BY <1>12
  <2>2. RangeOf(pending) = {i \in Insts : Startup(i) /\ ist[i] = "Scheduling"}
    BY <1>2 DEF Waiting
  <2>3. RangeOf(s.q) = RangeOf(pending) \ S BY <1>9
  <2>4. RangeOf(s.q) = {i \in Insts : Startup(i) /\ ist'[i] = "Scheduling"}
    BY <2>1, <2>2, <2>3
  <2> QED BY <1>9, <1>10, <2>4 DEF Waiting
<1>16. NewInOrder(ist')
  <2>1. \A i \in Insts : ~Startup(i) => ist'[i] = ist[i] BY <1>6, <1>9, <1>12
  <2>2. \A i, j \in Insts : ~Startup(i) /\ i < j => ~Startup(j)
    BY InstsShape, FleetAssumption DEF Startup
  <2> QED BY <1>2, <2>1, <2>2 DEF NewInOrder
<1>17. Shapes'
  BY <1>1, <1>2, <1>5, <1>9, <1>12, <1>13, <1>10 DEF Shapes, requestVars, scalerVars
<1>18. Counted(inFlight', where', clean') BY <1>1, <1>2 DEF requestVars
<1>19. OnlyBuilt BY <1>11, <1>12 DEF OnlyBuilt
<1> QED BY <1>1, <1>12, <1>13, <1>14, <1>15, <1>16, <1>17, <1>18, <1>19 DEF FleetInv

(* DrainNode: an empty node gets its event, another its callback. *)
LEMMA DrainNodeKeeps ==
  ASSUME FleetInv, NEW n \in Nodes, DrainNode(n)
  PROVE  FleetInv'
<1>1. /\ ops < MaxOps /\ nstate[n] = "Ready"
      /\ nstate' = [nstate EXCEPT ![n] = "Draining"]
      /\ ops' = ops + 1
      /\ UNCHANGED <<alloc, pending, held, ist, warm, loadEv, requestVars, clean, scalerVars>>
      /\ allocatedCount(alloc, n) = 0 => drainedEv' = drainedEv \cup {n} /\ cb' = cb
      /\ allocatedCount(alloc, n) # 0 => cb' = cb \cup {n} /\ drainedEv' = drainedEv
  BY DEF DrainNode
<1>2. /\ Shapes /\ Matching(alloc, ist, held) /\ Fitting(ist, held) /\ Waiting(pending, ist)
      /\ Loads(loadEv, ist) /\ NewInOrder(ist) /\ Armed(nstate, cb, drainedEv, alloc)
      /\ Counted(inFlight, where, clean)
  BY DEF FleetInv
<1>3. /\ nstate' \in [Nodes -> NodeStates] /\ nstate'[n] = "Draining"
      /\ \A m \in Nodes : m # n => nstate'[m] = nstate[m]
  BY <1>1, <1>2 DEF Shapes, NodeStates
<1>4. n \notin cb /\ n \notin drainedEv BY <1>1, <1>2 DEF Armed
<1>5. cb' \in SUBSET Nodes /\ drainedEv' \in SUBSET Nodes
  BY <1>1, <1>2 DEF Shapes
<1>6. Armed(nstate', cb', drainedEv', alloc)
  BY <1>1, <1>2, <1>3, <1>4 DEF Armed
<1>7. ops' \in 0..MaxOps BY <1>1, <1>2, FleetAssumption DEF Shapes
<1>8. Shapes'
  BY <1>1, <1>2, <1>3, <1>5, <1>7 DEF Shapes, requestVars, scalerVars
<1> QED BY <1>1, <1>2, <1>6, <1>8 DEF FleetInv, requestVars, scalerVars

(* NodeDrainedEvent: the node is empty, so nothing is freed under an       *)
(* instance, and its callback has fired.                                   *)
LEMMA NodeDrainedKeeps ==
  ASSUME FleetInv, NEW n \in Nodes, NodeDrained(n)
  PROVE  FleetInv'
<1>1. /\ n \in drainedEv
      /\ nstate' = [nstate EXCEPT ![n] = "Terminated"]
      /\ alloc' = [g \in GPUs |-> IF NodeOf(g) = n THEN NoInst ELSE alloc[g]]
      /\ drainedEv' = (drainedEv \ {n}) \cup (cb \cap {n})
      /\ cb' = cb \ {n}
      /\ UNCHANGED <<pending, held, ist, warm, loadEv, requestVars, clean, scalerVars, ops>>
  BY DEF NodeDrained
<1>2. /\ Shapes /\ Matching(alloc, ist, held) /\ Fitting(ist, held) /\ Waiting(pending, ist)
      /\ Loads(loadEv, ist) /\ NewInOrder(ist) /\ Armed(nstate, cb, drainedEv, alloc)
      /\ Counted(inFlight, where, clean)
  BY DEF FleetInv
<1>3. nstate[n] = "Draining" /\ allocatedCount(alloc, n) = 0 /\ n \notin cb
  BY <1>1, <1>2 DEF Armed
<1>4. \A g \in GPUs : NodeOf(g) = n => alloc[g] = NoInst
  <2>1. \A g \in GPUsOf(n) : alloc[g] = NoInst BY <1>3, NoneAllocated
  <2> QED BY <2>1, GPUShape
<1>5. alloc' = alloc
  <2>1. alloc \in [GPUs -> Insts \cup {NoInst}] BY <1>2 DEF Shapes, Allocations
  <2>2. \A g \in GPUs : alloc'[g] = alloc[g] BY <1>1, <1>4
  <2> QED BY <1>1, <2>1, <2>2
<1>6. /\ nstate' \in [Nodes -> NodeStates] /\ nstate'[n] = "Terminated"
      /\ \A m \in Nodes : m # n => nstate'[m] = nstate[m]
  BY <1>1, <1>2 DEF Shapes, NodeStates
<1>7. cb' = cb /\ drainedEv' = drainedEv \ {n} BY <1>1, <1>3
<1>8. Armed(nstate', cb', drainedEv', alloc)
  BY <1>2, <1>3, <1>6, <1>7 DEF Armed
<1>9. Shapes'
  BY <1>1, <1>2, <1>5, <1>6, <1>7 DEF Shapes, requestVars, scalerVars
<1> QED BY <1>1, <1>2, <1>5, <1>8, <1>9 DEF FleetInv, requestVars, scalerVars

(* An instance that serves starts to drain. *)
LEMMA DrainStarts ==
  ASSUME FleetInv, NEW i \in Insts, ist[i] \in {"WarmingUp", "Active"},
         ist' = [ist EXCEPT ![i] = "Draining"]
  PROVE  /\ ist' \in Lives
         /\ Matching(alloc, ist', held) /\ Fitting(ist', held) /\ Waiting(pending, ist')
         /\ Loads(loadEv, ist') /\ NewInOrder(ist')
<1>1. /\ Matching(alloc, ist, held) /\ Fitting(ist, held) /\ Waiting(pending, ist)
      /\ Loads(loadEv, ist) /\ NewInOrder(ist) /\ ist \in Lives
  BY DEF FleetInv, Shapes
<1>2. ist' \in Lives /\ ist'[i] = "Draining" /\ \A j \in Insts : j # i => ist'[j] = ist[j]
  BY <1>1 DEF Lives, InstStates
<1>3. SameBuilt(ist, ist') BY <1>2 DEF SameBuilt
<1>4. {j \in Insts : ist'[j] = "Loading"} = {j \in Insts : ist[j] = "Loading"}
  BY <1>2
<1>5. Loads(loadEv, ist') BY <1>1, <1>4 DEF Loads
<1> QED BY <1>1, <1>2, <1>3, <1>5, SameBuiltKeeps

(* The three drain policies. *)
LEMMA DrainKeeps ==
  ASSUME FleetInv, NEW i \in Insts, drainImmediate(i) \/ drainWait(i) \/ drainRedirect(i)
  PROVE  FleetInv'
<1>1. /\ Shapes /\ Matching(alloc, ist, held) /\ Fitting(ist, held) /\ Waiting(pending, ist)
      /\ Loads(loadEv, ist) /\ NewInOrder(ist) /\ Armed(nstate, cb, drainedEv, alloc)
      /\ Counted(inFlight, where, clean)
  BY DEF FleetInv
<1>2. where \in Whereabouts /\ inFlight \in [Insts -> Nat]
  BY <1>1 DEF Shapes, Whereabouts
<1>3. /\ ops' \in 0..MaxOps /\ ist[i] \in {"WarmingUp", "Active"}
      /\ UNCHANGED <<nstate, pending, held, warm, loadEv, scalerVars>>
  <2>1. \E policy \in {"immediate", "wait", "redirect"} : DrainCall(policy, i)
    BY DEF drainImmediate, drainWait, drainRedirect
  <2> QED BY <1>1, <2>1, FleetAssumption DEF Shapes, DrainCall, IsRoutable
<1>4. /\ WaitQ(i) \subseteq OnBoard(where, i) /\ Batch(i) \subseteq OnBoard(where, i)
      /\ \A r \in Requests : r \in OnBoard(where, i) => where[r].on = i
  BY DEF WaitQ, Batch, On, OnBoard
<1>5. /\ IsFiniteSet(WaitQ(i)) /\ IsFiniteSet(WaitQ(i) \cup Batch(i))
      /\ Cardinality(WaitQ(i)) \in Nat /\ Cardinality(WaitQ(i) \cup Batch(i)) \in Nat
      /\ Cardinality(WaitQ(i) \cup Batch(i)) >= Cardinality(WaitQ(i))
  <2>1. IsFiniteSet(OnBoard(where, i)) BY OnBoardFinite
  <2>2. IsFiniteSet(WaitQ(i) \cup Batch(i)) /\ Cardinality(WaitQ(i) \cup Batch(i)) \in Nat
    BY <1>4, <2>1, SubsetFinite
  <2> QED BY <2>2, SubsetFinite
<1>6. CASE drainImmediate(i)
  <2>1. /\ where' = Move(WaitQ(i), "abandoned")
        /\ inFlight' = [inFlight EXCEPT ![i] =
                          Minus(inFlight[i], Cardinality(WaitQ(i) \cup Batch(i)))]
        /\ ist' = [ist EXCEPT ![i] = "Terminated"] /\ ReleaseInstance(i)
        /\ clean' = clean \ {i}
    BY <1>6 DEF drainImmediate
  <2>2. "abandoned" \in Stages BY DEF Stages
  <2>3. where' \in Whereabouts BY <1>2, <2>1, <2>2, MoveShape
  <2>4. Leaves(where, where', i, WaitQ(i))
    BY <1>2, <1>4, <2>1, MoveOff DEF Leaves
  <2>5. clean' \subseteq clean /\ i \notin clean' BY <2>1
  <2>6. inFlight' \in [Insts -> Nat] /\ Counted(inFlight', where', clean')
    BY <1>1, <1>2, <1>5, <2>1, <2>4, <2>5, CountDown
  <2>7. /\ alloc' \in Allocations /\ ist' \in Lives
        /\ cb' \in SUBSET Nodes /\ drainedEv' \in SUBSET Nodes
        /\ Matching(alloc', ist', held) /\ Fitting(ist', held) /\ Waiting(pending, ist')
        /\ Loads(loadEv, ist') /\ NewInOrder(ist')
        /\ Armed(nstate, cb', drainedEv', alloc')
    BY <1>3, <2>1, EndReleases
  <2>8. Shapes'
    BY <1>1, <1>3, <2>3, <2>6, <2>7 DEF Shapes, Whereabouts, scalerVars
  <2> QED BY <1>3, <2>6, <2>7, <2>8 DEF FleetInv
<1>7. CASE drainWait(i)
  <2>1. UNCHANGED <<requestVars, clean>> BY <1>7 DEF drainWait
  <2>2. CASE WaitQ(i) \cup Batch(i) = {}
    <3>1. ist' = [ist EXCEPT ![i] = "Terminated"] /\ ReleaseInstance(i)
      BY <1>7, <2>2 DEF drainWait
    <3>2. /\ alloc' \in Allocations /\ ist' \in Lives
          /\ cb' \in SUBSET Nodes /\ drainedEv' \in SUBSET Nodes
          /\ Matching(alloc', ist', held) /\ Fitting(ist', held) /\ Waiting(pending, ist')
          /\ Loads(loadEv, ist') /\ NewInOrder(ist')
          /\ Armed(nstate, cb', drainedEv', alloc')
      BY <1>3, <3>1, EndReleases
    <3>3. Shapes' BY <1>1, <1>3, <2>1, <3>2 DEF Shapes, requestVars, scalerVars
    <3> QED BY <1>1, <1>3, <2>1, <3>2, <3>3 DEF FleetInv, requestVars
  <2>3. CASE WaitQ(i) \cup Batch(i) # {}
    <3>1. ist' = [ist EXCEPT ![i] = "Draining"] /\ UNCHANGED <<alloc, cb, drainedEv>>
      BY <1>7, <2>3 DEF drainWait
    <3>2. /\ ist' \in Lives
          /\ Matching(alloc, ist', held) /\ Fitting(ist', held) /\ Waiting(pending, ist')
          /\ Loads(loadEv, ist') /\ NewInOrder(ist')
      BY <1>3, <3>1, DrainStarts
    <3>3. Shapes'
      BY <1>1, <1>3, <2>1, <3>1, <3>2 DEF Shapes, requestVars, scalerVars
    <3> QED BY <1>1, <1>3, <2>1, <3>1, <3>2, <3>3 DEF FleetInv, requestVars
  <2> QED BY <2>2, <2>3
<1>8. CASE drainRedirect(i)
  <2>1. /\ ist' = [ist EXCEPT ![i] = "Draining"]
        /\ where' = [r \in Requests |-> IF r \in WaitQ(i) THEN [at |-> "client", on |-> NoInst]
                                                          ELSE where[r]]
        /\ inFlight' = [inFlight EXCEPT ![i] = Minus(inFlight[i], Cardinality(WaitQ(i)))]
        /\ UNCHANGED <<alloc, cb, drainedEv, clean>>
    BY <1>8 DEF drainRedirect
  <2>2. \A r \in Requests : where[r] \in [at : Stages, on : Insts \cup {NoInst}]
    BY <1>2 DEF Whereabouts
  <2>3. [at |-> "client", on |-> NoInst] \in [at : Stages, on : Insts \cup {NoInst}]
    BY DEF Stages
  <2>4. where' \in Whereabouts BY <2>1, <2>2, <2>3 DEF Whereabouts
  <2>5. \A r \in Requests : /\ r \in WaitQ(i) => where'[r].at = "client"
                            /\ r \notin WaitQ(i) => where'[r] = where[r]
    BY <2>1
  <2>6. Leaves(where, where', i, WaitQ(i))
    <3>1. OnBoard(where', i) = OnBoard(where, i) \ WaitQ(i) BY <2>5 DEF OnBoard
    <3>2. \A r \in WaitQ(i) : r \in Requests /\ where[r].on = i
      BY DEF WaitQ, On
    <3>3. \A j \in Insts : j # i => OnBoard(where', j) = OnBoard(where, j)
      BY <2>5, <3>2 DEF OnBoard
    <3> QED BY <1>4, <3>1, <3>3 DEF Leaves
  <2>7. inFlight' \in [Insts -> Nat] /\ Counted(inFlight', where', clean')
    <3>1. clean' \subseteq clean /\ Cardinality(WaitQ(i)) >= Cardinality(WaitQ(i))
      BY <1>5, <2>1
    <3> QED BY <1>1, <1>2, <1>5, <2>1, <2>6, <3>1, CountDown
  <2>8. /\ ist' \in Lives
        /\ Matching(alloc, ist', held) /\ Fitting(ist', held) /\ Waiting(pending, ist')
        /\ Loads(loadEv, ist') /\ NewInOrder(ist')
    BY <1>3, <2>1, DrainStarts
  <2>9. Shapes'
    BY <1>1, <1>3, <2>1, <2>4, <2>7, <2>8 DEF Shapes, Whereabouts, scalerVars
  <2> QED BY <1>1, <1>3, <2>1, <2>7, <2>8, <2>9 DEF FleetInv
<1> QED BY <1>6, <1>7, <1>8

(* One direction's gate: the first signal it remembers, and when it passes.*)
LEMMA GateShape ==
  ASSUME NEW signal \in BOOLEAN, NEW since \in NoTick..MaxTicks, NEW window \in Nat,
         tick \in 0..MaxTicks
  PROVE  /\ Gate(signal, since, window)[2] \in {NoTick, tick, since}
         /\ Gate(signal, since, window)[1] =>
              /\ signal /\ Gate(signal, since, window)[2] = NoTick
              /\ since = NoTick => window = 0
              /\ since # NoTick => tick - since >= window
         /\ ~signal => Gate(signal, since, window)[2] = NoTick
<1> DEFINE first == IF since = NoTick THEN tick ELSE since
<1>1. first \in Int /\ (since = NoTick => first = tick) /\ (since # NoTick => first = since)
  BY FleetAssumption DEF NoTick
<1> HIDE DEF first
<1>2. CASE ~signal
  <2>1. Gate(signal, since, window) = <<FALSE, NoTick>> BY <1>2 DEF Gate, first
  <2> QED BY <1>2, <2>1
<1>3. CASE signal /\ tick - first < window
  <2>1. Gate(signal, since, window) = <<FALSE, first>> BY <1>3 DEF Gate, first
  <2>2. Gate(signal, since, window)[2] \in {NoTick, tick, since} BY <1>1, <2>1
  <2>3. ~Gate(signal, since, window)[1] BY <2>1
  <2> QED BY <1>3, <2>2, <2>3
<1>4. CASE signal /\ ~(tick - first < window)
  <2>1. Gate(signal, since, window) = <<TRUE, NoTick>> BY <1>4 DEF Gate, first
  <2>2. tick - first >= window BY <1>1, <1>4
  <2>3. /\ since = NoTick => window = 0
        /\ since # NoTick => tick - since >= window
    BY <1>1, <2>2
  <2>4. Gate(signal, since, window)[2] = NoTick BY <2>1
  <2> QED BY <1>4, <2>3, <2>4
<1> QED BY <1>2, <1>3, <1>4

(* ScalingTickEvent. *)
LEMMA ScalingTickKeeps ==
  ASSUME FleetInv, ScalingTick
  PROVE  FleetInv'
<1> DEFINE d == Optimize
           up == d.delta > 0
           down == d.delta < 0
<1>1. /\ tick # NoTick /\ tick < MaxTicks
      /\ upSince' = Gate(up, upSince, UpWindow)[2]
      /\ downSince' = Gate(down, downSince, DownWindow)[2]
      /\ \E delay \in ScrapeDelays :
            \/ acts' = acts \cup {[at |-> tick + delay, pool |-> d.pool, delta |-> d.delta]}
            \/ acts' = acts
      /\ tick' \in {tick + 1, NoTick}
      /\ UNCHANGED <<placementVars, ist, warm, loadEv, requestVars, clean, ops>>
  BY DEF ScalingTick
<1>2. /\ tick \in NoTick..MaxTicks /\ upSince \in NoTick..MaxTicks
      /\ downSince \in NoTick..MaxTicks
      /\ \A x \in acts : x.at \in Nat /\ x.delta \in Int
  BY DEF FleetInv, Shapes
<1>3. tick \in 0..MaxTicks /\ tick' \in NoTick..MaxTicks
  BY <1>1, <1>2, FleetAssumption DEF NoTick
<1>4. up \in BOOLEAN /\ down \in BOOLEAN OBVIOUS
<1>5. d.delta \in Int BY OptimizeFits
<1> HIDE DEF up, down, d
<1>6. upSince' \in NoTick..MaxTicks /\ downSince' \in NoTick..MaxTicks
  <2>1. Gate(up, upSince, UpWindow)[2] \in {NoTick, tick, upSince}
    BY <1>2, <1>3, <1>4, GateShape, FleetAssumption
  <2>2. Gate(down, downSince, DownWindow)[2] \in {NoTick, tick, downSince}
    BY <1>2, <1>3, <1>4, GateShape, FleetAssumption
  <2>3. tick \in NoTick..MaxTicks /\ NoTick \in NoTick..MaxTicks
    BY <1>3, FleetAssumption DEF NoTick
  <2> QED BY <1>1, <1>2, <2>1, <2>2, <2>3
<1>7. \A x \in acts' : x.at \in Nat /\ x.delta \in Int
  <2>1. PICK delay \in ScrapeDelays :
          \/ acts' = acts \cup {[at |-> tick + delay, pool |-> d.pool, delta |-> d.delta]}
          \/ acts' = acts
    BY <1>1
  <2>2. tick + delay \in Nat BY <1>3, FleetAssumption
  <2> DEFINE e == [at |-> tick + delay, pool |-> d.pool, delta |-> d.delta]
  <2>3. e.at \in Nat /\ e.delta \in Int BY <1>5, <2>2
  <2>4. \A x \in acts' : x \in acts \/ x = e BY <2>1
  <2> HIDE DEF e
  <2> QED BY <1>2, <2>3, <2>4
<1>8. Shapes'
  BY <1>1, <1>3, <1>6, <1>7 DEF FleetInv, Shapes, placementVars, requestVars
<1> QED BY <1>1, <1>8 DEF FleetInv, placementVars, requestVars

\* How many identifiers are left, and the last one that is taken.
Room == Cardinality(NewIds)
LastTaken == NumInstances + MaxAuto - Room

(* The identifiers left for the autoscaler are the last ones. *)
LEMMA NewIdsTail ==
  ASSUME NewInOrder(ist)
  PROVE  Room \in Nat /\ LastTaken \in Nat /\ (LastTaken + 1)..(LastTaken + Room) = NewIds
<1> DEFINE T == NumInstances + MaxAuto
<1>1. T \in Nat /\ Insts = 1..T /\ (Room \in Int => LastTaken = T - Room)
  BY FleetAssumption DEF Insts, LastTaken
<1>2. NewIds \subseteq Insts /\ \A i \in Insts : i \in NewIds <=> ~Startup(i) /\ ist[i] = "Scheduling"
  BY DEF NewIds
<1> HIDE DEF T
<1>3. CASE NewIds = {}
  <2>1. Room = 0 BY <1>3, FS_EmptySet DEF Room
  <2>2. LastTaken = T BY <1>1, <2>1
  <2>3. (LastTaken + 1)..(LastTaken + Room) = {} BY <1>1, <2>1, <2>2
  <2> QED BY <1>1, <1>3, <2>1, <2>2, <2>3
<1>4. CASE NewIds # {}
  <2>1. PICK x \in NewIds : \A y \in NewIds : x <= y
    <3>1. NewIds \subseteq Nat BY <1>1, <1>2
    <3> QED BY <1>4, <3>1, LeastNat
  <2>2. x \in 1..T /\ ~Startup(x) /\ ist[x] = "Scheduling" BY <1>1, <1>2, <2>1
  <2>3. ASSUME NEW j \in Insts, x <= j PROVE j \in NewIds
    <3>1. ~Startup(j) BY <1>1, <2>2, <2>3, FleetAssumption DEF Startup
    <3>2. ist[j] = "Scheduling" BY <1>1, <2>2, <2>3 DEF NewInOrder
    <3> QED BY <1>2, <3>1, <3>2
  <2>4. NewIds = x..T
    <3>1. \A j \in NewIds : j \in x..T BY <1>1, <1>2, <2>1, <2>2
    <3>2. \A j \in x..T : j \in Insts /\ x <= j BY <1>1, <2>2
    <3> QED BY <2>3, <3>1, <3>2
  <2>5. Room = T - x + 1 BY <1>1, <2>2, <2>4, FS_Interval DEF Room
  <2>6. LastTaken = x - 1 /\ Room \in Nat /\ LastTaken \in Nat /\ LastTaken + Room = T /\ LastTaken + 1 = x
    BY <1>1, <2>2, <2>5
  <2> QED BY <2>4, <2>6
<1> QED BY <1>3, <1>4

(* A scale-up that is applied. *)
LEMMA ScaleUpKeeps ==
  ASSUME FleetInv, NEW p, NEW delta \in Nat, ScaleUp(p, delta),
         \A x \in acts' : x \in acts,
         UNCHANGED <<nstate, cb, drainedEv, pending, requestVars, clean,
                     tick, upSince, downSince, ops>>
  PROVE  FleetInv' /\ OnlyBuilt
<1> DEFINE ready == {n \in ReadyNodes : n[1] = p}
           new == Additions(alloc, ready, LastTaken, Room, delta)[delta]
<1>1. /\ alloc' = new.a
      /\ AddLiveInstances((LastTaken + 1)..(LastTaken + new.n), new.a)
  BY DEF ScaleUp, LastTaken, Room
<1>2. /\ Shapes /\ Matching(alloc, ist, held) /\ Fitting(ist, held) /\ Waiting(pending, ist)
      /\ Loads(loadEv, ist) /\ NewInOrder(ist) /\ Armed(nstate, cb, drainedEv, alloc)
      /\ Counted(inFlight, where, clean)
  BY DEF FleetInv
<1>3. ready \in SUBSET Nodes /\ \A n \in ready : nstate[n] = "Ready"
  BY DEF ReadyNodes
<1> HIDE DEF ready
<1>4. Room \in Nat /\ LastTaken \in Nat /\ (LastTaken + 1)..(LastTaken + Room) = NewIds
  BY <1>2, NewIdsTail
<1>5. \A i \in NewIds : i \in Insts /\ ~Startup(i) /\ ist[i] = "Scheduling"
  BY DEF NewIds
<1>6. \A i \in NewIds : Own(alloc, i) = {} BY <1>2, <1>5 DEF Matching
<1>7. alloc \in Allocations BY <1>2 DEF Shapes
<1>8. Added(alloc, ready, LastTaken, Room, new)
  BY <1>3, <1>4, <1>5, <1>6, <1>7, AdditionsAdded DEF Allocations
<1> DEFINE S == (LastTaken + 1)..(LastTaken + new.n)
           b == new.a
<1>9. new.n \in Nat /\ new.n <= Room /\ Grown(alloc, b, ready, S)
  BY <1>8 DEF Added, AddState
<1>10. alloc' = b /\ AddLiveInstances(S, b) BY <1>1
<1>11. S \subseteq NewIds /\ \A i \in NewIds, j \in S : i < j => i \in S
  <2>1. \A i \in S : i \in (LastTaken + 1)..(LastTaken + Room) BY SMTT(60), <1>4, <1>9
  <2>2. ASSUME NEW i \in (LastTaken + 1)..(LastTaken + Room), NEW j \in S, i < j
        PROVE  i \in S
    BY SMTT(60), <1>4, <1>9, <2>2
  <2> HIDE DEF S
  <2> QED BY <1>4, <2>1, <2>2
<1> HIDE DEF new, S, b
<1>12. /\ S \in SUBSET Insts /\ \A i \in S : ist[i] = "Scheduling" /\ ~Startup(i)
  BY <1>5, <1>11
<1>13. /\ held' \in [Insts -> SUBSET GPUs] /\ warm' \in [Insts -> 0..WarmUp]
       /\ ist' \in Lives /\ loadEv' \in SUBSET Insts
       /\ \A i \in Insts \ S : ist'[i] = ist[i] /\ held'[i] = held[i]
       /\ \A i \in S : /\ ist'[i] \in {"Loading", "WarmingUp", "Active"}
                       /\ held'[i] = Own(b, i)
       /\ Loads(loadEv', ist')
  BY <1>2, <1>10, <1>12, AddLiveShape
<1>14. alloc' \in Allocations /\ Matching(alloc', ist', held') /\ Fitting(ist', held')
  <2>1. \A i \in S : ist[i] = "Scheduling" BY <1>12
  <2>2. /\ \A i \in Insts \ S : ist'[i] = ist[i] /\ held'[i] = held[i]
        /\ \A i \in S : ist'[i] \in {"Loading", "WarmingUp", "Active"} /\ held'[i] = Own(b, i)
    BY <1>13
  <2>3. Matching(b, ist', held') /\ Fitting(ist', held') /\ b \in Allocations
    BY <1>2, <1>7, <1>9, <1>12, <2>1, <2>2, BuildKeeps
  <2> QED BY <1>10, <2>3
<1>15. Armed(nstate', cb', drainedEv', alloc')
  <2>1. Armed(nstate, cb, drainedEv, b) BY <1>2, <1>3, <1>9, BuildArms
  <2> QED BY <1>10, <2>1
<1>16. Waiting(pending', ist')
  <2>1. \A i \in Insts : Startup(i) => ist'[i] = ist[i] BY <1>12, <1>13
  <2>2. {i \in Insts : Startup(i) /\ ist'[i] = "Scheduling"}
          = {i \in Insts : Startup(i) /\ ist[i] = "Scheduling"}
    BY <2>1
  <2> QED BY <1>2, <2>2 DEF Waiting
<1>17. NewInOrder(ist')
  <2> SUFFICES ASSUME NEW i \in Insts, NEW j \in Insts, ~Startup(i), i < j,
                      ist'[j] # "Scheduling"
               PROVE  ist'[i] # "Scheduling"
    BY DEF NewInOrder
  <2>1. CASE i \in S BY <1>13, <2>1
  <2>2. CASE i \notin S /\ j \in S
    <3>1. i \notin NewIds BY <1>11, <2>2
    <3>2. ist[i] # "Scheduling" BY <3>1 DEF NewIds
    <3> QED BY <1>13, <2>2, <3>2
  <2>3. CASE i \notin S /\ j \notin S
    <3>1. ist[j] # "Scheduling" BY <1>13, <2>3
    <3>2. ist[i] # "Scheduling" BY <1>2, <3>1 DEF NewInOrder
    <3> QED BY <1>13, <2>3, <3>2
  <2> QED BY <2>1, <2>2, <2>3
<1>18. Shapes' BY <1>2, <1>13, <1>14 DEF Shapes, requestVars
<1>19. Counted(inFlight', where', clean') BY <1>2 DEF requestVars
<1>20. OnlyBuilt BY <1>12, <1>13 DEF OnlyBuilt
<1> QED BY <1>13, <1>14, <1>15, <1>16, <1>17, <1>18, <1>19, <1>20 DEF FleetInv

(* ScaleActuationEvent. *)
LEMMA ActuateKeeps ==
  ASSUME FleetInv, NEW x \in acts, Actuate(x)
  PROVE  FleetInv'
<1>1. /\ acts' = acts \ {x}
      /\ UNCHANGED <<nstate, cb, drainedEv, pending, requestVars, clean,
                     tick, upSince, downSince, ops>>
  BY DEF Actuate
<1>2. /\ Shapes /\ Matching(alloc, ist, held) /\ Fitting(ist, held) /\ Waiting(pending, ist)
      /\ Loads(loadEv, ist) /\ NewInOrder(ist) /\ Armed(nstate, cb, drainedEv, alloc)
      /\ Counted(inFlight, where, clean)
  BY DEF FleetInv
<1>3. CASE x.delta > 0
  <2>1. ScaleUp(x.pool, x.delta) BY <1>3 DEF Actuate
  <2>2. x.delta \in Nat BY <1>2, <1>3 DEF Shapes
  <2> QED BY <1>1, <2>1, <2>2, ScaleUpKeeps
<1>4. CASE ~(x.delta > 0)
  <2> DEFINE D == findOldestActive(ActiveOf(x.pool), -x.delta)
  <2>1. /\ ist' = [i \in Insts |-> IF i \in D THEN "Draining" ELSE ist[i]]
        /\ UNCHANGED <<alloc, held, warm, loadEv>>
    BY <1>4 DEF Actuate, ScaleDown
  <2>2. \A i \in D : ist[i] = "Active" BY DEF findOldestActive, ActiveOf
  <2> HIDE DEF D
  <2>3. ist' \in Lives BY <1>2, <2>1 DEF Shapes, Lives, InstStates
  <2>4. \A i \in Insts : \/ ist'[i] = ist[i]
                         \/ (ist[i] = "Active" /\ ist'[i] = "Draining")
    BY <2>1, <2>2
  <2>5. SameBuilt(ist, ist') BY <2>4 DEF SameBuilt
  <2>6. /\ Matching(alloc, ist', held) /\ Fitting(ist', held) /\ Waiting(pending, ist')
        /\ NewInOrder(ist')
    BY <1>2, <2>5, SameBuiltKeeps
  <2>7. {i \in Insts : ist'[i] = "Loading"} = {i \in Insts : ist[i] = "Loading"}
    BY <2>4
  <2>8. Loads(loadEv, ist') BY <1>2, <2>7 DEF Loads
  <2>9. Shapes' BY <1>1, <1>2, <2>1, <2>3 DEF Shapes, requestVars
  <2> QED BY <1>1, <1>2, <2>1, <2>6, <2>8, <2>9 DEF FleetInv, requestVars
<1> QED BY <1>3, <1>4

------------------------------
(* The start of the simulation. *)

(* What start-up placement leaves. *)
LEMMA StartupOwn ==
  /\ Startup0.a \in Allocations /\ Startup0.q \in Seq(Insts) /\ Distinct(Startup0.q)
  /\ RangeOf(Startup0.q) \subseteq {i \in Insts : Startup(i)}
  /\ \A g \in GPUs : Startup0.a[g] # NoInst => NodeOf(g) \in InitialNodes
  /\ \A i \in Insts : IF Startup(i) /\ i \notin RangeOf(Startup0.q)
                      THEN Fits(Own(Startup0.a, i)) ELSE Own(Startup0.a, i) = {}
<1> DEFINE s == Startup0
           S == (1..NumInstances) \ RangeOf(s.q)
<1>1. Started(NumInstances, s) BY StartupStarted
<1> HIDE DEF s
<1>2. /\ s.a \in Allocations /\ s.q \in Seq(Insts) /\ Distinct(s.q)
      /\ RangeOf(s.q) \subseteq 1..NumInstances
      /\ \A g \in GPUs : \/ s.a[g] = NoAlloc[g]
                         \/ (NoAlloc[g] = NoInst /\ s.a[g] \in S /\ NodeOf(g) \in InitialNodes)
      /\ \A i \in S : Fits(Own(s.a, i))
  BY <1>1 DEF Started, StartState, Grown, Allocations
<1>3. \A i \in Insts : i \in 1..NumInstances <=> Startup(i)
  BY FleetAssumption DEF Insts, Startup
<1>4. 1..NumInstances \subseteq Insts BY FleetAssumption DEF Insts
<1>5. RangeOf(s.q) \subseteq {i \in Insts : Startup(i)} BY <1>2, <1>3, <1>4
<1>6. \A g \in GPUs : NoAlloc[g] = NoInst BY DEF NoAlloc
<1>7. \A g \in GPUs : s.a[g] # NoInst => NodeOf(g) \in InitialNodes
  BY <1>2, <1>6
<1>8. \A i \in Insts : i \in S <=> Startup(i) /\ i \notin RangeOf(s.q) BY <1>3
<1>9. \A i \in Insts : i \notin S => Own(s.a, i) = {}
  BY <1>2, <1>6, InstsShape DEF Own
<1> HIDE DEF S
<1> QED BY <1>2, <1>5, <1>7, <1>8, <1>9 DEF s

(* The initial states. *)
LEMMA FleetInit == Init => FleetInv
<1> SUFFICES ASSUME Init PROVE FleetInv OBVIOUS
<1> DEFINE a == Startup0.a
           q == Startup0.q
           built == {i \in Insts : \E g \in GPUs : a[g] = i}
<1>1. /\ nstate = [n \in Nodes |-> IF n \in InitialNodes THEN "Ready" ELSE "Absent"]
      /\ cb = {} /\ drainedEv = {} /\ alloc = a /\ pending = q
      /\ held = [i \in Insts |-> {g \in GPUs : a[g] = i}]
      /\ ist = [i \in Insts |-> IF i \notin built THEN "Scheduling"
                                ELSE IF WarmStart THEN LoadedState ELSE "Loading"]
      /\ loadEv = IF WarmStart THEN {} ELSE built
      /\ warm = [i \in Insts |-> IF i \in built THEN WarmUp ELSE 0]
      /\ inFlight = [i \in Insts |-> 0]
      /\ where = [r \in Requests |-> [at |-> "client", on |-> NoInst]]
      /\ tick = 0 /\ upSince = NoTick /\ downSince = NoTick
      /\ acts = {} /\ ops = 0
  BY DEF Init
<1>2. /\ a \in Allocations /\ q \in Seq(Insts) /\ Distinct(q)
      /\ RangeOf(q) \subseteq {i \in Insts : Startup(i)}
      /\ \A i \in Insts : /\ Startup(i) /\ i \notin RangeOf(q) => Fits(Own(a, i))
                          /\ ~(Startup(i) /\ i \notin RangeOf(q)) => Own(a, i) = {}
  BY StartupOwn
<1> HIDE DEF a, q
<1>3. \A i \in Insts : i \in built <=> Own(a, i) # {} BY DEF Own
<1>4. \A i \in Insts : Fits(Own(a, i)) => Own(a, i) # {}
  BY FS_EmptySet, FleetAssumption DEF Fits
<1>5. \A i \in Insts : i \in built <=> Startup(i) /\ i \notin RangeOf(q)
  BY <1>2, <1>3, <1>4
<1>6. built \in SUBSET Insts OBVIOUS
<1> HIDE DEF built
<1>7. LoadedState \in {"WarmingUp", "Active"} BY DEF LoadedState
<1>8. /\ ist \in Lives
      /\ \A i \in Insts : /\ i \notin built => ist[i] = "Scheduling"
                          /\ i \in built /\ WarmStart => ist[i] = LoadedState
                          /\ i \in built /\ ~WarmStart => ist[i] = "Loading"
  BY <1>1, <1>7 DEF Lives, InstStates
<1>9. \A i \in Insts : /\ i \in built <=> ist[i] # "Scheduling"
                       /\ ist[i] # "Terminated"
                       /\ held[i] = Own(a, i)
  BY <1>1, <1>7, <1>8 DEF Own
<1>10. Shapes
  <2>1. nstate \in [Nodes -> NodeStates] BY <1>1 DEF NodeStates
  <2>2. held \in [Insts -> SUBSET GPUs] /\ warm \in [Insts -> 0..WarmUp]
    BY <1>1, FleetAssumption
  <2>3. where \in [Requests -> [at : Stages, on : Insts \cup {NoInst}]]
    BY <1>1 DEF Stages
  <2>4. inFlight \in [Insts -> Nat] /\ loadEv \in SUBSET Insts BY <1>1, <1>6
  <2>5. /\ tick \in NoTick..MaxTicks /\ upSince \in NoTick..MaxTicks
        /\ downSince \in NoTick..MaxTicks /\ ops \in 0..MaxOps
    BY <1>1, FleetAssumption DEF NoTick
  <2> QED BY <1>1, <1>2, <1>8, <2>1, <2>2, <2>3, <2>4, <2>5 DEF Shapes
<1>11. Matching(alloc, ist, held)
  <2>1. \A i \in Insts : ist[i] = "Scheduling" => Own(a, i) = {} BY <1>3, <1>9
  <2> QED BY <1>1, <1>9, <2>1 DEF Matching
<1>12. Fitting(ist, held) BY <1>2, <1>5, <1>9 DEF Fitting
<1>13. Waiting(pending, ist)
  <2>1. RangeOf(q) = {i \in Insts : Startup(i) /\ ist[i] = "Scheduling"}
    BY <1>2, <1>5, <1>9
  <2> QED BY <1>1, <1>2, <2>1 DEF Waiting
<1>14. Loads(loadEv, ist)
  <2>1. CASE WarmStart BY <1>1, <1>7, <1>8, <2>1 DEF Loads
  <2>2. CASE ~WarmStart
    <3>1. \A i \in Insts : i \in built <=> ist[i] = "Loading" BY <1>8, <2>2
    <3> QED BY <1>1, <1>6, <2>2, <3>1 DEF Loads
  <2> QED BY <2>1, <2>2
<1>15. NewInOrder(ist)
  <2>1. \A i, j \in Insts : ~Startup(i) /\ i < j => ~Startup(j)
    BY InstsShape, FleetAssumption DEF Startup
  <2> QED BY <1>5, <1>9, <2>1 DEF NewInOrder
<1>16. Armed(nstate, cb, drainedEv, alloc) BY <1>1 DEF Armed
<1>17. Counted(inFlight, where, clean)
  <2>1. \A r \in Requests : where[r].at = "client" BY <1>1
  <2>2. \A i \in Insts : OnBoard(where, i) = {} BY <2>1 DEF OnBoard
  <2>3. \A i \in Insts : inFlight[i] = 0 BY <1>1
  <2> QED BY <2>2, <2>3, FS_EmptySet DEF Counted
<1> QED BY <1>10, <1>11, <1>12, <1>13, <1>14, <1>15, <1>16, <1>17 DEF FleetInv

(* A step that changes nothing. *)
LEMMA FleetStutter == FleetInv /\ UNCHANGED vars => FleetInv'
<1> SUFFICES ASSUME FleetInv, UNCHANGED vars PROVE FleetInv' OBVIOUS
<1>1. Shapes'
  BY DEF FleetInv, Shapes, vars, placementVars, requestVars, scalerVars
<1> QED BY <1>1 DEF FleetInv, vars, placementVars, requestVars, scalerVars

(* The inductive invariant of the fleet: a GPU is allocated to an instance *)
(* exactly while it lives, every instance built has TP GPUs on one node or *)
(* on whole nodes of one pool, the pending list is the start-up instances  *)
(* not built, each once, a draining node waits for its callback or for its *)
(* event, and the in-flight counts are those of the requests on board.     *)
THEOREM FleetInvariant == Spec => []FleetInv
<1>1. Init => FleetInv BY FleetInit
<1>2. FleetInv /\ [Next]_vars => FleetInv'
  <2> SUFFICES ASSUME FleetInv, [Next]_vars PROVE FleetInv' OBVIOUS
  <2>1. CASE Event
    <3>1. ASSUME NEW r \in Requests, ClusterArrival(r) \/ Route(r) PROVE FleetInv'
      BY <3>1, ClusterArrivalKeeps, RouteKeeps
    <3>2. ASSUME NEW i \in Insts, InstanceEvent(i) \/ InstanceLoaded(i) PROVE FleetInv'
      BY <3>2, InstanceEventKeeps, InstanceLoadedKeeps
    <3>3. ASSUME NEW n \in Nodes, NodeReady(n) \/ NodeDrained(n) PROVE FleetInv'
      BY <3>3, NodeReadyKeeps, NodeDrainedKeeps
    <3>4. CASE ScalingTick BY <3>4, ScalingTickKeeps
    <3>5. ASSUME NEW x \in acts, Actuate(x) PROVE FleetInv'
      BY <3>5, ActuateKeeps
    <3> QED BY <2>1, <3>1, <3>2, <3>3, <3>4, <3>5 DEF Event
  <2>2. CASE OperatorCall
    <3>1. ASSUME NEW p \in DOMAIN Pools, ProvisionNode(p) PROVE FleetInv'
      BY <3>1, ProvisionNodeKeeps
    <3>2. ASSUME NEW n \in Nodes, DrainNode(n) PROVE FleetInv'
      BY <3>2, DrainNodeKeeps
    <3>3. ASSUME NEW i \in Insts, drainImmediate(i) \/ drainWait(i) \/ drainRedirect(i)
          PROVE  FleetInv'
      BY <3>3, DrainKeeps
    <3> QED BY <2>2, <3>1, <3>2, <3>3 DEF OperatorCall
  <2>3. CASE UNCHANGED vars BY <2>3, FleetStutter
  <2> QED BY <2>1, <2>2, <2>3 DEF Next
<1> QED BY <1>1, <1>2, PTL DEF Spec

------------------------------
(* FleetExact follows. *)

(* A list without repetition is as long as the set of its elements. *)
LEMMA DistinctLength ==
  ASSUME NEW S, NEW q \in Seq(S), Distinct(q)
  PROVE  /\ {q[k] : k \in DOMAIN q} = RangeOf(q)
         /\ Len(q) = Cardinality(RangeOf(q))
<1> DEFINE n == Len(q)
           R == RangeOf(q)
           f == [k \in 1..n |-> q[k]]
<1>1. n \in Nat /\ DOMAIN q = 1..n BY LenProperties
<1>2. \A k \in 1..n : f[k] \in R BY DEF RangeOf
<1>3. \A x \in R : \E k \in 1..n : f[k] = x BY DEF RangeOf
<1>4. \A j, k \in 1..n : f[j] = f[k] => j = k BY DEF Distinct
<1>5. f \in [1..n -> R] BY <1>2
<1>6. {q[k] : k \in DOMAIN q} = R BY <1>1 DEF RangeOf
<1> HIDE DEF f, R, n
<1>7. f \in Bijection(1..n, R)
  BY <1>3, <1>4, <1>5 DEF Bijection, Injection, IsInjective, Surjection
<1>8. ExistsBijection(1..n, R) BY <1>7 DEF ExistsBijection
<1>9. Cardinality(R) = n BY <1>1, <1>8, FS_CountingElements, FS_NatBijection
<1> QED BY <1>6, <1>9 DEF R, n

(* What FleetInv says, in the words of the run. *)
LEMMA FleetInvExact == FleetInv => FleetExact
<1> SUFFICES ASSUME FleetInv PROVE FleetExact OBVIOUS
<1>1. /\ Shapes /\ Matching(alloc, ist, held) /\ Fitting(ist, held) /\ Waiting(pending, ist)
      /\ Armed(nstate, cb, drainedEv, alloc) /\ Counted(inFlight, where, clean)
  BY DEF FleetInv
<1>2. TypeOK
  <2>1. inFlight \in [Insts -> 0..Cardinality(Requests)]
    <3>1. \A i \in Insts : /\ inFlight[i] \in Nat
                           /\ inFlight[i] <= Cardinality(OnBoard(where, i))
      BY <1>1 DEF Shapes, Counted
    <3>2. \A i \in Insts : inFlight[i] \in 0..Cardinality(Requests)
      <4> TAKE i \in Insts
      <4>1. /\ Cardinality(OnBoard(where, i)) \in Nat
            /\ Cardinality(OnBoard(where, i)) <= Cardinality(Requests)
            /\ Cardinality(Requests) \in Nat
        BY OnBoardFinite, FS_CardinalityType, FleetAssumption
      <4> QED BY <3>1, <4>1
    <3> QED BY <1>1, <3>2 DEF Shapes
  <2>2. \A r \in Requests : where[r].at \in Stages /\ where[r].on \in Insts \cup {NoInst}
    BY <1>1 DEF Shapes
  <2> QED BY <1>1, <2>1, <2>2
          DEF TypeOK, Shapes, NodeStates, InstStates, Stages, Lives, Allocations
<1>3. GPUsMatchInstances
  <2>1. \A i \in Insts : Own(alloc, i) = IF Live(i) THEN held[i] ELSE {}
    BY <1>1 DEF Matching, Live
  <2> QED BY <2>1 DEF GPUsMatchInstances, Own
<1>4. UniformSpan BY <1>1 DEF UniformSpan, Fitting, Fits, Spans
<1>5. PendingExact
  <2>1. pending \in Seq(Insts) /\ Distinct(pending)
        /\ RangeOf(pending) = {i \in Insts : Startup(i) /\ ist[i] = "Scheduling"}
    BY <1>1 DEF Shapes, Waiting
  <2>2. /\ {pending[k] : k \in DOMAIN pending} = RangeOf(pending)
        /\ Len(pending) = Cardinality(RangeOf(pending))
    BY <2>1, DistinctLength
  <2> QED BY <2>1, <2>2 DEF PendingExact
<1>6. DrainArmedOnce
  <2> SUFFICES ASSUME NEW n \in Nodes
               PROVE  IF nstate[n] = "Draining"
                      THEN IF allocatedCount(alloc, n) > 0 THEN n \in cb /\ n \notin drainedEv
                                                           ELSE n \notin cb /\ n \in drainedEv
                      ELSE n \notin cb \cup drainedEv
    BY DEF DrainArmedOnce
  <2>1. allocatedCount(alloc, n) > 0 <=> allocatedCount(alloc, n) # 0
    BY AllocatedNat
  <2> QED BY <1>1, <2>1 DEF Armed
<1>7. InFlightExact
  <2>1. \A i \in Insts : Aboard(i) = OnBoard(where, i)
    BY DEF Aboard, On, OnBoard
  <2> QED BY <1>1, <2>1 DEF InFlightExact, Counted
<1> QED BY <1>2, <1>3, <1>4, <1>5, <1>6, <1>7 DEF FleetExact

(* Placement, life cycle and routing agree on the fleet, in every state of *)
(* every fleet: no GPU is leaked, freed under an instance or given to two, *)
(* none is a fragment of a second node, no pending placement is lost, no   *)
(* drain is stuck, and no count is off.                                    *)
THEOREM FleetFleetExact == Spec => []FleetExact
<1> QED BY FleetInvariant, FleetInvExact, PTL

------------------------------
(* The autoscaler's inventory. *)

(* An instance's GPUs are of one pool. *)
LEMMA OnePool ==
  ASSUME NEW G \in SUBSET GPUs, Fits(G), NEW g \in G, NEW h \in G
  PROVE  g[1] = h[1]
<1> DEFINE N == distinctNodesForGPUs(G)
           P == {n[1] : n \in N}
<1>1. /\ NodeOf(g) \in N /\ NodeOf(h) \in N
      /\ NodeOf(g)[1] = g[1] /\ NodeOf(h)[1] = h[1]
  BY GPUShape DEF distinctNodesForGPUs
<1>2. N \subseteq Nodes BY GPUShape DEF distinctNodesForGPUs
<1>3. IsFiniteSet(N) /\ Cardinality(N) \in Nat
  <2> HIDE DEF N
  <2> QED BY <1>2, FleetFinite, SubsetFinite
<1>4. Cardinality(N) > 1 => Cardinality(P) = 1 BY DEF Fits, Spans
<1>5. g[1] \in P /\ h[1] \in P /\ P \subseteq DOMAIN Pools
  BY <1>1, <1>2, NodeShape
<1> HIDE DEF N
<1>6. CASE Cardinality(N) > 1
  <2>1. Cardinality(P) = 1 BY <1>4, <1>6
  <2> HIDE DEF P
  <2>2. IsFiniteSet(P) BY <1>5, FleetFinite, SubsetFinite
  <2>3. \E x : P = {x} BY <2>1, <2>2, FS_Singleton
  <2> QED BY <1>5, <2>3
<1>7. CASE ~(Cardinality(N) > 1)
  <2>1. Cardinality(N) # 0 BY <1>1, <1>3, FS_EmptySet
  <2>2. Cardinality(N) = 1 BY <1>3, <1>7, <2>1
  <2>3. \E x : N = {x} BY <1>3, <2>2, FS_Singleton
  <2>4. NodeOf(g) = NodeOf(h) BY <1>1, <2>3
  <2> QED BY <1>1, <2>4
<1> QED BY <1>6, <1>7

(* Sets of m elements each: their union has at most m times as many. *)
LEMMA UnionBound ==
  ASSUME NEW I, IsFiniteSet(I), NEW h, NEW m \in Nat,
         \A i \in I : IsFiniteSet(h[i]) /\ Cardinality(h[i]) = m,
         NEW U, \A x \in U : \E i \in I : x \in h[i]
  PROVE  IsFiniteSet(U) /\ Cardinality(U) <= m * Cardinality(I)
<1> DEFINE K == 1..m
           b == [i \in I |-> CHOOSE f : f \in Surjection(K, h[i])]
           V == {ik \in I \X K : b[ik[1]][ik[2]] \in U}
           c == [ik \in V |-> b[ik[1]][ik[2]]]
<1>1. IsFiniteSet(K) /\ Cardinality(K) = m BY FS_Interval
<1>2. \A i \in I : b[i] \in Surjection(K, h[i])
  <2> TAKE i \in I
  <2>1. ExistsBijection(K, h[i])
    <3> HIDE DEF K
    <3> QED BY <1>1, FS_SameCardinalityBij
  <2>2. \E f : f \in Surjection(K, h[i]) BY <2>1 DEF ExistsBijection, Bijection
  <2> QED BY <2>2, Zenon
<1> HIDE DEF b
<1>3. \A x \in U : \E ik \in V : c[ik] = x
  <2> TAKE x \in U
  <2>1. PICK i \in I : x \in h[i] OBVIOUS
  <2>2. PICK k \in K : b[i][k] = x BY <1>2, <2>1 DEF Surjection
  <2>3. <<i, k>> \in V /\ c[<<i, k>>] = x BY <2>2
  <2> QED BY <2>3
<1>4. \A ik \in V : c[ik] \in U OBVIOUS
<1>5. c \in [V -> U] BY <1>4
<1>6. V \subseteq I \X K OBVIOUS
<1> HIDE DEF c, V, K
<1>7. c \in Surjection(V, U) BY <1>3, <1>5 DEF Surjection
<1>8. IsFiniteSet(I \X K) /\ Cardinality(I \X K) = Cardinality(I) * m
  BY <1>1, FS_Product
<1>9. IsFiniteSet(V) /\ Cardinality(V) \in Nat /\ Cardinality(V) <= Cardinality(I \X K)
  BY <1>6, <1>8, SubsetFinite
<1>10. IsFiniteSet(U) /\ Cardinality(U) <= Cardinality(V)
  BY <1>7, <1>9, FS_Surjection
<1>11. Cardinality(U) \in Nat /\ Cardinality(I) \in Nat
  BY <1>10, FS_CardinalityType
<1>12. Cardinality(I) * m = m * Cardinality(I) /\ m * Cardinality(I) \in Nat
  BY <1>11
<1> QED BY <1>8, <1>9, <1>10, <1>11, <1>12

(* gpuInventory promises no GPU that is allocated. *)
LEMMA InventoryHolds == FleetInv => InventoryNeverHigh
<1> SUFFICES ASSUME FleetInv, NEW p \in DOMAIN Pools
             PROVE  gpuInventory(p) <= Cardinality({g \in GPUs : /\ g[1] = p /\ alloc[g] = NoInst
                                                                 /\ NodeOf(g) \in ReadyNodes})
  BY DEF InventoryNeverHigh
<1> DEFINE F == {g \in GPUs : g[1] = p /\ alloc[g] = NoInst /\ NodeOf(g) \in ReadyNodes}
           R == {n \in ReadyNodes : n[1] = p}
           A == UNION {GPUsOf(n) : n \in R}
           U == {g \in A : alloc[g] # NoInst}
           I == {i \in Holding : PoolOf(i) = p}
           s == Size(p)
<1>1. /\ alloc \in Allocations /\ ist \in Lives /\ held \in [Insts -> SUBSET GPUs]
      /\ Matching(alloc, ist, held) /\ Fitting(ist, held)
  BY DEF FleetInv, Shapes
<1>2. R \in SUBSET Nodes /\ (\A n \in R : n[1] = p) /\ I \subseteq Insts
  BY DEF ReadyNodes, Holding
<1>3. A \subseteq GPUs /\ \A g \in GPUs : g \in A <=> g[1] = p /\ NodeOf(g) \in ReadyNodes
  <2>1. \A g \in A : g \in GPUs /\ g[1] = p /\ NodeOf(g) \in ReadyNodes
    BY <1>2, GPUShape
  <2>2. \A g \in GPUs : g[1] = p /\ NodeOf(g) \in ReadyNodes => g \in A
    BY GPUShape
  <2> QED BY <2>1, <2>2
<1>4. /\ IsFiniteSet(A) /\ Cardinality(A) = Cardinality(R) * s
      /\ Cardinality(R) \in Nat /\ s \in Nat
  <2>1. IsFiniteSet(R) /\ Cardinality(R) \in Nat
    <3> HIDE DEF R
    <3> QED BY <1>2, FleetFinite, SubsetFinite
  <2>2. s \in Nat BY NodeShape
  <2>3. IsFiniteSet(A) /\ Cardinality(A) = Cardinality(R) * s
    <3> HIDE DEF R
    <3> QED BY <1>2, <2>1, WholeNodesCount
  <2> QED BY <2>1, <2>2, <2>3
<1>5. \A g \in U : \E i \in I : g \in held[i]
  <2> TAKE g \in U
  <2>1. g \in GPUs /\ alloc[g] \in Insts /\ g[1] = p
    BY <1>1, <1>3 DEF Allocations
  <2> DEFINE i == alloc[g]
  <2>2. g \in Own(alloc, i) BY <2>1 DEF Own
  <2>3. ist[i] \notin {"Scheduling", "Terminated"} /\ g \in held[i]
    BY <1>1, <2>1, <2>2 DEF Matching
  <2>4. i \in Holding BY <1>1, <2>1, <2>3 DEF Holding, Lives, InstStates
  <2>5. Fits(held[i]) /\ held[i] \in SUBSET GPUs
    BY <1>1, <2>1, <2>3 DEF Fitting
  <2> DEFINE h == CHOOSE x \in held[i] : TRUE
  <2>6. h \in held[i] BY <2>3
  <2>7. h[1] = p
    <3> HIDE DEF h, i
    <3> QED BY <2>1, <2>3, <2>5, <2>6, OnePool
  <2>8. PoolOf(i) = p BY <2>7 DEF PoolOf
  <2> QED BY <2>3, <2>4, <2>8
<1>6. IsFiniteSet(I) /\ Cardinality(I) \in Nat
  <2> HIDE DEF I
  <2> QED BY <1>2, FleetFinite, SubsetFinite
<1>7. \A i \in I : IsFiniteSet(held[i]) /\ Cardinality(held[i]) = TP
  BY <1>1, <1>2 DEF Fitting, Fits, Holding
<1>8. F = A \ U BY <1>3
<1>9. U \subseteq A OBVIOUS
<1>10. gpuInventory(p) = Minus(s * Cardinality(R), TP * Cardinality(I))
  BY DEF gpuInventory, Size
<1> HIDE DEF F, R, A, U, I, s
<1>11. IsFiniteSet(U) /\ Cardinality(U) <= TP * Cardinality(I)
  BY <1>5, <1>6, <1>7, UnionBound, FleetAssumption
<1>12. Cardinality(F) = Cardinality(A) - Cardinality(U)
  <2>1. Cardinality(A \ U) = Cardinality(A) - Cardinality(A \cap U)
    BY <1>4, FS_Difference
  <2>2. A \cap U = U BY <1>9
  <2> QED BY <1>8, <2>1, <2>2
<1>13. Cardinality(U) \in Nat /\ Cardinality(U) <= Cardinality(A) /\ Cardinality(A) \in Nat
  BY <1>4, <1>9, SubsetFinite
<1> DEFINE x == s * Cardinality(R)
           y == TP * Cardinality(I)
<1>14. x \in Nat /\ y \in Nat /\ Cardinality(A) = x
  <2>1. \A m, n \in Nat : m * n \in Nat /\ m * n = n * m OBVIOUS
  <2>2. x \in Nat /\ x = Cardinality(R) * s BY <1>4, <2>1
  <2>3. y \in Nat BY <1>6, <2>1, FleetAssumption
  <2> QED BY <1>4, <2>2, <2>3
<1>15. gpuInventory(p) = Minus(x, y) /\ Cardinality(U) <= y BY <1>10, <1>11
<1> HIDE DEF x, y
<1>16. gpuInventory(p) <= Cardinality(F)
  BY <1>12, <1>13, <1>14, <1>15 DEF Minus
<1> QED BY <1>16 DEF F

------------------------------
(* One decision at a time. *)

\* A decision is applied within the windows of both directions.
PromptActuation == \A d \in ScrapeDelays : d <= UpWindow /\ d <= DownWindow

(* A gate cannot pass while a decision waits. *)
LEMMA GateClosed ==
  ASSUME NEW signal \in BOOLEAN, NEW since \in NoTick..MaxTicks, NEW window \in Nat,
         tick \in 0..MaxTicks, NEW t \in Nat, t >= tick, tick > t - window,
         since # NoTick => since > t - window
  PROVE  ~Gate(signal, since, window)[1]
<1> SUFFICES ASSUME Gate(signal, since, window)[1] PROVE FALSE OBVIOUS
<1>1. /\ since = NoTick => window = 0
      /\ since # NoTick => tick - since >= window
  BY GateShape
<1>2. since \in Int BY FleetAssumption DEF NoTick
<1> QED BY <1>1, <1>2

(* A tick decides only when no decision waits. *)
LEMMA SpacedTick ==
  ASSUME FleetInv, Spaced, PromptActuation, ScalingTick
  PROVE  Spaced'
<1> DEFINE d == Optimize
           up == d.delta > 0
           down == d.delta < 0
           gu == Gate(up, upSince, UpWindow)
           gd == Gate(down, downSince, DownWindow)
<1>1. /\ tick # NoTick /\ (\A a \in acts : a.at >= tick)
      /\ upSince' = gu[2] /\ downSince' = gd[2]
      /\ \E delay \in ScrapeDelays :
            acts' = IF gu[1] \/ gd[1]
                    THEN acts \cup {[at |-> tick + delay, pool |-> d.pool, delta |-> d.delta]}
                    ELSE acts
      /\ tick' \in {tick + 1, NoTick}
  BY DEF ScalingTick
<1>2. /\ tick \in NoTick..MaxTicks /\ upSince \in NoTick..MaxTicks
      /\ downSince \in NoTick..MaxTicks
      /\ \A x \in acts : x.at \in Nat
  BY DEF FleetInv, Shapes
<1>3. tick \in 0..MaxTicks /\ tick \in Nat
  BY <1>1, <1>2, FleetAssumption DEF NoTick
<1>4. up \in BOOLEAN /\ down \in BOOLEAN /\ d.delta \in Int /\ ~(up /\ down)
  BY OptimizeFits
<1> HIDE DEF up, down, d
<1>5. /\ gu[2] \in {NoTick, tick, upSince}
      /\ gu[1] => up /\ gu[2] = NoTick
      /\ ~up => gu[2] = NoTick
  BY <1>2, <1>3, <1>4, GateShape, FleetAssumption
<1>6. /\ gd[2] \in {NoTick, tick, downSince}
      /\ gd[1] => down /\ gd[2] = NoTick
      /\ ~down => gd[2] = NoTick
  BY <1>2, <1>3, <1>4, GateShape, FleetAssumption
<1>7. /\ \A a, b \in acts : a = b
      /\ \A a \in acts : /\ tick > a.at - UpWindow /\ tick > a.at - DownWindow
                         /\ upSince # NoTick => upSince > a.at - UpWindow
                         /\ downSince # NoTick => downSince > a.at - DownWindow
  BY <1>1 DEF Spaced
<1>8. ASSUME NEW a \in acts PROVE ~gu[1] /\ ~gd[1]
  <2>1. a.at \in Nat /\ a.at >= tick BY <1>1, <1>2
  <2>2. ~gu[1] BY <1>2, <1>3, <1>4, <1>7, <2>1, GateClosed, FleetAssumption
  <2>3. ~gd[1] BY <1>2, <1>3, <1>4, <1>7, <2>1, GateClosed, FleetAssumption
  <2> QED BY <2>2, <2>3
<1> HIDE DEF gu, gd
<1>9. CASE gu[1] \/ gd[1]
  <2>1. acts = {} BY <1>8, <1>9
  <2>2. PICK delay \in ScrapeDelays :
          acts' = acts \cup {[at |-> tick + delay, pool |-> d.pool, delta |-> d.delta]}
    BY <1>1, <1>9
  <2> DEFINE e == [at |-> tick + delay, pool |-> d.pool, delta |-> d.delta]
  <2>3. acts' = {e} BY <2>1, <2>2
  <2>4. e.at = tick + delay OBVIOUS
  <2> HIDE DEF e
  <2>5. upSince' = NoTick /\ downSince' = NoTick
    BY <1>1, <1>4, <1>5, <1>6, <1>9
  <2>6. delay \in Nat /\ delay <= UpWindow /\ delay <= DownWindow
        /\ UpWindow \in Nat /\ DownWindow \in Nat
    BY FleetAssumption DEF PromptActuation
  <2>7. tick' # NoTick => tick' > e.at - UpWindow /\ tick' > e.at - DownWindow
    BY <1>1, <1>3, <2>4, <2>6
  <2> QED BY <2>3, <2>5, <2>7 DEF Spaced
<1>10. CASE ~(gu[1] \/ gd[1])
  <2>1. acts' = acts BY <1>1, <1>10
  <2>2. ASSUME NEW a \in acts
        PROVE  /\ tick' # NoTick => tick' > a.at - UpWindow /\ tick' > a.at - DownWindow
               /\ upSince' # NoTick => upSince' > a.at - UpWindow
               /\ downSince' # NoTick => downSince' > a.at - DownWindow
    <3>1. a.at \in Nat /\ tick > a.at - UpWindow /\ tick > a.at - DownWindow
      BY <1>2, <1>7
    <3>2. tick' # NoTick => tick' > a.at - UpWindow /\ tick' > a.at - DownWindow
      BY SMTT(60), <1>1, <1>3, <3>1, FleetAssumption
    <3>3. upSince' # NoTick => upSince' > a.at - UpWindow
      BY <1>1, <1>5, <1>7, <3>1
    <3>4. downSince' # NoTick => downSince' > a.at - DownWindow
      BY <1>1, <1>6, <1>7, <3>1
    <3> QED BY <3>2, <3>3, <3>4
  <2> QED BY <1>7, <2>1, <2>2 DEF Spaced
<1> QED BY <1>9, <1>10

(* Applying a decision leaves fewer. *)
LEMMA SpacedActuate ==
  ASSUME Spaced, NEW x \in acts, Actuate(x)
  PROVE  Spaced'
<1>1. acts' = acts \ {x} /\ UNCHANGED <<tick, upSince, downSince>>
  BY DEF Actuate
<1> QED BY <1>1 DEF Spaced

(* No other step touches the autoscaler. *)
LEMMA ScalerUntouched ==
  ASSUME Next, ~ScalingTick, \A x \in acts : ~Actuate(x)
  PROVE  UNCHANGED <<tick, upSince, downSince, acts>>
<1>1. ASSUME NEW r \in Requests, ClusterArrival(r) \/ Route(r)
      PROVE  UNCHANGED <<tick, upSince, downSince, acts>>
  BY <1>1 DEF ClusterArrival, Route, scalerVars
<1>2. ASSUME NEW i \in Insts, InstanceEvent(i)
      PROVE  UNCHANGED <<tick, upSince, downSince, acts>>
  <2>1. \E w, k : AfterEvent(i, w, k)
    BY <1>2 DEF InstanceEvent, InstanceArrival, InstanceQueued, InstanceStep
  <2> QED BY <2>1 DEF AfterEvent, scalerVars
<1>3. ASSUME NEW i \in Insts, InstanceLoaded(i)
      PROVE  UNCHANGED <<tick, upSince, downSince, acts>>
  BY <1>3 DEF InstanceLoaded, scalerVars
<1>4. ASSUME NEW n \in Nodes, NodeReady(n) \/ NodeDrained(n) \/ DrainNode(n)
      PROVE  UNCHANGED <<tick, upSince, downSince, acts>>
  BY <1>4 DEF NodeReady, NodeDrained, DrainNode, scalerVars
<1>5. ASSUME NEW p \in DOMAIN Pools, ProvisionNode(p)
      PROVE  UNCHANGED <<tick, upSince, downSince, acts>>
  BY <1>5 DEF ProvisionNode, scalerVars
<1>6. ASSUME NEW i \in Insts, drainImmediate(i) \/ drainWait(i) \/ drainRedirect(i)
      PROVE  UNCHANGED <<tick, upSince, downSince, acts>>
  BY <1>6 DEF drainImmediate, drainWait, drainRedirect, DrainCall, scalerVars
<1> QED BY <1>1, <1>2, <1>3, <1>4, <1>5, <1>6 DEF Next, Event, OperatorCall

(* At most one decision waits when every decision is applied within the    *)
(* windows.                                                                *)
LEMMA SpacedAlways ==
  ASSUME PromptActuation
  PROVE  Spec => []Spaced
<1>1. Init => Spaced BY DEF Init, Spaced
<1>2. FleetInv /\ Spaced /\ [Next]_vars => Spaced'
  <2> SUFFICES ASSUME FleetInv, Spaced, [Next]_vars PROVE Spaced' OBVIOUS
  <2>1. CASE ScalingTick BY <2>1, SpacedTick
  <2>2. ASSUME NEW x \in acts, Actuate(x) PROVE Spaced' BY <2>2, SpacedActuate
  <2>3. CASE Next /\ ~ScalingTick /\ \A x \in acts : ~Actuate(x)
    <3>1. UNCHANGED <<tick, upSince, downSince, acts>> BY <2>3, ScalerUntouched
    <3> QED BY <3>1 DEF Spaced
  <2>4. CASE UNCHANGED vars BY <2>4 DEF Spaced, vars, scalerVars
  <2> QED BY <2>1, <2>2, <2>3, <2>4
<1> QED BY <1>1, <1>2, FleetInvariant, PTL DEF Spec

(* The autoscaler decides on GPUs that exist, for the demand it saw, and,  *)
(* when its scrape delays are no longer than its windows, once: a decision *)
(* is applied before the next one passes its gate.                         *)
THEOREM FleetDecisionsSound ==
  ASSUME PromptActuation
  PROVE  Spec => []DecisionsSound
<1>1. FleetInv /\ Spaced => DecisionsSound
  <2> SUFFICES ASSUME FleetInv, Spaced PROVE DecisionsSound OBVIOUS
  <2>1. OneDecisionOutstanding
    <3>1. \A a, b \in acts : a = b BY DEF Spaced
    <3>2. CASE acts = {} BY <3>2, FS_EmptySet DEF OneDecisionOutstanding
    <3>3. CASE acts # {}
      <4>1. PICK a \in acts : TRUE BY <3>3
      <4>2. acts = {a} BY <3>1
      <4>3. Cardinality(acts) = 1 BY <4>2, FS_Singleton
      <4> QED BY <4>3 DEF OneDecisionOutstanding
    <3> QED BY <3>2, <3>3
  <2> QED BY <2>1, InventoryHolds, OptimizeFits DEF DecisionsSound
<1> QED BY <1>1, FleetInvariant, SpacedAlways, PTL

------------------------------
(* Instances and nodes only move forward. *)

\* The steps of an instance's life and of a node's.
InstMove(s, t) ==
    \/ t = s
    \/ s = "Scheduling" /\ t \in {"Loading", "WarmingUp", "Active"}
    \/ s = "Loading" /\ t \in {"WarmingUp", "Active"}
    \/ s = "WarmingUp" /\ t \in {"Active", "Draining", "Terminated"}
    \/ s = "Active" /\ t \in {"Draining", "Terminated"}
    \/ s = "Draining" /\ t = "Terminated"
NodeMove(s, t) ==
    \/ t = s
    \/ s = "Absent" /\ t = "Provisioning"
    \/ s = "Provisioning" /\ t = "Ready"
    \/ s = "Ready" /\ t = "Draining"
    \/ s = "Draining" /\ t = "Terminated"
InstsMove == \A i \in Insts : InstMove(ist[i], ist'[i])
NodesMove == \A n \in Nodes : NodeMove(nstate[n], nstate'[n])

(* A move goes forward in the order of the property. *)
LEMMA MoveForward ==
  ASSUME NEW s, NEW t
  PROVE  /\ InstMove(s, t) => /\ LifeOrder(s) <= LifeOrder(t)
                              /\ s \in {"Scheduling", "Loading"} => t # "Draining"
         /\ NodeMove(s, t) => LifeOrder(s) <= LifeOrder(t)
<1>1. /\ LifeOrder("Scheduling") = 0 /\ LifeOrder("Absent") = 0
      /\ LifeOrder("Loading") = 1 /\ LifeOrder("Provisioning") = 1
      /\ LifeOrder("WarmingUp") = 2 /\ LifeOrder("Ready") = 2
      /\ LifeOrder("Active") = 3 /\ LifeOrder("Draining") = 4
      /\ LifeOrder("Terminated") = 5
  BY DEF LifeOrder
<1>2. LifeOrder(s) \in Nat BY DEF LifeOrder
<1> QED BY <1>1, <1>2 DEF InstMove, NodeMove

(* An instance's own events end its warm-up or its drain. *)
LEMMA EventMoves ==
  ASSUME FleetInv, NEW i \in Insts, InstanceEvent(i)
  PROVE  InstsMove /\ UNCHANGED nstate
<1>1. PICK w, k : AfterEvent(i, w, k)
  BY DEF InstanceEvent, InstanceArrival, InstanceQueued, InstanceStep
<1>2. ist \in Lives BY DEF FleetInv, Shapes
<1>3. UNCHANGED nstate BY <1>1 DEF AfterEvent
<1>4. PICK t : /\ ist' = [ist EXCEPT ![i] = t]
               /\ \/ ist[i] = "Draining" /\ t = "Terminated"
                  \/ ist[i] = "WarmingUp" /\ t = "Active"
                  \/ t = ist[i]
  <2> DEFINE idle == \A r \in Requests : w[r].on = i => w[r].at \notin {"queued", "running"}
             left == IF ist[i] = "WarmingUp" THEN Minus(warm[i], k) ELSE warm[i]
  <2>1. CASE ist[i] = "Draining" /\ idle
    <3>1. ist' = [ist EXCEPT ![i] = "Terminated"] BY <1>1, <2>1 DEF AfterEvent
    <3> QED BY <2>1, <3>1
  <2>2. CASE ~(ist[i] = "Draining" /\ idle)
    <3>1. ist' = [ist EXCEPT ![i] = IF ist[i] = "WarmingUp" /\ left = 0 THEN "Active"
                                    ELSE ist[i]]
      BY <1>1, <2>2 DEF AfterEvent
    <3> HIDE DEF left, idle
    <3>2. CASE ist[i] = "WarmingUp" /\ left = 0
      <4>1. ist' = [ist EXCEPT ![i] = "Active"] BY <3>1, <3>2
      <4> QED BY <3>2, <4>1
    <3>3. CASE ~(ist[i] = "WarmingUp" /\ left = 0)
      <4>1. ist' = [ist EXCEPT ![i] = ist[i]] BY <3>1, <3>3
      <4> QED BY <4>1
    <3> QED BY <3>2, <3>3
  <2> QED BY <2>1, <2>2
<1>5. \A j \in Insts : /\ j = i => ist'[j] = t
                       /\ j # i => ist'[j] = ist[j]
  BY <1>2, <1>4 DEF Lives
<1> QED BY <1>3, <1>4, <1>5 DEF InstsMove, InstMove

(* What an operator's drain does to the instance. *)
LEMMA DrainMoves ==
  ASSUME FleetInv, NEW i \in Insts, drainImmediate(i) \/ drainWait(i) \/ drainRedirect(i)
  PROVE  InstsMove /\ UNCHANGED nstate
<1>1. \E policy \in {"immediate", "wait", "redirect"} : DrainCall(policy, i)
  BY DEF drainImmediate, drainWait, drainRedirect
<1>2. ist[i] \in {"WarmingUp", "Active"} /\ UNCHANGED nstate
  BY <1>1 DEF DrainCall, IsRoutable
<1>3. \E t \in {"Draining", "Terminated"} : ist' = [ist EXCEPT ![i] = t]
  BY DEF drainImmediate, drainWait, drainRedirect
<1>4. ist \in Lives BY DEF FleetInv, Shapes
<1>5. \A j \in Insts : /\ j = i => ist'[j] \in {"Draining", "Terminated"}
                       /\ j # i => ist'[j] = ist[j]
  BY <1>3, <1>4 DEF Lives
<1> QED BY <1>2, <1>5 DEF InstsMove, InstMove

(* Every step of the system. *)
LEMMA StepMoves ==
  ASSUME FleetInv, [Next]_vars
  PROVE  InstsMove /\ NodesMove
<1>1. ist \in Lives /\ nstate \in [Nodes -> NodeStates] /\ Loads(loadEv, ist)
      /\ Armed(nstate, cb, drainedEv, alloc)
  BY DEF FleetInv, Shapes
<1>2. /\ UNCHANGED ist => InstsMove
      /\ UNCHANGED nstate => NodesMove
      /\ OnlyBuilt => InstsMove
  BY DEF InstsMove, NodesMove, InstMove, NodeMove, OnlyBuilt
<1>3. CASE Event
  <2>1. ASSUME NEW r \in Requests, ClusterArrival(r) \/ Route(r)
        PROVE  InstsMove /\ NodesMove
    <3>1. UNCHANGED <<ist, nstate>>
      BY <2>1 DEF ClusterArrival, Route, placementVars
    <3> QED BY <1>2, <3>1
  <2>2. ASSUME NEW i \in Insts, InstanceEvent(i) PROVE InstsMove /\ NodesMove
    BY <1>2, <2>2, EventMoves
  <2>3. ASSUME NEW i \in Insts, InstanceLoaded(i) PROVE InstsMove /\ NodesMove
    <3>1. ist[i] = "Loading" /\ ist' = [ist EXCEPT ![i] = LoadedState] /\ UNCHANGED nstate
      BY <1>1, <2>3 DEF InstanceLoaded, Loads, placementVars
    <3>2. LoadedState \in {"WarmingUp", "Active"} BY DEF LoadedState
    <3>3. \A j \in Insts : /\ j = i => ist'[j] \in {"WarmingUp", "Active"}
                           /\ j # i => ist'[j] = ist[j]
      BY <1>1, <3>1, <3>2 DEF Lives
    <3>4. InstsMove BY <3>1, <3>3 DEF InstsMove, InstMove
    <3> QED BY <1>2, <3>1, <3>4
  <2>4. ASSUME NEW n \in Nodes, NodeReady(n) PROVE InstsMove /\ NodesMove
    <3>1. OnlyBuilt BY <2>4, NodeReadyKeeps
    <3>2. nstate[n] = "Provisioning" /\ nstate' = [nstate EXCEPT ![n] = "Ready"]
      BY <2>4 DEF NodeReady
    <3>3. NodesMove BY <1>1, <3>2 DEF NodesMove, NodeMove
    <3> QED BY <1>2, <3>1, <3>3
  <2>5. ASSUME NEW n \in Nodes, NodeDrained(n) PROVE InstsMove /\ NodesMove
    <3>1. nstate[n] = "Draining" /\ nstate' = [nstate EXCEPT ![n] = "Terminated"]
          /\ UNCHANGED ist
      BY <1>1, <2>5 DEF NodeDrained, Armed
    <3>2. NodesMove BY <1>1, <3>1 DEF NodesMove, NodeMove
    <3> QED BY <1>2, <3>1, <3>2
  <2>6. CASE ScalingTick
    <3>1. UNCHANGED <<ist, nstate>> BY <2>6 DEF ScalingTick, placementVars
    <3> QED BY <1>2, <3>1
  <2>7. ASSUME NEW x \in acts, Actuate(x) PROVE InstsMove /\ NodesMove
    <3>1. /\ \A y \in acts' : y \in acts
          /\ UNCHANGED <<nstate, cb, drainedEv, pending, requestVars, clean,
                         tick, upSince, downSince, ops>>
      BY <2>7 DEF Actuate
    <3>2. CASE x.delta > 0
      <4>1. ScaleUp(x.pool, x.delta) /\ x.delta \in Nat
        BY <2>7, <3>2 DEF Actuate, FleetInv, Shapes
      <4>2. OnlyBuilt BY <3>1, <4>1, ScaleUpKeeps
      <4> QED BY <1>2, <3>1, <4>2
    <3>3. CASE ~(x.delta > 0)
      <4> DEFINE D == findOldestActive(ActiveOf(x.pool), -x.delta)
      <4>1. ist' = [i \in Insts |-> IF i \in D THEN "Draining" ELSE ist[i]]
        BY <2>7, <3>3 DEF Actuate, ScaleDown
      <4>2. \A i \in D : ist[i] = "Active" BY DEF findOldestActive, ActiveOf
      <4> HIDE DEF D
      <4>3. InstsMove BY <4>1, <4>2 DEF InstsMove, InstMove
      <4> QED BY <1>2, <3>1, <4>3
    <3> QED BY <3>2, <3>3
  <2> QED BY <1>3, <2>1, <2>2, <2>3, <2>4, <2>5, <2>6, <2>7 DEF Event
<1>4. CASE OperatorCall
  <2>1. ASSUME NEW p \in DOMAIN Pools, ProvisionNode(p) PROVE InstsMove /\ NodesMove
    <3> DEFINE absent == {k \in 1..MaxNodes : nstate[<<p, k>>] = "Absent"}
               k0 == CHOOSE k \in absent : \A m \in absent : k <= m
               n == <<p, k0>>
    <3>1. absent # {} /\ nstate' = [nstate EXCEPT ![n] = "Provisioning"] /\ UNCHANGED ist
      BY <2>1 DEF ProvisionNode
    <3>2. k0 \in absent
      <4>1. absent \subseteq Nat /\ absent # {} BY <3>1
      <4> HIDE DEF absent
      <4>2. \E k \in absent : \A m \in absent : k <= m BY <4>1, LeastNat
      <4> QED BY <4>2
    <3>3. nstate[n] = "Absent" BY <3>2
    <3> HIDE DEF n, k0, absent
    <3>4. NodesMove BY <1>1, <3>1, <3>3 DEF NodesMove, NodeMove
    <3> QED BY <1>2, <3>1, <3>4
  <2>2. ASSUME NEW n \in Nodes, DrainNode(n) PROVE InstsMove /\ NodesMove
    <3>1. nstate[n] = "Ready" /\ nstate' = [nstate EXCEPT ![n] = "Draining"] /\ UNCHANGED ist
      BY <2>2 DEF DrainNode
    <3>2. NodesMove BY <1>1, <3>1 DEF NodesMove, NodeMove
    <3> QED BY <1>2, <3>1, <3>2
  <2>3. ASSUME NEW i \in Insts, drainImmediate(i) \/ drainWait(i) \/ drainRedirect(i)
        PROVE  InstsMove /\ NodesMove
    BY <1>2, <2>3, DrainMoves
  <2> QED BY <1>4, <2>1, <2>2, <2>3 DEF OperatorCall
<1>5. CASE UNCHANGED vars BY <1>2, <1>5 DEF vars, placementVars
<1> QED BY <1>3, <1>4, <1>5 DEF Next

(* No step moves an instance or a node back in its life, and an instance   *)
(* that is not yet serving is never drained: the half of LifecycleSound    *)
(* that is not about fairness.                                             *)
THEOREM FleetForward == Spec => LifecycleForward
<1> DEFINE Forward ==
             /\ \A i \in Insts : /\ LifeOrder(ist[i]) <= LifeOrder(ist'[i])
                                 /\ ist[i] \in {"Scheduling", "Loading"} => ist'[i] # "Draining"
             /\ \A n \in Nodes : LifeOrder(nstate[n]) <= LifeOrder(nstate'[n])
<1>1. FleetInv /\ [Next]_vars => [Forward]_vars
  BY StepMoves, MoveForward DEF InstsMove, NodesMove
<1> QED BY <1>1, FleetInvariant, PTL DEF Spec, LifecycleForward
=============================================================================
