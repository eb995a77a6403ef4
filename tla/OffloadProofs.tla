---------------------------- MODULE OffloadProofs ----------------------------
(***************************************************************************)
(* Proofs about the offloading KV caches: for any prompts, block counts,   *)
(* tiers and servers, GPU blocks, CPU slots, pins and servers are accounted*)
(* for in every state (TiersExact), and offloading never loses a block     *)
(* (WriteThrough).                                                         *)
(***************************************************************************)
EXTENDS Offload, FiniteSetTheorems, SequenceTheorems, TLAPS

------------------------------
(* The inductive invariant. *)
Tokens == UNION {ToSet(Prompt[r]) : r \in Requests}
Keys == Seq(Tokens)
Station(kd) == kd = "chain" /\ NumTiers > 0

IsMap(f, K, V) ==
  /\ f = [x \in DOMAIN f |-> f[x]]
  /\ DOMAIN f \subseteq K
  /\ \A x \in DOMAIN f : f[x] \in V

(* The CPU tier: its counters count, its list has what may be evicted. *)
CPUShape(t) ==
  /\ t = [ref |-> t.ref, lru |-> t.lru, used |-> t.used, evictable |-> t.evictable]
  /\ IsMap(t.ref, Keys, {-1} \cup Nat)
  /\ t.lru \in Seq(Keys)
CPUOk(t) ==
  /\ CPUShape(t)
  /\ IsFiniteSet(DOMAIN t.ref)
  /\ t.used = Cardinality(DOMAIN t.ref)
  /\ t.used <= CPUCapacity
  /\ t.evictable = Len(t.lru)
  /\ IsInjective(t.lru)
  /\ ToSet(t.lru) = {k \in DOMAIN t.ref : t.ref[k] = 0}

(* A tier of the station: write jobs move one block, no server is lost, and  *)
(* none is idle while a job waits.                                           *)
Jobs == [dir : {"read", "write"}, keys : Seq(Keys), server : {"none", "read", "write"}]
OneBlock(j) == j.dir = "write" => Len(j.keys) = 1
TierShape(s) ==
  /\ s = [readQ |-> s.readQ, writeQ |-> s.writeQ, active |-> s.active,
          freeRead |-> s.freeRead, freeWrite |-> s.freeWrite]
  /\ s.readQ \in Seq(Jobs) /\ s.writeQ \in Seq(Jobs) /\ s.active \in Seq(Jobs)
  /\ s.freeRead \in Nat /\ s.freeWrite \in Nat
  /\ \A i \in DOMAIN s.readQ : OneBlock(s.readQ[i])
  /\ \A i \in DOMAIN s.writeQ : OneBlock(s.writeQ[i])
  /\ \A i \in DOMAIN s.active : OneBlock(s.active[i])
ServersKept(s) == s.freeRead + s.freeWrite + Len(s.active) = NRead + NWrite
ServersBusy(s) == (s.readQ = <<>> /\ s.writeQ = <<>>) \/ s.freeRead + s.freeWrite = 0
TierOk(s) ==
  /\ TierShape(s)
  /\ ServersKept(s)
  /\ ServersBusy(s)

(* A block is pinned once for each write job that reads it, and a slot that  *)
(* is not ready is read into.                                                *)
Writes(stn, k) == UNION {{t} \X Covers(stn[t], "write", k) : t \in Tiers}
Pins(cpu, k) == IF k \in DOMAIN cpu.ref /\ cpu.ref[k] > 0 THEN cpu.ref[k] ELSE 0
PinsOk(cpu, stn) ==
  /\ \A k : Cardinality(Writes(stn, k)) = Pins(cpu, k)
  /\ \A k \in DOMAIN cpu.ref :
       cpu.ref[k] = -1 => \E t \in Tiers : Covers(stn[t], "read", k) # {}
Sent(sec, stn, k, t) == k \in sec[t] \/ Covers(stn[t], "write", k) # {}
Through(cpu, sec, stn) ==
  \A k \in DOMAIN cpu.ref \cup UNION {sec[t] : t \in Tiers} :
    \A t \in Tiers : Sent(sec, stn, k, t)
TransferOk(kd, cpu, sec, stn) ==
  /\ CPUOk(cpu)
  /\ stn = [t \in Tiers |-> stn[t]] /\ \A t \in Tiers : TierOk(stn[t])
  /\ sec \in [Tiers -> SUBSET Keys]
  /\ PinsOk(cpu, stn)
  /\ kd = "tiered" => \A k \in DOMAIN cpu.ref : cpu.ref[k] = 0
  /\ Station(kd) => Through(cpu, sec, stn)

(* The GPU tier: a block is free or owned, the index names what a block has. *)
Used(owned) == UNION {ToSet(owned[r]) : r \in Requests}
GpuOk(free, hash, index, owned) ==
  /\ free \in Seq(Blocks)
  /\ IsInjective(free)
  /\ hash \in [Blocks -> Keys]
  /\ IsMap(index, Keys, Blocks)
  /\ \A h \in DOMAIN index : hash[index[h]] = h
  /\ owned \in [Requests -> Seq(Blocks)]
  /\ ToSet(free) = Blocks \ Used(owned)

(* An episode that may still be promoted has a tier that holds its keys. *)
EpisodeOk(kd, sec, e) ==
  /\ e = Episode(e.phase, e.keys, e.tier)
  /\ e.keys \in Seq(Keys) /\ IsInjective(e.keys)
  /\ e.phase = "retry" => /\ Station(kd) /\ e.tier \in Tiers
                          /\ ToSet(e.keys) \subseteq sec[e.tier]
DeferOk(kd, deferred, sec) ==
  /\ deferred = [r \in DOMAIN deferred |-> deferred[r]]
  /\ DOMAIN deferred \subseteq Requests
  /\ \A r \in DOMAIN deferred : EpisodeOk(kd, sec, deferred[r])

CacheShape(c) ==
  DOMAIN c = {"free", "hash", "index", "owned", "cpu", "secondary", "station",
              "deferred", "known", "latency"}
CacheOk(kd, c) ==
  /\ CacheShape(c)
  /\ GpuOk(c.free, c.hash, c.index, c.owned)
  /\ TransferOk(kd, c.cpu, c.secondary, c.station)
  /\ DeferOk(kd, c.deferred, c.secondary)

(* The scheduler's queues, and who may hold blocks. *)
QueuesOk ==
  /\ waitQ \in Seq(Requests) /\ running \in Seq(Requests)
  /\ IsInjective(waitQ) /\ IsInjective(running)
  /\ ToSet(waitQ) \cap ToSet(running) = {}
  /\ future \subseteq Requests
  /\ (ToSet(waitQ) \cup ToSet(running)) \cap future = {}
  /\ progress \in [Requests -> Nat] /\ sched \in [Requests -> Nat]
  /\ todo \in Seq(Requests) /\ IsInjective(todo)
  /\ phase = "run" => ToSet(todo) \subseteq ToSet(running)
  /\ phase \in {"between", "poll", "run", "wait", "exec"}
  /\ skipped \in Nat /\ skipped <= Len(waitQ)
  /\ phase \in {"between", "poll", "run"} => skipped = 0
HoldersOk ==
  \A r \in Requests : kv.owned[r] # <<>> => r \in ToSet(waitQ) \cup ToSet(running)
OffloadInv ==
  /\ kind \in Kinds
  /\ CacheOk(kind, kv)
  /\ QueuesOk
  /\ HoldersOk
------------------------------
(* The loops of the model.  Each instance of Folding has the body of a loop  *)
(* for Op and what the loop keeps for P.                                     *)

(* commitCachedBlocks takes blocks off the free list one by one. *)
ClaimOp(a, x, b) == Without(x, b)
ClaimKept(a, w, k, x) ==
  /\ x \in Seq(Blocks)
  /\ IsInjective(x)
  /\ ToSet(x) = ToSet(w.free) \ {w.bs[i] : i \in 1 .. k}
Claim == INSTANCE Folding WITH Op <- ClaimOp, P <- ClaimKept

------------------------------
(* Sequences. *)

(* The least of a nonempty set of naturals. *)
LEMMA MinIn ==
  ASSUME NEW S, S \subseteq Nat, S # {}
  PROVE  Min(S) \in S /\ \A y \in S : Min(S) <= y
<1>1. \E x \in S : \A y \in S : x <= y BY Claim!LeastNat
<1>2. \E x \in S : \A y \in S : x =< y BY <1>1
<1> QED BY <1>2 DEF Min

(* The greatest of a nonempty set of naturals up to n. *)
LEMMA MaxIn ==
  ASSUME NEW n \in Nat, NEW S, S \subseteq 0 .. n, S # {}
  PROVE  Max(S) \in S /\ \A y \in S : y <= Max(S)
<1> DEFINE R == {n - x : x \in S}
<1>1. R \subseteq Nat /\ R # {}
  <2>1. \A x \in S : x \in 0 .. n /\ n - x \in Nat OBVIOUS
  <2>2. PICK x \in S : TRUE OBVIOUS
  <2> QED BY <2>1, <2>2
<1>2. PICK m \in R : \A y \in R : m <= y BY <1>1, Claim!LeastNat
<1>3. PICK x \in S : m = n - x BY <1>2
<1>4. \A y \in S : n - y \in R /\ y \in Nat OBVIOUS
<1>5. \A y \in S : x >= y
  <2> HIDE DEF R
  <2>1. x \in Nat BY <1>4
  <2>2. \A y \in S : y \in Nat /\ n - x <= n - y BY <1>2, <1>3, <1>4
  <2> QED BY <2>1, <2>2
<1>6. \E z \in S : \A y \in S : z >= y BY <1>5
<1>7. Max(S) \in S /\ \A y \in S : Max(S) >= y BY <1>6 DEF Max
<1>8. \A y \in S : y \in Int OBVIOUS
<1> QED BY <1>7, <1>8

(* A sequence without its i-th element. *)
LEMMA RemoveAtShifts ==
  ASSUME NEW S, NEW s \in Seq(S), NEW i \in 1 .. Len(s)
  PROVE  /\ RemoveAt(s, i) \in Seq(S)
         /\ Len(RemoveAt(s, i)) = Len(s) - 1
         /\ \A j \in 1 .. Len(s) - 1 :
              RemoveAt(s, i)[j] = s[IF j < i THEN j ELSE j + 1]
<1> DEFINE a == SubSeq(s, 1, i - 1)
           b == SubSeq(s, i + 1, Len(s))
           n == Len(s)
<1>1. n \in Nat /\ i \in 1 .. n /\ \A j \in 1 .. n : s[j] \in S BY ElementOfSeq
<1>2. /\ a \in Seq(S) /\ Len(a) = i - 1
      /\ \A j \in 1 .. i - 1 : a[j] = s[j]
  <2>1. \A j \in 1 .. i - 1 : s[j] \in S BY <1>1
  <2>2. /\ a \in Seq(S) /\ Len(a) = IF 1 <= i - 1 THEN i - 1 - 1 + 1 ELSE 0
        /\ \A j \in 1 .. i - 1 - 1 + 1 : a[j] = s[1 + j - 1]
    BY <2>1, SubSeqProperties
  <2> HIDE DEF a
  <2> QED BY <1>1, <2>2
<1>3. /\ b \in Seq(S) /\ Len(b) = n - i
      /\ \A j \in 1 .. n - i : b[j] = s[i + j]
  <2>1. \A j \in i + 1 .. n : s[j] \in S BY <1>1
  <2>2. /\ b \in Seq(S) /\ Len(b) = IF i + 1 <= n THEN n - (i + 1) + 1 ELSE 0
        /\ \A j \in 1 .. n - (i + 1) + 1 : b[j] = s[i + 1 + j - 1]
    BY <1>1, <2>1, SubSeqProperties
  <2> HIDE DEF b
  <2> QED BY <1>1, <2>2
<1> HIDE DEF a, b
<1>4. /\ a \o b \in Seq(S)
      /\ Len(a \o b) = Len(a) + Len(b)
      /\ \A j \in 1 .. Len(a) + Len(b) :
           (a \o b)[j] = IF j <= Len(a) THEN a[j] ELSE b[j - Len(a)]
  BY ZenonT(60), <1>2, <1>3, ConcatProperties
<1>5. Len(a) + Len(b) = n - 1 BY <1>1, <1>2, <1>3
<1>6. \A j \in 1 .. n - 1 : (a \o b)[j] = s[IF j < i THEN j ELSE j + 1]
  <2> TAKE j \in 1 .. n - 1
  <2>1. (a \o b)[j] = IF j <= Len(a) THEN a[j] ELSE b[j - Len(a)] BY <1>4, <1>5
  <2>2. CASE j < i BY <1>1, <1>2, <2>1, <2>2
  <2>3. CASE ~(j < i)
    <3>1. j - Len(a) \in 1 .. n - i /\ ~(j <= Len(a)) /\ i + (j - Len(a)) = j + 1
      BY <1>1, <1>2, <2>3
    <3> QED BY <1>3, <2>1, <2>3, <3>1
  <2> QED BY <2>2, <2>3
<1> QED BY <1>4, <1>5, <1>6 DEF RemoveAt, a, b, n

\* u is s without its i-th element.
Shifted(u, s, i) ==
  /\ Len(u) = Len(s) - 1
  /\ \A j \in 1 .. Len(s) - 1 : u[j] = s[IF j < i THEN j ELSE j + 1]

(* An injective sequence loses exactly the element that is removed. *)
LEMMA ShiftedSet ==
  ASSUME NEW S, NEW s \in Seq(S), NEW u \in Seq(S), NEW i \in 1 .. Len(s),
         Shifted(u, s, i), IsInjective(s)
  PROVE  IsInjective(u) /\ ToSet(u) = ToSet(s) \ {s[i]}
<1> DEFINE n == Len(s)
           f(j) == IF j < i THEN j ELSE j + 1
<1>1. /\ n \in Nat /\ i \in 1 .. n /\ DOMAIN s = 1 .. n /\ DOMAIN u = 1 .. n - 1
      /\ Len(u) = n - 1
  BY DEF Shifted
<1>2. \A j \in 1 .. n - 1 : f(j) \in 1 .. n /\ f(j) # i /\ u[j] = s[f(j)]
  BY <1>1 DEF Shifted
<1>3. \A j, k \in 1 .. n - 1 : f(j) = f(k) => j = k BY <1>1
<1>4. \A x \in 1 .. n : x # i => \E j \in 1 .. n - 1 : f(j) = x
  <2> TAKE x \in 1 .. n
  <2> HAVE x # i
  <2>1. CASE x < i BY <1>1, <2>1
  <2>2. CASE ~(x < i)
    <3>1. x - 1 \in 1 .. n - 1 /\ f(x - 1) = x BY <1>1, <2>2
    <3> QED BY <3>1
  <2> QED BY <2>1, <2>2
<1> HIDE DEF f
<1>5. \A x, y \in 1 .. n : s[x] = s[y] => x = y BY <1>1 DEF IsInjective
<1>6. IsInjective(u)
  <2>1. \A j, k \in 1 .. n - 1 : u[j] = u[k] => j = k BY ZenonT(60), <1>2, <1>3, <1>5
  <2> QED BY <1>1, <2>1 DEF IsInjective
<1>7. \A x \in ToSet(u) : x \in ToSet(s) \ {s[i]}
  <2> TAKE x \in ToSet(u)
  <2>1. PICK j \in 1 .. n - 1 : x = u[j] BY <1>1 DEF ToSet
  <2> QED BY <1>1, <1>2, <1>5, <2>1 DEF ToSet
<1>8. \A x \in ToSet(s) \ {s[i]} : x \in ToSet(u)
  <2> TAKE x \in ToSet(s) \ {s[i]}
  <2>1. PICK j \in 1 .. n : x = s[j] /\ j # i BY <1>1 DEF ToSet
  <2>2. PICK k \in 1 .. n - 1 : f(k) = j BY <1>4, <2>1
  <2> QED BY <1>1, <1>2, <2>1, <2>2 DEF ToSet
<1> QED BY <1>6, <1>7, <1>8

(* Without, on a list that has no element twice. *)
LEMMA WithoutIs ==
  ASSUME NEW S, NEW s \in Seq(S), NEW x, IsInjective(s)
  PROVE  /\ Without(s, x) \in Seq(S)
         /\ IsInjective(Without(s, x))
         /\ ToSet(Without(s, x)) = ToSet(s) \ {x}
         /\ Len(Without(s, x)) = IF x \in ToSet(s) THEN Len(s) - 1 ELSE Len(s)
<1>1. Len(s) \in Nat /\ DOMAIN s = 1 .. Len(s) OBVIOUS
<1>2. CASE x \in ToSet(s)
  <2> DEFINE I == {i \in 1 .. Len(s) : s[i] = x}
  <2>1. I # {} /\ I \subseteq Nat /\ \E i \in 1 .. Len(s) : s[i] = x
    BY <1>1, <1>2 DEF ToSet
  <2>2. Min(I) \in I BY <2>1, MinIn
  <2>3. Without(s, x) = RemoveAt(s, Min(I))
    BY <2>1 DEF Without, RemoveFirst, SelectInSeq
  <2> DEFINE m == Min(I)
  <2>4. m \in 1 .. Len(s) /\ s[m] = x BY <2>2
  <2> HIDE DEF m, I
  <2>5. /\ RemoveAt(s, m) \in Seq(S) /\ Shifted(RemoveAt(s, m), s, m)
    BY <2>4, RemoveAtShifts DEF Shifted
  <2>6. IsInjective(RemoveAt(s, m)) /\ ToSet(RemoveAt(s, m)) = ToSet(s) \ {s[m]}
    BY <2>4, <2>5, ShiftedSet
  <2>7. Without(s, x) = RemoveAt(s, m) BY <2>3 DEF m
  <2> QED BY <1>2, <2>4, <2>5, <2>6, <2>7 DEF Shifted
<1>3. CASE x \notin ToSet(s)
  <2>1. Without(s, x) = s BY <1>1, <1>3 DEF Without, RemoveFirst, ToSet
  <2> QED BY <1>3, <2>1
<1> QED BY <1>2, <1>3

(* The head of a list that has no element twice. *)
LEMMA HeadIs ==
  ASSUME NEW S, NEW s \in Seq(S), s # <<>>
  PROVE  /\ Head(s) \in S /\ Head(s) \in ToSet(s)
         /\ Tail(s) \in Seq(S) /\ Len(Tail(s)) = Len(s) - 1
         /\ ToSet(Tail(s)) \subseteq ToSet(s)
         /\ Len(s) \in Nat \ {0}
         /\ IsInjective(s) => /\ IsInjective(Tail(s))
                              /\ ToSet(Tail(s)) = ToSet(s) \ {Head(s)}
<1>1. /\ Len(s) \in Nat \ {0} /\ 1 \in 1 .. Len(s) /\ DOMAIN s = 1 .. Len(s)
      /\ Head(s) = s[1]
  OBVIOUS
<1>2. Tail(s) \in Seq(S) /\ Shifted(Tail(s), s, 1)
  <2>1. /\ Tail(s) \in Seq(S) /\ Len(Tail(s)) = Len(s) - 1
        /\ \A j \in 1 .. Len(Tail(s)) : Tail(s)[j] = s[j + 1]
    BY HeadTailProperties
  <2> QED BY <1>1, <2>1 DEF Shifted
<1>3. IsInjective(s) => IsInjective(Tail(s)) /\ ToSet(Tail(s)) = ToSet(s) \ {s[1]}
  BY <1>1, <1>2, ShiftedSet
<1>4. ToSet(Tail(s)) \subseteq ToSet(s) BY <1>1, <1>2 DEF ToSet, Shifted
<1>5. Head(s) \in ToSet(s) BY <1>1 DEF ToSet
<1>6. Tail(s) \in Seq(S) /\ Len(Tail(s)) = Len(s) - 1 /\ s[1] \in S
  BY <1>1, <1>2 DEF Shifted
<1> QED BY <1>1, <1>3, <1>4, <1>5, <1>6

(* A new element at the end. *)
LEMMA AppendIs ==
  ASSUME NEW S, NEW s \in Seq(S), NEW x \in S
  PROVE  /\ Append(s, x) \in Seq(S) /\ Len(Append(s, x)) = Len(s) + 1
         /\ ToSet(Append(s, x)) = ToSet(s) \cup {x}
         /\ Append(s, x) # <<>>
         /\ IsInjective(s) /\ x \notin ToSet(s) => IsInjective(Append(s, x))
<1> DEFINE u == Append(s, x)
<1>1. /\ Len(s) \in Nat /\ DOMAIN s = 1 .. Len(s) /\ u \in Seq(S)
      /\ Len(u) = Len(s) + 1 /\ DOMAIN u = 1 .. Len(s) + 1
      /\ u # <<>>
      /\ \A i \in 1 .. Len(s) : u[i] = s[i]
      /\ u[Len(s) + 1] = x
  OBVIOUS
<1> HIDE DEF u
<1>2. ToSet(u) = ToSet(s) \cup {x} BY <1>1 DEF ToSet
<1>3. ASSUME IsInjective(s), x \notin ToSet(s) PROVE IsInjective(u)
  BY <1>1, <1>3 DEF ToSet, IsInjective
<1> QED BY <1>1, <1>2, <1>3 DEF u

(* Two lists one after the other. *)
LEMMA ConcatIs ==
  ASSUME NEW S, NEW s \in Seq(S), NEW t \in Seq(S)
  PROVE  /\ s \o t \in Seq(S) /\ Len(s \o t) = Len(s) + Len(t)
         /\ ToSet(s \o t) = ToSet(s) \cup ToSet(t)
         /\ (IsInjective(s) /\ IsInjective(t) /\ ToSet(s) \cap ToSet(t) = {})
              => IsInjective(s \o t)
<1> DEFINE u == s \o t
           m == Len(s)
           n == Len(t)
<1>1. /\ m \in Nat /\ DOMAIN s = 1 .. m /\ n \in Nat /\ DOMAIN t = 1 .. n
      /\ u \in Seq(S) /\ Len(u) = m + n /\ DOMAIN u = 1 .. m + n
      /\ \A i \in 1 .. m + n : u[i] = IF i <= m THEN s[i] ELSE t[i - m]
  BY ConcatProperties
<1> HIDE DEF u, m, n
<1>2. \A i \in 1 .. m : i \in 1 .. m + n /\ u[i] = s[i] BY <1>1
<1>3. \A i \in 1 .. n : i + m \in 1 .. m + n /\ u[i + m] = t[i]
  <2> TAKE i \in 1 .. n
  <2>1. i + m \in 1 .. m + n /\ ~(i + m <= m) /\ (i + m) - m = i BY <1>1
  <2> QED BY <1>1, <2>1
<1>4. \A i \in 1 .. m + n : i \in 1 .. m \/ (i - m \in 1 .. n /\ u[i] = t[i - m])
  BY <1>1
<1>5. ToSet(u) = ToSet(s) \cup ToSet(t)
  <2>1. \A x \in ToSet(u) : x \in ToSet(s) \cup ToSet(t)
    BY ZenonT(60), <1>1, <1>2, <1>4 DEF ToSet
  <2>2. \A x \in ToSet(s) : x \in ToSet(u) BY <1>1, <1>2 DEF ToSet
  <2>3. \A x \in ToSet(t) : x \in ToSet(u)
    <3> TAKE x \in ToSet(t)
    <3>1. PICK i \in 1 .. n : x = t[i] BY <1>1 DEF ToSet
    <3>2. i + m \in DOMAIN u /\ u[i + m] = x BY <1>1, <1>3, <3>1
    <3> QED BY <3>2 DEF ToSet
  <2> QED BY <2>1, <2>2, <2>3
<1>6. ASSUME IsInjective(s), IsInjective(t), ToSet(s) \cap ToSet(t) = {}
      PROVE  IsInjective(u)
  <2>1. \A i \in 1 .. m, j \in 1 .. n : s[i] # t[j] BY <1>1, <1>6 DEF ToSet
  <2>2. \A i, j \in 1 .. m : s[i] = s[j] => i = j BY <1>1, <1>6 DEF IsInjective
  <2>3. \A i, j \in 1 .. n : t[i] = t[j] => i = j BY <1>1, <1>6 DEF IsInjective
  <2>4. \A i, j \in 1 .. m + n : u[i] = u[j] => i = j
    <3> SUFFICES ASSUME NEW i \in 1 .. m + n, NEW j \in 1 .. m + n, u[i] = u[j] PROVE i = j
      OBVIOUS
    <3>1. CASE i \in 1 .. m /\ j \in 1 .. m BY <1>2, <2>2, <3>1
    <3>2. CASE i \in 1 .. m /\ j \notin 1 .. m BY <1>2, <1>4, <2>1, <3>2
    <3>3. CASE i \notin 1 .. m /\ j \in 1 .. m BY <1>2, <1>4, <2>1, <3>3
    <3>4. CASE i \notin 1 .. m /\ j \notin 1 .. m
      <4>1. i - m = j - m BY <1>4, <2>3, <3>4
      <4> QED BY <1>1, <4>1
    <3> QED BY <3>1, <3>2, <3>3, <3>4
  <2> QED BY <1>1, <2>4 DEF IsInjective
<1>7. m = Len(s) /\ n = Len(t) /\ u = s \o t BY DEF m, n, u
<1> QED BY <1>1, <1>5, <1>6, <1>7

(* A stretch of a list. *)
LEMMA SubSeqIs ==
  ASSUME NEW S, NEW s \in Seq(S), NEW m \in Nat \ {0}, NEW n \in Nat, n <= Len(s)
  PROVE  /\ SubSeq(s, m, n) \in Seq(S)
         /\ Len(SubSeq(s, m, n)) = IF m <= n THEN n - m + 1 ELSE 0
         /\ ToSet(SubSeq(s, m, n)) = {s[i] : i \in m .. n}
         /\ IsInjective(s) => IsInjective(SubSeq(s, m, n))
<1> DEFINE u == SubSeq(s, m, n)
<1>1. Len(s) \in Nat /\ DOMAIN s = 1 .. Len(s) /\ \A i \in m .. n : s[i] \in S
  OBVIOUS
<1>2. /\ u \in Seq(S) /\ Len(u) = IF m <= n THEN n - m + 1 ELSE 0
      /\ \A i \in 1 .. n - m + 1 : u[i] = s[m + i - 1]
  BY <1>1, SubSeqProperties
<1> HIDE DEF u
<1>3. DOMAIN u = 1 .. n - m + 1
  <2>1. DOMAIN u = 1 .. Len(u) BY <1>2
  <2>2. CASE m <= n BY <1>2, <2>1, <2>2
  <2>3. CASE ~(m <= n)
    <3>1. 1 .. n - m + 1 = {} BY <2>3
    <3>2. 1 .. Len(u) = {} BY <1>2, <2>3
    <3> QED BY <2>1, <3>1, <3>2
  <2> QED BY <2>2, <2>3
<1>4. ToSet(u) = {s[i] : i \in m .. n}
  <2>1. \A x \in ToSet(u) : \E i \in m .. n : x = s[i]
    <3> TAKE x \in ToSet(u)
    <3>1. PICK i \in 1 .. n - m + 1 : x = u[i] BY <1>3 DEF ToSet
    <3>2. m + i - 1 \in m .. n BY <3>1
    <3> QED BY <1>2, <3>1, <3>2
  <2>2. \A i \in m .. n : s[i] \in ToSet(u)
    <3> TAKE i \in m .. n
    <3>1. i - m + 1 \in 1 .. n - m + 1 /\ m + (i - m + 1) - 1 = i OBVIOUS
    <3>2. u[i - m + 1] = s[i] BY <1>2, <3>1
    <3> QED BY <1>3, <3>1, <3>2 DEF ToSet
  <2> QED BY <2>1, <2>2
<1>5. ASSUME IsInjective(s) PROVE IsInjective(u)
  <2>1. \A i \in 1 .. n - m + 1 : m + i - 1 \in DOMAIN s BY <1>1
  <2>2. \A i, j \in 1 .. n - m + 1 : u[i] = u[j] => i = j
    <3> SUFFICES ASSUME NEW i \in 1 .. n - m + 1, NEW j \in 1 .. n - m + 1, u[i] = u[j]
                 PROVE  i = j
      OBVIOUS
    <3>1. m + i - 1 = m + j - 1 BY <1>2, <1>5, <2>1 DEF IsInjective
    <3> QED BY <3>1
  <2> QED BY <1>3, <2>2 DEF IsInjective
<1> QED BY <1>2, <1>4, <1>5 DEF u

(* A list that has no element twice is as long as its set is large. *)
LEMMA CardToSet ==
  ASSUME NEW S, NEW s \in Seq(S), IsInjective(s)
  PROVE  IsFiniteSet(ToSet(s)) /\ Cardinality(ToSet(s)) = Len(s)
<1>1. Len(s) \in Nat /\ DOMAIN s = 1 .. Len(s) /\ s \in [1 .. Len(s) -> ToSet(s)]
  BY DEF ToSet
<1>2. s \in Bijection(1 .. Len(s), ToSet(s))
  BY <1>1 DEF Bijection, Injection, Surjection, IsInjective, ToSet
<1>3. IsFiniteSet(1 .. Len(s)) /\ Cardinality(1 .. Len(s)) = Len(s)
  <2>1. 1 \in Int /\ Len(s) \in Int BY <1>1
  <2>2. IsFiniteSet(1 .. Len(s)) /\ Cardinality(1 .. Len(s)) = IF 1 > Len(s) THEN 0 ELSE Len(s) - 1 + 1
    BY <2>1, FS_Interval
  <2> QED BY <1>1, <2>2
<1> QED BY <1>2, <1>3, FS_Bijection DEF ExistsBijection

------------------------------
(* The CPU tier. *)

\* u is t after it lost blocks nobody writes out.
Evicted(t, u) ==
  /\ DOMAIN u.ref \subseteq DOMAIN t.ref
  /\ \A k \in DOMAIN u.ref : u.ref[k] = t.ref[k]
  /\ \A k \in DOMAIN t.ref \ DOMAIN u.ref : t.ref[k] = 0

(* evict(n), for no more blocks than can be evicted. *)
LEMMA EvictKeeps ==
  ASSUME NEW t, CPUOk(t), NEW n \in Nat, n <= Len(t.lru)
  PROVE  /\ CPUOk(Evict(t, n)) /\ Evicted(t, Evict(t, n))
         /\ Evict(t, n).used = t.used - n
         /\ Evict(t, n).evictable = t.evictable - n
<1> DEFINE u == Evict(t, n)
           gone == SubSeq(t.lru, 1, n)
           left == SubSeq(t.lru, n + 1, Len(t.lru))
           D == ToSet(gone)
<1>1. /\ CPUShape(t) /\ t.lru \in Seq(Keys) /\ IsInjective(t.lru)
      /\ IsFiniteSet(DOMAIN t.ref) /\ t.used = Cardinality(DOMAIN t.ref)
      /\ t.evictable = Len(t.lru) /\ Len(t.lru) \in Nat /\ t.used \in Nat
      /\ ToSet(t.lru) = {k \in DOMAIN t.ref : t.ref[k] = 0}
      /\ t.used <= CPUCapacity /\ CPUCapacity \in Nat
  BY TierAssumption, FS_CardinalityType DEF CPUOk, CPUShape
<1>2. /\ gone \in Seq(Keys) /\ Len(gone) = n /\ IsInjective(gone)
      /\ D = {t.lru[i] : i \in 1 .. n}
  <2>1. /\ gone \in Seq(Keys) /\ Len(gone) = IF 1 <= n THEN n - 1 + 1 ELSE 0
        /\ IsInjective(gone) /\ D = {t.lru[i] : i \in 1 .. n}
    <3> HIDE DEF gone
    <3> USE DEF gone
    <3> QED BY SMTT(60), <1>1, SubSeqIs
  <2> HIDE DEF gone, D
  <2> QED BY <2>1
<1>3. /\ left \in Seq(Keys) /\ Len(left) = Len(t.lru) - n /\ IsInjective(left)
      /\ ToSet(left) = {t.lru[i] : i \in n + 1 .. Len(t.lru)}
  <2>1. /\ left \in Seq(Keys)
        /\ Len(left) = IF n + 1 <= Len(t.lru) THEN Len(t.lru) - (n + 1) + 1 ELSE 0
        /\ IsInjective(left) /\ ToSet(left) = {t.lru[i] : i \in n + 1 .. Len(t.lru)}
    <3>1. n + 1 \in Nat \ {0} OBVIOUS
    <3> QED BY SMTT(60), <1>1, <3>1, SubSeqIs
  <2> HIDE DEF left
  <2> QED BY <1>1, <2>1
<1>4. u = [ref |-> Drop(t.ref, D), lru |-> left, used |-> t.used - n,
           evictable |-> t.evictable - n]
  <2>1. (IF n < Len(t.lru) THEN n ELSE Len(t.lru)) = n BY <1>1
  <2> QED BY <2>1 DEF Evict
<1> HIDE DEF u, gone, left
<1>5. D \subseteq DOMAIN t.ref /\ ToSet(left) = ToSet(t.lru) \ D
  <2>1. DOMAIN t.lru = 1 .. Len(t.lru) BY <1>1
  <2>2. ToSet(t.lru) = {t.lru[i] : i \in 1 .. Len(t.lru)} BY <2>1 DEF ToSet
  <2>3. D \subseteq ToSet(t.lru) BY <1>1, <1>2, <2>2
  <2>4. \A i, j \in 1 .. Len(t.lru) : t.lru[i] = t.lru[j] => i = j
    BY <1>1, <2>1 DEF IsInjective
  <2>5. \A x \in ToSet(left) : x \in ToSet(t.lru) /\ x \notin D
    <3> TAKE x \in ToSet(left)
    <3>1. PICK i \in n + 1 .. Len(t.lru) : x = t.lru[i] BY <1>3
    <3>2. i \in 1 .. Len(t.lru) /\ \A j \in 1 .. n : j # i /\ j \in 1 .. Len(t.lru)
      BY <1>1, <3>1
    <3>3. x \in ToSet(t.lru) BY <2>2, <3>1, <3>2
    <3>4. x \notin D BY <1>2, <2>4, <3>1, <3>2
    <3> QED BY <3>3, <3>4
  <2>6. \A x \in ToSet(t.lru) : x \notin D => x \in ToSet(left)
    <3> TAKE x \in ToSet(t.lru)
    <3> HAVE x \notin D
    <3>1. PICK i \in 1 .. Len(t.lru) : x = t.lru[i] BY <2>2
    <3>2. i \notin 1 .. n BY <1>2, <3>1
    <3>3. i \in n + 1 .. Len(t.lru) BY <1>1, <3>1, <3>2
    <3> QED BY <1>3, <3>1, <3>3
  <2> QED BY <1>1, <2>3, <2>5, <2>6
<1>6. IsFiniteSet(D) /\ Cardinality(D) = n BY <1>2, CardToSet
<1> HIDE DEF D
<1>7. /\ DOMAIN u.ref = DOMAIN t.ref \ D
      /\ \A k \in DOMAIN t.ref \ D : u.ref[k] = t.ref[k]
      /\ u.ref = [x \in DOMAIN u.ref |-> u.ref[x]]
      /\ u.lru = left /\ u.used = t.used - n /\ u.evictable = t.evictable - n
      /\ u = [ref |-> u.ref, lru |-> u.lru, used |-> u.used, evictable |-> u.evictable]
  BY <1>4 DEF Drop
<1>8. IsFiniteSet(DOMAIN u.ref) /\ Cardinality(DOMAIN u.ref) = t.used - n
  <2>1. /\ IsFiniteSet(DOMAIN t.ref \ D)
        /\ Cardinality(DOMAIN t.ref \ D) = t.used - Cardinality(DOMAIN t.ref \cap D)
    BY <1>1, FS_Difference
  <2>2. DOMAIN t.ref \cap D = D BY <1>5
  <2> QED BY <1>6, <1>7, <2>1, <2>2
<1>10. CPUShape(u)
  <2>1. \A k \in DOMAIN u.ref : u.ref[k] \in {-1} \cup Nat /\ k \in Keys
    BY <1>1, <1>7 DEF CPUShape, IsMap
  <2> QED BY <1>3, <1>7, <2>1 DEF CPUShape, IsMap
<1>11. ToSet(u.lru) = {k \in DOMAIN u.ref : u.ref[k] = 0} BY <1>1, <1>5, <1>7
<1>12. CPUOk(u)
  <2>1. u.used <= CPUCapacity BY <1>1, <1>7
  <2>2. u.evictable = Len(u.lru) BY <1>1, <1>3, <1>7
  <2> QED BY <1>3, <1>7, <1>8, <1>10, <1>11, <2>1, <2>2 DEF CPUOk
<1>13. Evicted(t, u)
  <2>1. \A k \in D : t.ref[k] = 0 BY SMTT(60), <1>1, <1>2, <1>5 DEF ToSet, D
  <2> QED BY <1>7, <2>1 DEF Evicted
<1> QED BY <1>7, <1>12, <1>13 DEF u

(* touch and touchKey only reorder the list. *)
LEMMA ReorderKeeps ==
  ASSUME NEW t, CPUOk(t), NEW k \in DOMAIN t.ref, t.ref[k] = 0
  PROVE  LET u == [t EXCEPT !.lru = Append(Without(@, k), k)]
         IN  CPUOk(u) /\ u.ref = t.ref
<1> DEFINE l == Append(Without(t.lru, k), k)
           u == [t EXCEPT !.lru = l]
<1>1. /\ CPUShape(t) /\ t.lru \in Seq(Keys) /\ IsInjective(t.lru) /\ k \in Keys
      /\ Len(t.lru) \in Nat
      /\ t.evictable = Len(t.lru)
      /\ ToSet(t.lru) = {x \in DOMAIN t.ref : t.ref[x] = 0}
      /\ t = [ref |-> t.ref, lru |-> t.lru, used |-> t.used, evictable |-> t.evictable]
  BY DEF CPUOk, CPUShape, IsMap
<1>2. /\ Without(t.lru, k) \in Seq(Keys) /\ IsInjective(Without(t.lru, k))
      /\ ToSet(Without(t.lru, k)) = ToSet(t.lru) \ {k}
      /\ Len(Without(t.lru, k)) = Len(t.lru) - 1
  BY <1>1, WithoutIs
<1>3. l \in Seq(Keys) /\ IsInjective(l) /\ ToSet(l) = ToSet(t.lru) /\ Len(l) = Len(t.lru)
  <2>1. /\ l \in Seq(Keys) /\ IsInjective(l) /\ Len(l) = Len(t.lru) - 1 + 1
        /\ ToSet(l) = (ToSet(t.lru) \ {k}) \cup {k}
    BY <1>1, <1>2, AppendIs
  <2> HIDE DEF l
  <2> QED BY <1>1, <2>1
<1> HIDE DEF l
<1>4. u = [ref |-> t.ref, lru |-> l, used |-> t.used, evictable |-> t.evictable]
  BY <1>1
<1> HIDE DEF u
<1>5. /\ u.ref = t.ref /\ u.lru = l /\ u.used = t.used /\ u.evictable = t.evictable
      /\ u = [ref |-> u.ref, lru |-> u.lru, used |-> u.used, evictable |-> u.evictable]
  BY <1>4
<1>6. CPUOk(u) BY <1>1, <1>3, <1>5 DEF CPUOk, CPUShape
<1> QED BY <1>5, <1>6 DEF u, l

(* touchKey. *)
LEMMA TouchKeyKeeps ==
  ASSUME NEW t, CPUOk(t), NEW k
  PROVE  CPUOk(TouchKey(t, k)) /\ TouchKey(t, k).ref = t.ref
  BY ReorderKeeps DEF TouchKey

(* touch of the two-tier cache, where nothing is pinned. *)
LEMMA TieredTouchKeeps ==
  ASSUME NEW t, CPUOk(t), \A k \in DOMAIN t.ref : t.ref[k] = 0, NEW k
  PROVE  CPUOk(TieredTouch(t, k)) /\ TieredTouch(t, k).ref = t.ref
  BY ReorderKeeps DEF TieredTouch

\* u is t with k stored, at the cost of blocks nobody writes out.
Stored(t, u, k) ==
  /\ k \in DOMAIN u.ref /\ u.ref[k] = 0
  /\ \A x \in DOMAIN u.ref \ {k} : x \in DOMAIN t.ref /\ u.ref[x] = t.ref[x]
  /\ \A x \in DOMAIN t.ref \ DOMAIN u.ref : t.ref[x] = 0

(* A new block in a tier with room. *)
LEMMA InsertKeeps ==
  ASSUME NEW t, CPUOk(t), NEW k \in Keys, k \notin DOMAIN t.ref, t.used < CPUCapacity
  PROVE  LET u == [ref |-> Put(t.ref, k, 0), lru |-> Append(t.lru, k),
                   used |-> t.used + 1, evictable |-> t.evictable + 1]
         IN  CPUOk(u) /\ Stored(t, u, k)
<1> DEFINE u == [ref |-> Put(t.ref, k, 0), lru |-> Append(t.lru, k),
                 used |-> t.used + 1, evictable |-> t.evictable + 1]
<1>1. /\ CPUShape(t) /\ t.lru \in Seq(Keys) /\ IsInjective(t.lru)
      /\ Len(t.lru) \in Nat /\ t.used \in Nat /\ CPUCapacity \in Nat
      /\ IsFiniteSet(DOMAIN t.ref) /\ t.used = Cardinality(DOMAIN t.ref)
      /\ t.evictable = Len(t.lru)
      /\ ToSet(t.lru) = {x \in DOMAIN t.ref : t.ref[x] = 0}
  BY TierAssumption, FS_CardinalityType DEF CPUOk, CPUShape
<1>2. /\ u.lru \in Seq(Keys) /\ IsInjective(u.lru) /\ Len(u.lru) = Len(t.lru) + 1
      /\ ToSet(u.lru) = ToSet(t.lru) \cup {k}
  <2>1. k \notin ToSet(t.lru) BY <1>1
  <2> QED BY <1>1, <2>1, AppendIs
<1>3. /\ DOMAIN u.ref = DOMAIN t.ref \cup {k}
      /\ u.ref[k] = 0 /\ \A x \in DOMAIN t.ref : u.ref[x] = t.ref[x]
      /\ u.ref = [x \in DOMAIN u.ref |-> u.ref[x]]
      /\ u.used = t.used + 1 /\ u.evictable = t.evictable + 1
      /\ u = [ref |-> u.ref, lru |-> u.lru, used |-> u.used, evictable |-> u.evictable]
  BY DEF Put
<1> HIDE DEF u
<1>4. IsFiniteSet(DOMAIN u.ref) /\ Cardinality(DOMAIN u.ref) = t.used + 1
  <2>1. /\ IsFiniteSet(DOMAIN t.ref \cup {k})
        /\ Cardinality(DOMAIN t.ref \cup {k}) = Cardinality(DOMAIN t.ref) + 1
    BY <1>1, FS_AddElement
  <2> QED BY <1>1, <1>3, <2>1
<1>5. CPUShape(u) BY <1>1, <1>2, <1>3 DEF CPUShape, IsMap
<1>6. ToSet(u.lru) = {x \in DOMAIN u.ref : u.ref[x] = 0} BY <1>1, <1>2, <1>3
<1>7. CPUOk(u)
  <2>1. u.used <= CPUCapacity /\ u.evictable = Len(u.lru) BY <1>1, <1>2, <1>3
  <2> QED BY <1>2, <1>3, <1>4, <1>5, <1>6, <2>1 DEF CPUOk
<1>8. Stored(t, u, k) BY <1>3 DEF Stored
<1> QED BY <1>7, <1>8 DEF u

(* store of a key that is absent, when it does not fail. *)
LEMMA StoreKeeps ==
  ASSUME NEW t, CPUOk(t), NEW k \in Keys, k \notin DOMAIN t.ref, CanStore(t)
  PROVE  CPUOk(Store(t, k)) /\ Stored(t, Store(t, k), k)
<1>1. /\ t.lru \in Seq(Keys) /\ Len(t.lru) \in Nat /\ t.used \in Nat /\ CPUCapacity \in Nat
      /\ t.used <= CPUCapacity
  BY TierAssumption, FS_CardinalityType DEF CPUOk, CPUShape
<1>2. CASE t.used < CPUCapacity
  <2>1. Store(t, k) = [ref |-> Put(t.ref, k, 0), lru |-> Append(t.lru, k),
                       used |-> t.used + 1, evictable |-> t.evictable + 1]
    <3>1. CanStore(t) /\ ~(t.used >= CPUCapacity) BY <1>1, <1>2 DEF CanStore
    <3> QED BY <3>1 DEF Store
  <2> QED BY <1>2, <2>1, InsertKeeps
<1>3. CASE ~(t.used < CPUCapacity)
  <2> DEFINE room == Evict(t, 1)
  <2>1. 1 <= Len(t.lru) BY <1>1, <1>3 DEF CanStore
  <2>2. CPUOk(room) /\ Evicted(t, room) /\ room.used = t.used - 1
    BY <2>1, EvictKeeps
  <2>3. Store(t, k) = [ref |-> Put(room.ref, k, 0), lru |-> Append(room.lru, k),
                       used |-> room.used + 1, evictable |-> room.evictable + 1]
    <3>1. CanStore(t) /\ t.used >= CPUCapacity BY <1>1, <1>3
    <3> QED BY <3>1 DEF Store
  <2> HIDE DEF room
  <2>4. room.used < CPUCapacity /\ k \notin DOMAIN room.ref
    BY <1>1, <2>2 DEF Evicted
  <2>5. CPUOk(Store(t, k)) /\ Stored(room, Store(t, k), k)
    BY <2>2, <2>3, <2>4, InsertKeeps
  <2>6. Stored(t, Store(t, k), k) BY <2>2, <2>5 DEF Stored, Evicted
  <2> QED BY <2>5, <2>6
<1> QED BY <1>2, <1>3

(* store of the two-tier cache never fails: everything can be evicted. *)
LEMMA TieredStoreKeeps ==
  ASSUME NEW t, CPUOk(t), NEW k \in Keys, k \notin DOMAIN t.ref,
         \A x \in DOMAIN t.ref : t.ref[x] = 0
  PROVE  CPUOk(TieredStore(t, k)) /\ Stored(t, TieredStore(t, k), k)
<1>1. /\ t.lru \in Seq(Keys) /\ Len(t.lru) \in Nat /\ t.used \in Nat
      /\ CPUCapacity \in Nat \ {0} /\ t.used <= CPUCapacity
      /\ IsFiniteSet(DOMAIN t.ref) /\ t.used = Cardinality(DOMAIN t.ref)
      /\ IsInjective(t.lru) /\ ToSet(t.lru) = {x \in DOMAIN t.ref : t.ref[x] = 0}
  BY TierAssumption, FS_CardinalityType DEF CPUOk, CPUShape
<1>2. Cardinality(ToSet(t.lru)) = Len(t.lru) /\ ToSet(t.lru) = DOMAIN t.ref
  BY <1>1, CardToSet
<1>3. Len(t.lru) = t.used BY <1>1, <1>2
<1>4. CanStore(t)
  <2>1. CASE t.used < CPUCapacity BY <2>1 DEF CanStore
  <2>2. CASE ~(t.used < CPUCapacity)
    <3>1. Len(t.lru) # 0 BY <1>1, <1>3, <2>2
    <3>2. t.lru # <<>> BY <3>1
    <3> QED BY <3>2 DEF CanStore
  <2> QED BY <2>1, <2>2
<1>5. t.used >= CPUCapacity => t.lru # <<>> BY <1>1, <1>4 DEF CanStore
<1>6. TieredStore(t, k) = Store(t, k)
  BY <1>4, <1>5 DEF TieredStore, Store, EvictHead
<1> QED BY <1>4, <1>6, StoreKeeps

\* u is t with a slot reserved for each of the keys that was absent.
Prepared(t, u, keys) ==
  /\ \A x \in DOMAIN u.ref :
       \/ x \in DOMAIN t.ref /\ u.ref[x] = t.ref[x]
       \/ x \in ToSet(keys) /\ x \notin DOMAIN t.ref /\ u.ref[x] = -1
  /\ \A x \in DOMAIN t.ref \ DOMAIN u.ref : t.ref[x] = 0

(* prepareStore, through the gate: there is room for what it reserves. *)
LEMMA PrepareKeeps ==
  ASSUME NEW t, CPUOk(t), NEW keys \in Seq(Keys), IsInjective(keys), Gate(t, keys)
  PROVE  CPUOk(PrepareStore(t, keys)) /\ Prepared(t, PrepareStore(t, keys), keys)
<1> DEFINE u == PrepareStore(t, keys)
           F == Fresh(t, keys)
           N == {keys[i] : i \in F}
           n == Cardinality(F)
           over == n - (CPUCapacity - t.used)
           room == IF over > 0 THEN Evict(t, over) ELSE t
<1>1. /\ t.lru \in Seq(Keys) /\ Len(t.lru) \in Nat /\ t.used \in Nat
      /\ CPUCapacity \in Nat \ {0} /\ t.used <= CPUCapacity /\ t.evictable = Len(t.lru)
  BY TierAssumption, FS_CardinalityType DEF CPUOk, CPUShape
<1>2. Len(keys) \in Nat /\ DOMAIN keys = 1 .. Len(keys) /\ \A i \in DOMAIN keys : keys[i] \in Keys
  OBVIOUS
<1>3. F \subseteq 1 .. Len(keys) /\ N \subseteq ToSet(keys) /\ N \subseteq Keys
      /\ N \cap DOMAIN t.ref = {}
  BY <1>2 DEF Fresh, ToSet
<1>4. IsFiniteSet(N) /\ Cardinality(N) = n /\ n \in Nat
  <2>1. IsFiniteSet(1 .. Len(keys))
    <3>1. 1 \in Int /\ Len(keys) \in Int BY <1>2
    <3> QED BY <3>1, FS_Interval
  <2>2. IsFiniteSet(F) BY <1>3, <2>1, FS_Subset
  <2> DEFINE g == [i \in F |-> keys[i]]
  <2>3. g \in Bijection(F, N)
    <3>1. g \in [F -> N] OBVIOUS
    <3>2. \A a, b \in F : keys[a] = keys[b] => a = b
      BY <1>2, <1>3 DEF IsInjective
    <3> QED BY <3>1, <3>2 DEF Bijection, Injection, Surjection, IsInjective
  <2> HIDE DEF F, N, g
  <2> QED BY <2>2, <2>3, FS_Bijection, FS_CardinalityType DEF ExistsBijection
<1>5. n <= (CPUCapacity - t.used) + t.evictable BY <1>1, <1>4 DEF Gate
<1>6. u = [room EXCEPT !.ref = [x \in DOMAIN @ \cup N |-> IF x \in DOMAIN @ THEN @[x] ELSE -1],
                       !.used = @ + n]
  BY DEF PrepareStore
<1> HIDE DEF u, F, N, n
<1>7. /\ CPUOk(room) /\ Evicted(t, room) /\ room.used + n <= CPUCapacity
      /\ room.used \in Nat
  <2>1. CASE over > 0
    <3>1. over \in Nat /\ over <= Len(t.lru) BY SMTT(60), <1>1, <1>4, <1>5, <2>1
    <3>2. /\ CPUOk(Evict(t, over)) /\ Evicted(t, Evict(t, over))
          /\ Evict(t, over).used = t.used - over
      BY <3>1, EvictKeeps
    <3>3. room = Evict(t, over) BY <2>1
    <3>4. (t.used - over) + n = CPUCapacity BY <1>1, <1>4
    <3> HIDE DEF over, room
    <3>5. CPUOk(room) /\ Evicted(t, room) /\ room.used + n <= CPUCapacity
      BY <1>1, <3>2, <3>3, <3>4
    <3>6. room.used \in Nat BY <3>5, FS_CardinalityType DEF CPUOk
    <3> QED BY <3>5, <3>6
  <2>2. CASE ~(over > 0)
    <3>1. room = t /\ t.used + n <= CPUCapacity BY <1>1, <1>4, <2>2
    <3>2. Evicted(t, t) BY DEF Evicted
    <3> HIDE DEF over, room
    <3> QED BY <1>1, <3>1, <3>2
  <2> QED BY <2>1, <2>2
<1> HIDE DEF over, room
<1>8. /\ CPUShape(room) /\ IsFiniteSet(DOMAIN room.ref)
      /\ room.used = Cardinality(DOMAIN room.ref)
      /\ room.evictable = Len(room.lru) /\ IsInjective(room.lru)
      /\ ToSet(room.lru) = {k \in DOMAIN room.ref : room.ref[k] = 0}
      /\ DOMAIN room.ref \subseteq DOMAIN t.ref
  BY <1>7 DEF CPUOk, Evicted
<1>9. /\ DOMAIN u.ref = DOMAIN room.ref \cup N
      /\ \A x \in DOMAIN room.ref : u.ref[x] = room.ref[x]
      /\ \A x \in N : u.ref[x] = -1
      /\ u.ref = [x \in DOMAIN u.ref |-> u.ref[x]]
      /\ u.lru = room.lru /\ u.used = room.used + n /\ u.evictable = room.evictable
      /\ u = [ref |-> u.ref, lru |-> u.lru, used |-> u.used, evictable |-> u.evictable]
  <2>1. room = [ref |-> room.ref, lru |-> room.lru, used |-> room.used,
                evictable |-> room.evictable]
    BY <1>8 DEF CPUShape
  <2> DEFINE f == [x \in DOMAIN room.ref \cup N |->
                     IF x \in DOMAIN room.ref THEN room.ref[x] ELSE -1]
  <2>2. u = [ref |-> f, lru |-> room.lru, used |-> room.used + n,
             evictable |-> room.evictable]
    BY <1>6, <2>1
  <2>3. /\ DOMAIN f = DOMAIN room.ref \cup N
        /\ \A x \in DOMAIN room.ref : f[x] = room.ref[x]
        /\ \A x \in N : f[x] = -1
        /\ f = [x \in DOMAIN f |-> f[x]]
    BY <1>3, <1>8
  <2> HIDE DEF f
  <2> QED BY <2>2, <2>3
<1>10. IsFiniteSet(DOMAIN u.ref) /\ Cardinality(DOMAIN u.ref) = u.used
  <2>1. DOMAIN room.ref \cap N = {} BY <1>3, <1>8
  <2>2. /\ IsFiniteSet(DOMAIN room.ref \cup N)
        /\ Cardinality(DOMAIN room.ref \cup N) =
             Cardinality(DOMAIN room.ref) + Cardinality(N) - Cardinality(DOMAIN room.ref \cap N)
    BY <1>4, <1>8, FS_Union
  <2>3. Cardinality(DOMAIN room.ref \cap N) = 0 BY <2>1, FS_EmptySet
  <2> QED BY <1>4, <1>7, <1>8, <1>9, <2>2, <2>3
<1>11. CPUShape(u) BY <1>3, <1>8, <1>9 DEF CPUShape, IsMap
<1>12. ToSet(u.lru) = {k \in DOMAIN u.ref : u.ref[k] = 0} BY <1>8, <1>9
<1>13. CPUOk(u)
  <2>1. u.used <= CPUCapacity /\ u.evictable = Len(u.lru) /\ IsInjective(u.lru)
    BY <1>7, <1>8, <1>9
  <2> QED BY <1>10, <1>11, <1>12, <2>1 DEF CPUOk
<1>14. Prepared(t, u, keys) BY <1>3, <1>7, <1>9 DEF Prepared, Evicted
<1> QED BY <1>13, <1>14 DEF u

\* u is t with another reference count for k.
Counted(t, u, k, n) ==
  /\ DOMAIN u.ref = DOMAIN t.ref /\ u.ref[k] = n
  /\ \A x \in DOMAIN t.ref \ {k} : u.ref[x] = t.ref[x]

(* A block becomes evictable. *)
LEMMA ReadyKeeps ==
  ASSUME NEW t, CPUOk(t), NEW k \in DOMAIN t.ref, t.ref[k] # 0
  PROVE  CPUOk(Idle(t, k)) /\ Counted(t, Idle(t, k), k, 0)
<1> DEFINE f == [t.ref EXCEPT ![k] = 0]
           u == Idle(t, k)
<1>1. /\ CPUShape(t) /\ t.lru \in Seq(Keys) /\ IsInjective(t.lru) /\ k \in Keys
      /\ Len(t.lru) \in Nat
      /\ IsFiniteSet(DOMAIN t.ref) /\ t.used = Cardinality(DOMAIN t.ref)
      /\ t.evictable = Len(t.lru) /\ t.used <= CPUCapacity
      /\ ToSet(t.lru) = {x \in DOMAIN t.ref : t.ref[x] = 0}
      /\ t = [ref |-> t.ref, lru |-> t.lru, used |-> t.used, evictable |-> t.evictable]
  BY DEF CPUOk, CPUShape, IsMap
<1>2. /\ DOMAIN f = DOMAIN t.ref /\ f[k] = 0
      /\ \A x \in DOMAIN t.ref \ {k} : f[x] = t.ref[x]
      /\ f = [x \in DOMAIN f |-> f[x]]
  BY <1>1 DEF CPUShape, IsMap
<1>3. u = [ref |-> f, lru |-> Append(t.lru, k), used |-> t.used,
           evictable |-> t.evictable + 1]
  BY DEF Idle
<1> HIDE DEF f, u
<1>4. /\ u.ref = f /\ u.lru = Append(t.lru, k) /\ u.used = t.used
      /\ u.evictable = t.evictable + 1
      /\ u = [ref |-> u.ref, lru |-> u.lru, used |-> u.used, evictable |-> u.evictable]
  BY <1>3
<1>5. /\ u.lru \in Seq(Keys) /\ IsInjective(u.lru) /\ Len(u.lru) = Len(t.lru) + 1
      /\ ToSet(u.lru) = ToSet(t.lru) \cup {k}
  <2>1. k \notin ToSet(t.lru) BY <1>1
  <2>2. /\ Append(t.lru, k) \in Seq(Keys) /\ IsInjective(Append(t.lru, k))
        /\ Len(Append(t.lru, k)) = Len(t.lru) + 1
        /\ ToSet(Append(t.lru, k)) = ToSet(t.lru) \cup {k}
    BY <1>1, <2>1, AppendIs
  <2> QED BY <1>4, <2>2
<1>6. CPUShape(u) BY SMTT(60), <1>1, <1>2, <1>4, <1>5 DEF CPUShape, IsMap
<1>7. ToSet(u.lru) = {x \in DOMAIN u.ref : u.ref[x] = 0}
  BY <1>1, <1>2, <1>4, <1>5
<1>8. CPUOk(u) BY <1>1, <1>2, <1>4, <1>5, <1>6, <1>7 DEF CPUOk
<1>9. Counted(t, u, k, 0) BY <1>2, <1>4 DEF Counted
<1> QED BY <1>8, <1>9 DEF u

(* A count that was not zero and does not become zero. *)
LEMMA RecountKeeps ==
  ASSUME NEW t, CPUOk(t), NEW k \in DOMAIN t.ref, t.ref[k] # 0, NEW n \in Nat \ {0}
  PROVE  CPUOk(Recount(t, k, n)) /\ Counted(t, Recount(t, k, n), k, n)
<1> DEFINE f == [t.ref EXCEPT ![k] = n]
           u == Recount(t, k, n)
<1>1. /\ CPUShape(t) /\ t.lru \in Seq(Keys) /\ IsInjective(t.lru) /\ k \in Keys
      /\ IsFiniteSet(DOMAIN t.ref) /\ t.used = Cardinality(DOMAIN t.ref)
      /\ t.evictable = Len(t.lru) /\ t.used <= CPUCapacity
      /\ ToSet(t.lru) = {x \in DOMAIN t.ref : t.ref[x] = 0}
      /\ t = [ref |-> t.ref, lru |-> t.lru, used |-> t.used, evictable |-> t.evictable]
  BY DEF CPUOk, CPUShape, IsMap
<1>2. /\ DOMAIN f = DOMAIN t.ref /\ f[k] = n
      /\ \A x \in DOMAIN t.ref \ {k} : f[x] = t.ref[x]
      /\ f = [x \in DOMAIN f |-> f[x]]
  BY <1>1 DEF CPUShape, IsMap
<1>3. u = [ref |-> f, lru |-> t.lru, used |-> t.used, evictable |-> t.evictable]
  BY DEF Recount
<1> HIDE DEF f, u
<1>4. /\ u.ref = f /\ u.lru = t.lru /\ u.used = t.used /\ u.evictable = t.evictable
      /\ u = [ref |-> u.ref, lru |-> u.lru, used |-> u.used, evictable |-> u.evictable]
  BY <1>3
<1>5. CPUShape(u) BY <1>1, <1>2, <1>4 DEF CPUShape, IsMap
<1>6. ToSet(u.lru) = {x \in DOMAIN u.ref : u.ref[x] = 0} BY <1>1, <1>2, <1>4
<1>7. CPUOk(u) BY <1>1, <1>2, <1>4, <1>5, <1>6 DEF CPUOk
<1>8. Counted(t, u, k, n) BY <1>2, <1>4 DEF Counted
<1> QED BY <1>7, <1>8 DEF u

(* completeStore makes a slot that was read into a block. *)
LEMMA CompleteKeeps ==
  ASSUME NEW t, CPUOk(t), NEW k
  PROVE  LET u == CompleteStore(t, k)
         IN  /\ CPUOk(u) /\ DOMAIN u.ref = DOMAIN t.ref
             /\ \A x \in DOMAIN t.ref :
                  u.ref[x] = IF x = k /\ t.ref[x] = -1 THEN 0 ELSE t.ref[x]
<1>1. CASE k \in DOMAIN t.ref /\ t.ref[k] = -1
  <2>1. CPUOk(CompleteStore(t, k)) /\ Counted(t, CompleteStore(t, k), k, 0)
    BY <1>1, ReadyKeeps DEF CompleteStore
  <2> QED BY <1>1, <2>1 DEF Counted
<1>2. CASE ~(k \in DOMAIN t.ref /\ t.ref[k] = -1) BY <1>2 DEF CompleteStore
<1> QED BY <1>1, <1>2

(* pin, of a block that is there. *)
LEMMA PinKeeps ==
  ASSUME NEW t, CPUOk(t), NEW k \in DOMAIN t.ref, t.ref[k] >= 0
  PROVE  CPUOk(Pin(t, k)) /\ Counted(t, Pin(t, k), k, t.ref[k] + 1)
<1>0. t.ref[k] \in {-1} \cup Nat BY DEF CPUOk, CPUShape, IsMap
<1>1. CASE t.ref[k] > 0
  <2>1. Pin(t, k) = Recount(t, k, t.ref[k] + 1) BY <1>0, <1>1 DEF Pin
  <2>2. t.ref[k] + 1 \in Nat \ {0} /\ t.ref[k] # 0 BY <1>0, <1>1
  <2> QED BY <2>1, <2>2, RecountKeeps
<1>2. CASE t.ref[k] = 0
  <2> DEFINE f == [t.ref EXCEPT ![k] = 1]
             l == Without(t.lru, k)
             u == Pin(t, k)
  <2>1. /\ CPUShape(t) /\ t.lru \in Seq(Keys) /\ IsInjective(t.lru) /\ k \in Keys
        /\ IsFiniteSet(DOMAIN t.ref) /\ t.used = Cardinality(DOMAIN t.ref)
        /\ t.evictable = Len(t.lru) /\ t.used <= CPUCapacity
        /\ ToSet(t.lru) = {x \in DOMAIN t.ref : t.ref[x] = 0}
        /\ t = [ref |-> t.ref, lru |-> t.lru, used |-> t.used, evictable |-> t.evictable]
    BY DEF CPUOk, CPUShape, IsMap
  <2>2. /\ DOMAIN f = DOMAIN t.ref /\ f[k] = 1
        /\ \A x \in DOMAIN t.ref \ {k} : f[x] = t.ref[x]
        /\ f = [x \in DOMAIN f |-> f[x]]
    BY <2>1 DEF CPUShape, IsMap
  <2>3. /\ l \in Seq(Keys) /\ IsInjective(l) /\ ToSet(l) = ToSet(t.lru) \ {k}
        /\ Len(l) = Len(t.lru) - 1
    BY <1>2, <2>1, WithoutIs
  <2>4. u = [ref |-> f, lru |-> l, used |-> t.used, evictable |-> t.evictable - 1]
    <3>1. ~(k \notin DOMAIN t.ref \/ t.ref[k] < 0) /\ ~(t.ref[k] > 0) BY <1>2
    <3> QED BY <3>1 DEF Pin
  <2> HIDE DEF f, l, u
  <2>5. /\ u.ref = f /\ u.lru = l /\ u.used = t.used /\ u.evictable = t.evictable - 1
        /\ u = [ref |-> u.ref, lru |-> u.lru, used |-> u.used, evictable |-> u.evictable]
    BY <2>4
  <2>6. CPUShape(u) BY <2>1, <2>2, <2>3, <2>5 DEF CPUShape, IsMap
  <2>7. ToSet(u.lru) = {x \in DOMAIN u.ref : u.ref[x] = 0}
    BY <2>1, <2>2, <2>3, <2>5
  <2>8. CPUOk(u) BY <2>1, <2>2, <2>3, <2>5, <2>6, <2>7 DEF CPUOk
  <2>9. Counted(t, u, k, t.ref[k] + 1) BY <1>2, <2>2, <2>5 DEF Counted
  <2> QED BY <2>8, <2>9 DEF u
<1> QED BY <1>0, <1>1, <1>2

(* unpin, of a block that is pinned. *)
LEMMA UnpinKeeps ==
  ASSUME NEW t, CPUOk(t), NEW k \in DOMAIN t.ref, t.ref[k] > 0
  PROVE  CPUOk(Unpin(t, k)) /\ Counted(t, Unpin(t, k), k, t.ref[k] - 1)
<1>0. t.ref[k] \in {-1} \cup Nat BY DEF CPUOk, CPUShape, IsMap
<1>1. CASE t.ref[k] > 1
  <2>1. Unpin(t, k) = Recount(t, k, t.ref[k] - 1) BY <1>0, <1>1 DEF Unpin
  <2>2. t.ref[k] - 1 \in Nat \ {0} /\ t.ref[k] # 0 BY <1>0, <1>1
  <2> QED BY <2>1, <2>2, RecountKeeps
<1>2. CASE t.ref[k] = 1
  <2>1. Unpin(t, k) = Idle(t, k) BY <1>2 DEF Unpin
  <2> QED BY <1>2, <2>1, ReadyKeeps
<1> QED BY <1>0, <1>1, <1>2

------------------------------
(* The transfer station. *)

\* How many elements of q are in J.
Where(q, J) == {i \in DOMAIN q : q[i] \in J}
Num(q, J) == Cardinality(Where(q, J))
One(j, J) == IF j \in J THEN 1 ELSE 0

(* A count of elements is a number, and none when there is nothing to count. *)
LEMMA NumIs ==
  ASSUME NEW S, NEW q \in Seq(S), NEW J
  PROVE  /\ IsFiniteSet(Where(q, J)) /\ Num(q, J) \in Nat
         /\ Num(q, J) = 0 <=> Where(q, J) = {}
<1>1. IsFiniteSet(1 .. Len(q))
  <2>1. 1 \in Int /\ Len(q) \in Int OBVIOUS
  <2> QED BY <2>1, FS_Interval
<1>2. Where(q, J) \subseteq 1 .. Len(q) BY DEF Where
<1>3. IsFiniteSet(Where(q, J)) BY <1>1, <1>2, FS_Subset
<1> QED BY <1>3, FS_CardinalityType, FS_EmptySet DEF Num

(* One more element. *)
LEMMA NumAppend ==
  ASSUME NEW S, NEW q \in Seq(S), NEW x \in S, NEW J
  PROVE  Num(Append(q, x), J) = Num(q, J) + One(x, J)
<1> DEFINE u == Append(q, x)
           n == Len(q)
<1>1. /\ n \in Nat /\ DOMAIN q = 1 .. n /\ DOMAIN u = 1 .. n + 1
      /\ \A i \in 1 .. n : u[i] = q[i]
      /\ u[n + 1] = x
  OBVIOUS
<1> HIDE DEF u, n
<1>2. IsFiniteSet(Where(q, J)) /\ Num(q, J) \in Nat /\ n + 1 \notin Where(q, J)
  BY <1>1, NumIs DEF Where
<1>3. CASE x \in J
  <2>1. Where(u, J) = Where(q, J) \cup {n + 1} BY <1>1, <1>3 DEF Where
  <2>2. Cardinality(Where(q, J) \cup {n + 1}) = Cardinality(Where(q, J)) + 1
    BY <1>2, FS_AddElement
  <2> QED BY <1>3, <2>1, <2>2 DEF Num, One, u
<1>4. CASE x \notin J
  <2>1. Where(u, J) = Where(q, J) BY <1>1, <1>4 DEF Where
  <2> QED BY <1>2, <1>4, <2>1 DEF Num, One, u
<1> QED BY <1>3, <1>4

(* One element less. *)
LEMMA NumShifted ==
  ASSUME NEW S, NEW q \in Seq(S), NEW u \in Seq(S), NEW i \in 1 .. Len(q),
         Shifted(u, q, i), NEW J
  PROVE  Num(q, J) = Num(u, J) + One(q[i], J)
<1> DEFINE n == Len(q)
           f == [j \in Where(u, J) |-> IF j < i THEN j ELSE j + 1]
           W == Where(q, J) \ {i}
<1>1. /\ n \in Nat /\ i \in 1 .. n /\ DOMAIN q = 1 .. n /\ DOMAIN u = 1 .. n - 1
  BY DEF Shifted
<1>2. /\ IsFiniteSet(Where(q, J)) /\ IsFiniteSet(Where(u, J))
      /\ Num(q, J) \in Nat /\ Num(u, J) \in Nat
  BY NumIs
<1>3. \A j \in Where(u, J) : /\ j \in 1 .. n - 1 /\ f[j] \in 1 .. n /\ f[j] # i
                             /\ q[f[j]] = u[j] /\ q[f[j]] \in J
  BY SMTT(60), <1>1 DEF Where, Shifted
<1>4. f \in [Where(u, J) -> W] BY <1>1, <1>3 DEF Where
<1>5. \A a, b \in Where(u, J) : f[a] = f[b] => a = b BY <1>3
<1>6. \A x \in W : \E j \in Where(u, J) : f[j] = x
  <2> TAKE x \in W
  <2>1. x \in 1 .. n /\ x # i /\ q[x] \in J BY <1>1 DEF Where
  <2>2. CASE x < i
    <3>1. x \in 1 .. n - 1 /\ u[x] = q[x] BY SMTT(60), <1>1, <2>1, <2>2 DEF Shifted
    <3>2. x \in Where(u, J) BY <1>1, <2>1, <3>1 DEF Where
    <3> QED BY <2>2, <3>2
  <2>3. CASE ~(x < i)
    <3>1. x - 1 \in 1 .. n - 1 /\ ~(x - 1 < i) /\ (x - 1) + 1 = x BY <1>1, <2>1, <2>3
    <3>2. u[x - 1] = q[x] BY <1>1, <3>1 DEF Shifted
    <3>3. x - 1 \in Where(u, J) BY <1>1, <2>1, <3>1, <3>2 DEF Where
    <3> QED BY <3>1, <3>3
  <2> QED BY <2>2, <2>3
<1> HIDE DEF f
<1>7. f \in Bijection(Where(u, J), W)
  BY <1>4, <1>5, <1>6 DEF Bijection, Injection, Surjection, IsInjective
<1>8. Cardinality(W) = Num(u, J)
  BY <1>2, <1>7, FS_Bijection DEF ExistsBijection, Num
<1>9. CASE q[i] \in J
  <2>1. i \in Where(q, J) BY <1>1, <1>9 DEF Where
  <2>2. Cardinality(Where(q, J) \ {i}) = Cardinality(Where(q, J)) - 1
    BY <1>2, <2>1, FS_RemoveElement
  <2> QED BY <1>2, <1>8, <1>9, <2>2 DEF Num, One
<1>10. CASE q[i] \notin J
  <2>1. W = Where(q, J) BY <1>10 DEF Where
  <2> HIDE DEF W
  <2>2. Num(q, J) = Num(u, J) BY <1>8, <2>1 DEF Num
  <2> QED BY <1>2, <1>10, <2>2 DEF One
<1> QED BY <1>9, <1>10

(* Two lists one after the other. *)
LEMMA NumConcat ==
  ASSUME NEW S, NEW s \in Seq(S), NEW t \in Seq(S), NEW J
  PROVE  Num(s \o t, J) = Num(s, J) + Num(t, J)
<1> DEFINE u == s \o t
           m == Len(s)
           n == Len(t)
           f == [j \in Where(t, J) |-> j + m]
           W == {i \in Where(u, J) : i > m}
<1>1. /\ m \in Nat /\ DOMAIN s = 1 .. m /\ n \in Nat /\ DOMAIN t = 1 .. n
      /\ u \in Seq(S) /\ DOMAIN u = 1 .. m + n
      /\ \A i \in 1 .. m + n : u[i] = IF i <= m THEN s[i] ELSE t[i - m]
  BY ConcatProperties
<1> HIDE DEF u, m, n
<1>2. /\ IsFiniteSet(Where(s, J)) /\ IsFiniteSet(Where(t, J)) /\ IsFiniteSet(Where(u, J))
      /\ Num(s, J) \in Nat /\ Num(t, J) \in Nat
  BY <1>1, NumIs
<1>3. f \in [Where(t, J) -> W]
  <2> SUFFICES ASSUME NEW j \in Where(t, J) PROVE j + m \in W OBVIOUS
  <2>1. j \in 1 .. n /\ t[j] \in J BY <1>1 DEF Where
  <2>2. j + m \in 1 .. m + n /\ j + m > m /\ (j + m) - m = j /\ ~(j + m <= m)
    BY <1>1, <2>1
  <2>3. u[j + m] = t[j] BY <1>1, <2>2
  <2> QED BY <1>1, <2>1, <2>2, <2>3 DEF Where
<1>4. \A a, b \in Where(t, J) : f[a] = f[b] => a = b BY <1>1 DEF Where
<1>5. \A x \in W : \E j \in Where(t, J) : f[j] = x
  <2> TAKE x \in W
  <2>1. x \in 1 .. m + n /\ x > m /\ u[x] \in J BY <1>1 DEF Where
  <2>2. x - m \in 1 .. n /\ ~(x <= m) /\ (x - m) + m = x BY <1>1, <2>1
  <2>3. u[x] = t[x - m] BY <1>1, <2>1, <2>2
  <2>4. x - m \in Where(t, J) BY <1>1, <2>1, <2>2, <2>3 DEF Where
  <2> QED BY <2>2, <2>4
<1>6. f \in Bijection(Where(t, J), W)
  <2> HIDE DEF f
  <2> QED BY <1>3, <1>4, <1>5 DEF Bijection, Injection, Surjection, IsInjective
<1>7. Cardinality(W) = Num(t, J)
  <2> HIDE DEF f, W
  <2> QED BY <1>2, <1>6, FS_Bijection DEF ExistsBijection, Num
<1>8. Where(u, J) = Where(s, J) \cup W /\ Where(s, J) \cap W = {}
  BY <1>1 DEF Where
<1>9. IsFiniteSet(W)
  <2>1. W \subseteq Where(u, J) OBVIOUS
  <2> QED BY <1>2, <2>1, FS_Subset
<1> HIDE DEF W
<1>10. Cardinality(Where(s, J) \cup W) = Cardinality(Where(s, J)) + Cardinality(W)
                                          - Cardinality(Where(s, J) \cap W)
  BY <1>2, <1>9, FS_Union
<1>11. Cardinality(Where(s, J) \cap W) = 0 BY <1>8, FS_EmptySet
<1>12. Num(u, J) = Num(s, J) + Num(t, J)
  BY <1>2, <1>7, <1>8, <1>10, <1>11 DEF Num
<1> QED BY <1>12 DEF u

\* The jobs of one direction that move k, and how many a tier has.
Moves(d, k) == {j \in Jobs : j.dir = d /\ k \in ToSet(j.keys)}
Load(s, J) == Num(s.readQ, J) + Num(s.writeQ, J) + Num(s.active, J)
SameLoad(s, u) == \A d, k : Load(u, Moves(d, k)) = Load(s, Moves(d, k))

(* The load of a tier counts its jobs in flight. *)
LEMMA LoadIs ==
  ASSUME NEW s, TierShape(s), NEW d, NEW k
  PROVE  /\ Load(s, Moves(d, k)) \in Nat
         /\ IsFiniteSet(Covers(s, d, k))
         /\ Cardinality(Covers(s, d, k)) = Load(s, Moves(d, k))
<1> DEFINE J == Moves(d, k)
<1>1. s.readQ \in Seq(Jobs) /\ s.writeQ \in Seq(Jobs) /\ s.active \in Seq(Jobs)
  BY DEF TierShape
<1>2. /\ s.readQ \o s.writeQ \in Seq(Jobs)
      /\ (s.readQ \o s.writeQ) \o s.active \in Seq(Jobs)
  BY <1>1, ConcatIs
<1>3. InFlight(s) = (s.readQ \o s.writeQ) \o s.active BY DEF InFlight
<1>4. InFlight(s) \in Seq(Jobs) BY <1>2, <1>3
<1>5. Covers(s, d, k) = Where(InFlight(s), J)
  <2>1. \A i \in DOMAIN InFlight(s) : InFlight(s)[i] \in Jobs BY <1>4
  <2> HIDE DEF Jobs
  <2> QED BY <2>1 DEF Covers, Where, Moves
<1> HIDE DEF J
<1>6. Num(InFlight(s), J) = (Num(s.readQ, J) + Num(s.writeQ, J)) + Num(s.active, J)
  <2>1. Num(s.readQ \o s.writeQ, J) = Num(s.readQ, J) + Num(s.writeQ, J)
    BY <1>1, NumConcat
  <2>2. Num((s.readQ \o s.writeQ) \o s.active, J)
          = Num(s.readQ \o s.writeQ, J) + Num(s.active, J)
    BY ZenonT(60), <1>1, <1>2, NumConcat
  <2> QED BY <1>3, <2>1, <2>2
<1>7. IsFiniteSet(Where(InFlight(s), J)) /\ Num(InFlight(s), J) \in Nat
  BY <1>4, NumIs
<1> QED BY <1>5, <1>6, <1>7 DEF Num, Load, J

(* A job keeps what it moves when it gets a server. *)
LEMMA ServedJob ==
  ASSUME NEW j \in Jobs, NEW v \in {"read", "write"}
  PROVE  LET u == [j EXCEPT !.server = v]
         IN  /\ u \in Jobs
             /\ OneBlock(j) => OneBlock(u)
             /\ \A d, k : One(u, Moves(d, k)) = One(j, Moves(d, k))
<1> DEFINE u == [j EXCEPT !.server = v]
<1>1. u \in Jobs /\ u.dir = j.dir /\ u.keys = j.keys BY DEF Jobs
<1> HIDE DEF u
<1>2. OneBlock(j) => OneBlock(u) BY <1>1 DEF OneBlock
<1>3. \A d, k : u \in Moves(d, k) <=> j \in Moves(d, k) BY <1>1 DEF Moves
<1>4. \A d, k : One(u, Moves(d, k)) = One(j, Moves(d, k)) BY <1>3 DEF One
<1> QED BY <1>1, <1>2, <1>4 DEF u

\* u is s after a server took the first job of a queue.
TakenFrom(q, p, j) == q # <<>> /\ j = Head(q) /\ p = Tail(q)
Started(s, u, j, v) ==
  /\ u = [readQ |-> u.readQ, writeQ |-> u.writeQ, active |-> u.active,
          freeRead |-> u.freeRead, freeWrite |-> u.freeWrite]
  /\ \/ TakenFrom(s.readQ, u.readQ, j) /\ u.writeQ = s.writeQ
     \/ TakenFrom(s.writeQ, u.writeQ, j) /\ u.readQ = s.readQ
  /\ u.active = Append(s.active, [j EXCEPT !.server = v])
  /\ u.freeRead \in Nat /\ u.freeWrite \in Nat
  /\ u.freeRead + u.freeWrite = (s.freeRead + s.freeWrite) - 1

(* A queue that lost its first job. *)
LEMMA TakenKeeps ==
  ASSUME NEW q \in Seq(Jobs), NEW p, NEW j, TakenFrom(q, p, j),
         \A i \in DOMAIN q : OneBlock(q[i])
  PROVE  /\ j \in Jobs /\ OneBlock(j) /\ p \in Seq(Jobs)
         /\ \A i \in DOMAIN p : OneBlock(p[i])
         /\ \A J : Num(q, J) = Num(p, J) + One(j, J) /\ Num(p, J) \in Nat
<1>1. /\ Len(q) \in Nat \ {0} /\ 1 \in 1 .. Len(q) /\ DOMAIN q = 1 .. Len(q)
      /\ Head(q) = q[1] /\ q # <<>> /\ j = q[1] /\ p = Tail(q)
  BY DEF TakenFrom
<1>2. /\ p \in Seq(Jobs) /\ Len(p) = Len(q) - 1
      /\ \A i \in 1 .. Len(p) : p[i] = q[i + 1]
  BY <1>1, HeadTailProperties
<1>3. Shifted(p, q, 1) BY <1>1, <1>2 DEF Shifted
<1>4. \A i \in DOMAIN p : OneBlock(p[i])
  <2> TAKE i \in DOMAIN p
  <2>1. i \in 1 .. Len(p) /\ i + 1 \in 1 .. Len(q) BY <1>1, <1>2
  <2> QED BY <1>1, <1>2, <2>1
<1>5. j \in Jobs /\ OneBlock(j) BY <1>1, ElementOfSeq
<1>6. \A J : Num(q, J) = Num(p, J) + One(j, J)
  <2> TAKE J
  <2>1. 1 \in 1 .. Len(q) BY <1>1
  <2>2. Num(q, J) = Num(p, J) + One(q[1], J) BY <1>2, <1>3, <2>1, NumShifted
  <2> QED BY <1>1, <2>2
<1>7. \A J : Num(p, J) \in Nat BY <1>2, NumIs
<1> QED BY <1>2, <1>4, <1>5, <1>6, <1>7

(* A job that joins a list of jobs. *)
LEMMA JoinKeeps ==
  ASSUME NEW q \in Seq(Jobs), NEW j \in Jobs, OneBlock(j),
         \A i \in DOMAIN q : OneBlock(q[i])
  PROVE  /\ Append(q, j) \in Seq(Jobs) /\ Len(Append(q, j)) = Len(q) + 1
         /\ \A i \in DOMAIN Append(q, j) : OneBlock(Append(q, j)[i])
         /\ \A J : Num(Append(q, j), J) = Num(q, J) + One(j, J) /\ Num(q, J) \in Nat
<1> DEFINE u == Append(q, j)
<1>1. /\ Len(q) \in Nat /\ u \in Seq(Jobs) /\ DOMAIN q = 1 .. Len(q)
      /\ Len(u) = Len(q) + 1 /\ DOMAIN u = 1 .. Len(q) + 1
      /\ \A i \in 1 .. Len(q) : u[i] = q[i]
      /\ u[Len(q) + 1] = j
  OBVIOUS
<1>2. \A J : Num(u, J) = Num(q, J) + One(j, J) BY NumAppend
<1>3. \A J : Num(q, J) \in Nat BY NumIs
<1> HIDE DEF u
<1>4. \A i \in DOMAIN u : OneBlock(u[i]) BY <1>1
<1> QED BY <1>1, <1>2, <1>3, <1>4 DEF u

(* A server takes a job. *)
LEMMA StartKeeps ==
  ASSUME NEW s, TierShape(s), ServersKept(s), NEW u, NEW j,
         NEW v \in {"read", "write"}, Started(s, u, j, v)
  PROVE  TierShape(u) /\ ServersKept(u) /\ SameLoad(s, u)
<1> DEFINE w == [j EXCEPT !.server = v]
<1>1. /\ s.readQ \in Seq(Jobs) /\ s.writeQ \in Seq(Jobs) /\ s.active \in Seq(Jobs)
      /\ s.freeRead \in Nat /\ s.freeWrite \in Nat
      /\ \A i \in DOMAIN s.readQ : OneBlock(s.readQ[i])
      /\ \A i \in DOMAIN s.writeQ : OneBlock(s.writeQ[i])
      /\ \A i \in DOMAIN s.active : OneBlock(s.active[i])
  BY DEF TierShape
<1>2. /\ j \in Jobs /\ OneBlock(j)
      /\ u.readQ \in Seq(Jobs) /\ u.writeQ \in Seq(Jobs)
      /\ \A i \in DOMAIN u.readQ : OneBlock(u.readQ[i])
      /\ \A i \in DOMAIN u.writeQ : OneBlock(u.writeQ[i])
      /\ \A J : /\ Num(s.readQ, J) + Num(s.writeQ, J)
                     = (Num(u.readQ, J) + Num(u.writeQ, J)) + One(j, J)
                /\ Num(u.readQ, J) \in Nat /\ Num(u.writeQ, J) \in Nat
  <2>1. CASE TakenFrom(s.readQ, u.readQ, j) /\ u.writeQ = s.writeQ
    <3>1. /\ j \in Jobs /\ OneBlock(j) /\ u.readQ \in Seq(Jobs)
          /\ \A i \in DOMAIN u.readQ : OneBlock(u.readQ[i])
          /\ \A J : /\ Num(s.readQ, J) = Num(u.readQ, J) + One(j, J)
                    /\ Num(u.readQ, J) \in Nat
      BY <1>1, <2>1, TakenKeeps
    <3>2. \A J : Num(s.writeQ, J) \in Nat BY <1>1, NumIs
    <3>3. \A J : One(j, J) \in Nat BY DEF One
    <3>4. \A J : /\ Num(s.readQ, J) + Num(s.writeQ, J)
                     = (Num(u.readQ, J) + Num(u.writeQ, J)) + One(j, J)
                 /\ Num(u.readQ, J) \in Nat /\ Num(u.writeQ, J) \in Nat
      BY <2>1, <3>1, <3>2, <3>3
    <3> QED BY <1>1, <2>1, <3>1, <3>4
  <2>2. CASE TakenFrom(s.writeQ, u.writeQ, j) /\ u.readQ = s.readQ
    <3>1. /\ j \in Jobs /\ OneBlock(j) /\ u.writeQ \in Seq(Jobs)
          /\ \A i \in DOMAIN u.writeQ : OneBlock(u.writeQ[i])
          /\ \A J : /\ Num(s.writeQ, J) = Num(u.writeQ, J) + One(j, J)
                    /\ Num(u.writeQ, J) \in Nat
      BY <1>1, <2>2, TakenKeeps
    <3>2. \A J : Num(s.readQ, J) \in Nat BY <1>1, NumIs
    <3>3. \A J : One(j, J) \in Nat BY DEF One
    <3>4. \A J : /\ Num(s.readQ, J) + Num(s.writeQ, J)
                     = (Num(u.readQ, J) + Num(u.writeQ, J)) + One(j, J)
                 /\ Num(u.readQ, J) \in Nat /\ Num(u.writeQ, J) \in Nat
      BY <2>2, <3>1, <3>2, <3>3
    <3> QED BY <1>1, <2>2, <3>1, <3>4
  <2> QED BY <2>1, <2>2 DEF Started
<1>3. /\ w \in Jobs /\ OneBlock(w)
      /\ \A d, k : One(w, Moves(d, k)) = One(j, Moves(d, k))
  BY <1>2, ServedJob
<1> HIDE DEF w
<1>4. /\ Append(s.active, w) \in Seq(Jobs) /\ Len(Append(s.active, w)) = Len(s.active) + 1
      /\ \A i \in DOMAIN Append(s.active, w) : OneBlock(Append(s.active, w)[i])
      /\ \A J : /\ Num(Append(s.active, w), J) = Num(s.active, J) + One(w, J)
                /\ Num(s.active, J) \in Nat
  BY <1>1, <1>3, JoinKeeps
<1>5. /\ u = [readQ |-> u.readQ, writeQ |-> u.writeQ, active |-> u.active,
              freeRead |-> u.freeRead, freeWrite |-> u.freeWrite]
      /\ u.active = Append(s.active, w)
      /\ u.freeRead \in Nat /\ u.freeWrite \in Nat
      /\ u.freeRead + u.freeWrite = (s.freeRead + s.freeWrite) - 1
  BY DEF Started, w
<1>6. TierShape(u) BY <1>2, <1>4, <1>5 DEF TierShape
<1>7. ServersKept(u)
  <2>1. Len(s.active) \in Nat /\ Len(u.active) = Len(s.active) + 1
    BY <1>1, <1>4, <1>5
  <2>2. (s.freeRead + s.freeWrite) + Len(s.active) = NRead + NWrite
    BY DEF ServersKept
  <2>3. (u.freeRead + u.freeWrite) + Len(u.active) = NRead + NWrite
    BY SMTT(60), <1>1, <1>5, <2>1, <2>2
  <2> QED BY <2>3 DEF ServersKept
<1>8. SameLoad(s, u)
  <2> SUFFICES ASSUME NEW d, NEW k PROVE Load(u, Moves(d, k)) = Load(s, Moves(d, k))
    BY DEF SameLoad
  <2> DEFINE J == Moves(d, k)
  <2>1. One(w, J) = One(j, J) /\ One(j, J) \in Nat BY <1>3 DEF One
  <2> HIDE DEF J
  <2>2. /\ Num(s.readQ, J) + Num(s.writeQ, J)
             = (Num(u.readQ, J) + Num(u.writeQ, J)) + One(j, J)
        /\ Num(u.readQ, J) \in Nat /\ Num(u.writeQ, J) \in Nat
    BY <1>2
  <2>3. Num(u.active, J) = Num(s.active, J) + One(w, J) /\ Num(s.active, J) \in Nat
    BY <1>4, <1>5
  <2>4. Load(u, J) = Load(s, J) BY <2>1, <2>2, <2>3 DEF Load
  <2> QED BY <2>4 DEF J
<1> QED BY <1>6, <1>7, <1>8

(* assign goes over its servers. *)
AssignOp(a, x, n) == AssignNext(x)
AssignKept(a, s, k, x) ==
  /\ TierShape(x) /\ ServersKept(x) /\ SameLoad(s, x)
  /\ ServersBusy(x) \/ x.freeRead + x.freeWrite <= (NRead + NWrite) - k
Assigning == INSTANCE Folding WITH Op <- AssignOp, P <- AssignKept

(* assign, one iteration: a job starts if one waits and a server is idle. *)
LEMMA AssignNextKeeps ==
  ASSUME NEW s, TierShape(s), ServersKept(s)
  PROVE  LET u == AssignNext(s)
         IN  /\ TierShape(u) /\ ServersKept(u) /\ SameLoad(s, u)
             /\ ServersBusy(s) => u = s
             /\ ~ServersBusy(s) =>
                  u.freeRead + u.freeWrite = (s.freeRead + s.freeWrite) - 1
<1> DEFINE u == AssignNext(s)
<1>1. /\ s = [readQ |-> s.readQ, writeQ |-> s.writeQ, active |-> s.active,
              freeRead |-> s.freeRead, freeWrite |-> s.freeWrite]
      /\ s.freeRead \in Nat /\ s.freeWrite \in Nat
  BY DEF TierShape
<1>2. CASE ServersBusy(s)
  <2>1. u = s
    <3>1. CASE s.readQ = <<>> /\ s.writeQ = <<>> BY <3>1 DEF AssignNext
    <3>2. CASE s.freeRead + s.freeWrite = 0
      <4>1. ~(s.freeRead > 0) /\ ~(s.freeWrite > 0) BY <1>1, <3>2
      <4> QED BY <4>1 DEF AssignNext
    <3> QED BY <1>2, <3>1, <3>2 DEF ServersBusy
  <2>2. SameLoad(s, s) BY DEF SameLoad
  <2> QED BY <1>2, <2>1, <2>2
<1>3. CASE ~ServersBusy(s)
  <2>1. \E j, v : v \in {"read", "write"} /\ Started(s, u, j, v)
    <3>1. s.readQ # <<>> \/ s.writeQ # <<>> BY <1>3 DEF ServersBusy
    <3>2. CASE s.freeRead > 0
      <4>1. u = AssignRead(s) BY <3>1, <3>2 DEF AssignNext
      <4>2. s.freeRead - 1 \in Nat BY <1>1, <3>2
      <4>3. CASE s.readQ # <<>>
        <5> DEFINE j == Head(s.readQ)
        <5>1. u = [readQ |-> Tail(s.readQ), writeQ |-> s.writeQ,
                   active |-> Append(s.active, [j EXCEPT !.server = "read"]),
                   freeRead |-> s.freeRead - 1, freeWrite |-> s.freeWrite]
          BY <1>1, <4>1, <4>3 DEF AssignRead
        <5> HIDE DEF u
        <5>2. Started(s, u, j, "read")
          BY <1>1, <4>2, <4>3, <5>1 DEF Started, TakenFrom
        <5> QED BY <5>2
      <4>4. CASE s.readQ = <<>>
        <5> DEFINE j == Head(s.writeQ)
        <5>1. u = [readQ |-> s.readQ, writeQ |-> Tail(s.writeQ),
                   active |-> Append(s.active, [j EXCEPT !.server = "read"]),
                   freeRead |-> s.freeRead - 1, freeWrite |-> s.freeWrite]
          BY <1>1, <4>1, <4>4 DEF AssignRead
        <5> HIDE DEF u
        <5>2. Started(s, u, j, "read")
          BY <1>1, <3>1, <4>2, <4>4, <5>1 DEF Started, TakenFrom
        <5> QED BY <5>2
      <4> QED BY <4>3, <4>4
    <3>3. CASE ~(s.freeRead > 0)
      <4>0. s.freeWrite > 0
        <5>1. s.freeRead + s.freeWrite # 0 BY <1>3 DEF ServersBusy
        <5> QED BY <1>1, <3>3, <5>1
      <4>1. u = AssignWrite(s) BY <3>1, <3>3, <4>0 DEF AssignNext
      <4>2. s.freeWrite - 1 \in Nat BY <1>1, <4>0
      <4>3. CASE s.writeQ # <<>>
        <5> DEFINE j == Head(s.writeQ)
        <5>1. u = [readQ |-> s.readQ, writeQ |-> Tail(s.writeQ),
                   active |-> Append(s.active, [j EXCEPT !.server = "write"]),
                   freeRead |-> s.freeRead, freeWrite |-> s.freeWrite - 1]
          BY <1>1, <4>1, <4>3 DEF AssignWrite
        <5> HIDE DEF u
        <5>2. Started(s, u, j, "write")
          BY <1>1, <4>2, <4>3, <5>1 DEF Started, TakenFrom
        <5> QED BY <5>2
      <4>4. CASE s.writeQ = <<>>
        <5> DEFINE j == Head(s.readQ)
        <5>1. u = [readQ |-> Tail(s.readQ), writeQ |-> s.writeQ,
                   active |-> Append(s.active, [j EXCEPT !.server = "write"]),
                   freeRead |-> s.freeRead, freeWrite |-> s.freeWrite - 1]
          BY <1>1, <4>1, <4>4 DEF AssignWrite
        <5> HIDE DEF u
        <5>2. Started(s, u, j, "write")
          BY <1>1, <3>1, <4>2, <4>4, <5>1 DEF Started, TakenFrom
        <5> QED BY <5>2
      <4> QED BY <4>3, <4>4
    <3> QED BY <3>2, <3>3
  <2> HIDE DEF u
  <2>2. PICK j, v : v \in {"read", "write"} /\ Started(s, u, j, v) BY <2>1
  <2>3. TierShape(u) /\ ServersKept(u) /\ SameLoad(s, u) BY <2>2, StartKeeps
  <2>4. u.freeRead + u.freeWrite = (s.freeRead + s.freeWrite) - 1 BY <2>2 DEF Started
  <2> QED BY <1>3, <2>3, <2>4 DEF u
<1> QED BY <1>2, <1>3

(* assign: afterwards no server idles while a job waits. *)
LEMMA AssignKeeps ==
  ASSUME NEW s, TierShape(s), ServersKept(s)
  PROVE  TierOk(Assign(s)) /\ SameLoad(s, Assign(s))
<1> DEFINE N == NRead + NWrite
           q == [n \in 1 .. N |-> n]
<1>1. N \in Nat /\ DOMAIN q = 1 .. N /\ 0 \in Nat BY TierAssumption
<1>2. AssignKept(s, s, 0, s)
  <2>1. s.freeRead + s.freeWrite <= (NRead + NWrite) - 0
    <3>1. /\ s.freeRead \in Nat /\ s.freeWrite \in Nat /\ Len(s.active) \in Nat
          /\ s.freeRead + s.freeWrite + Len(s.active) = NRead + NWrite
      BY DEF TierShape, ServersKept
    <3> QED BY <3>1, TierAssumption
  <2> QED BY <2>1 DEF AssignKept, SameLoad
<1>3. \A k \in 1 .. N : \A x : AssignKept(s, s, k - 1, x) => AssignKept(s, s, k, AssignOp(s, x, q[k]))
  <2> SUFFICES ASSUME NEW k \in 1 .. N, NEW x, AssignKept(s, s, k - 1, x)
               PROVE  AssignKept(s, s, k, AssignNext(x))
    BY DEF AssignOp
  <2> DEFINE u == AssignNext(x)
  <2>1. /\ TierShape(x) /\ ServersKept(x) /\ SameLoad(s, x)
        /\ ServersBusy(x) \/ x.freeRead + x.freeWrite <= (NRead + NWrite) - (k - 1)
    BY DEF AssignKept
  <2>2. /\ TierShape(u) /\ ServersKept(u) /\ SameLoad(x, u)
        /\ ServersBusy(x) => u = x
        /\ ~ServersBusy(x) => u.freeRead + u.freeWrite = (x.freeRead + x.freeWrite) - 1
    BY <2>1, AssignNextKeeps
  <2> HIDE DEF u
  <2>3. SameLoad(s, u) BY <2>1, <2>2 DEF SameLoad
  <2>4. ServersBusy(u) \/ u.freeRead + u.freeWrite <= (NRead + NWrite) - k
    <3>1. CASE ServersBusy(x) BY <2>2, <3>1
    <3>2. CASE ~ServersBusy(x)
      <4>1. u.freeRead + u.freeWrite = (x.freeRead + x.freeWrite) - 1 BY <2>2, <3>2
      <4>2. x.freeRead + x.freeWrite <= (NRead + NWrite) - (k - 1) BY <2>1, <3>2
      <4>3. x.freeRead \in Nat /\ x.freeWrite \in Nat BY <2>1 DEF TierShape
      <4> QED BY <1>1, <4>1, <4>2, <4>3
    <3> QED BY <3>1, <3>2
  <2>5. AssignKept(s, s, k, u) BY <2>2, <2>3, <2>4 DEF AssignKept
  <2> QED BY <2>5 DEF u
<1>4. AssignKept(s, s, N, Assigning!Folded(s, s, q))
  <2> HIDE DEF N, q
  <2> QED BY <1>1, <1>2, <1>3, Assigning!Loop
<1>5. Assigning!Folded(s, s, q) = Assign(s)
  BY DEF Assigning!Folded, Assign, AssignOp, FoldLeft, MapThenFoldSet,
         Assigning!FoldLeft, Assigning!MapThenFoldSet, Assigning!Max, Max
<1>6. AssignKept(s, s, N, Assign(s)) BY <1>4, <1>5
<1> DEFINE u == Assign(s)
<1> HIDE DEF u
<1>7. ServersBusy(u)
  <2>1. ServersBusy(u) \/ u.freeRead + u.freeWrite <= (NRead + NWrite) - N
    BY <1>6 DEF AssignKept, u
  <2>2. u.freeRead \in Nat /\ u.freeWrite \in Nat
    BY <1>6 DEF AssignKept, TierShape, u
  <2>3. CASE u.freeRead + u.freeWrite <= (NRead + NWrite) - N
    <3>1. u.freeRead + u.freeWrite = 0 BY <1>1, <2>2, <2>3
    <3> QED BY <3>1 DEF ServersBusy
  <2> QED BY <2>1, <2>3
<1> QED BY <1>6, <1>7 DEF AssignKept, TierOk, u

(* Submit: one more job. *)
LEMMA SubmitKeeps ==
  ASSUME NEW s, TierOk(s), NEW j \in Jobs, OneBlock(j)
  PROVE  /\ TierOk(Submit(s, j))
         /\ \A d, k : Load(Submit(s, j), Moves(d, k))
                        = Load(s, Moves(d, k)) + One(j, Moves(d, k))
<1> DEFINE t == IF j.dir = "read" THEN [s EXCEPT !.readQ = Append(@, j)]
                ELSE [s EXCEPT !.writeQ = Append(@, j)]
<1>1. /\ s = [readQ |-> s.readQ, writeQ |-> s.writeQ, active |-> s.active,
              freeRead |-> s.freeRead, freeWrite |-> s.freeWrite]
      /\ s.readQ \in Seq(Jobs) /\ s.writeQ \in Seq(Jobs) /\ s.active \in Seq(Jobs)
      /\ s.freeRead \in Nat /\ s.freeWrite \in Nat
      /\ \A i \in DOMAIN s.readQ : OneBlock(s.readQ[i])
      /\ \A i \in DOMAIN s.writeQ : OneBlock(s.writeQ[i])
      /\ \A i \in DOMAIN s.active : OneBlock(s.active[i])
      /\ s.freeRead + s.freeWrite + Len(s.active) = NRead + NWrite
  BY DEF TierOk, TierShape, ServersKept
<1>2. /\ TierShape(t) /\ ServersKept(t)
      /\ \A d, k : Load(t, Moves(d, k)) = Load(s, Moves(d, k)) + One(j, Moves(d, k))
  <2>0. \A J : /\ Num(s.active, J) \in Nat /\ Num(s.readQ, J) \in Nat
               /\ Num(s.writeQ, J) \in Nat /\ One(j, J) \in Nat
    BY <1>1, NumIs DEF One
  <2>1. CASE j.dir = "read"
    <3>1. t = [readQ |-> Append(s.readQ, j), writeQ |-> s.writeQ, active |-> s.active,
               freeRead |-> s.freeRead, freeWrite |-> s.freeWrite]
      BY <1>1, <2>1
    <3>2. /\ Append(s.readQ, j) \in Seq(Jobs)
          /\ \A i \in DOMAIN Append(s.readQ, j) : OneBlock(Append(s.readQ, j)[i])
          /\ \A J : Num(Append(s.readQ, j), J) = Num(s.readQ, J) + One(j, J)
      BY <1>1, JoinKeeps
    <3> HIDE DEF t
    <3>3. TierShape(t) /\ ServersKept(t)
      BY <1>1, <3>1, <3>2 DEF TierShape, ServersKept
    <3>4. \A J : Load(t, J) = Load(s, J) + One(j, J)
      <4> TAKE J
      <4>1. Load(t, J) = (Num(s.readQ, J) + One(j, J)) + Num(s.writeQ, J) + Num(s.active, J)
        BY <3>1, <3>2 DEF Load
      <4> QED BY <2>0, <4>1 DEF Load
    <3> QED BY <3>3, <3>4
  <2>2. CASE j.dir # "read"
    <3>1. t = [readQ |-> s.readQ, writeQ |-> Append(s.writeQ, j), active |-> s.active,
               freeRead |-> s.freeRead, freeWrite |-> s.freeWrite]
      BY <1>1, <2>2
    <3>2. /\ Append(s.writeQ, j) \in Seq(Jobs)
          /\ \A i \in DOMAIN Append(s.writeQ, j) : OneBlock(Append(s.writeQ, j)[i])
          /\ \A J : Num(Append(s.writeQ, j), J) = Num(s.writeQ, J) + One(j, J)
      BY <1>1, JoinKeeps
    <3> HIDE DEF t
    <3>3. TierShape(t) /\ ServersKept(t)
      BY <1>1, <3>1, <3>2 DEF TierShape, ServersKept
    <3>4. \A J : Load(t, J) = Load(s, J) + One(j, J)
      <4> TAKE J
      <4>1. Load(t, J) = Num(s.readQ, J) + (Num(s.writeQ, J) + One(j, J)) + Num(s.active, J)
        BY <3>1, <3>2 DEF Load
      <4> QED BY <2>0, <4>1 DEF Load
    <3> QED BY <3>3, <3>4
  <2> QED BY <2>1, <2>2
<1>3. Submit(s, j) = Assign(t) BY DEF Submit
<1> HIDE DEF t
<1>4. TierOk(Assign(t)) /\ SameLoad(t, Assign(t)) BY <1>2, AssignKeeps
<1> QED BY <1>2, <1>3, <1>4 DEF SameLoad

(* advance: one job less, and its server takes the next. *)
LEMMA LandKeeps ==
  ASSUME NEW s, TierOk(s), NEW i \in DOMAIN s.active
  PROVE  /\ TierOk(Land(s, i))
         /\ s.active[i] \in Jobs /\ OneBlock(s.active[i])
         /\ \A d, k : Load(s, Moves(d, k))
                        = Load(Land(s, i), Moves(d, k)) + One(s.active[i], Moves(d, k))
<1> DEFINE j == s.active[i]
           a == RemoveAt(s.active, i)
           r == [s EXCEPT !.active = RemoveAt(@, i)]
           t == IF j.server = "read" THEN [r EXCEPT !.freeRead = @ + 1]
                ELSE [r EXCEPT !.freeWrite = @ + 1]
<1>1. /\ s = [readQ |-> s.readQ, writeQ |-> s.writeQ, active |-> s.active,
              freeRead |-> s.freeRead, freeWrite |-> s.freeWrite]
      /\ s.readQ \in Seq(Jobs) /\ s.writeQ \in Seq(Jobs) /\ s.active \in Seq(Jobs)
      /\ s.freeRead \in Nat /\ s.freeWrite \in Nat
      /\ \A n \in DOMAIN s.readQ : OneBlock(s.readQ[n])
      /\ \A n \in DOMAIN s.writeQ : OneBlock(s.writeQ[n])
      /\ \A n \in DOMAIN s.active : OneBlock(s.active[n])
      /\ s.freeRead + s.freeWrite + Len(s.active) = NRead + NWrite
  BY DEF TierOk, TierShape, ServersKept
<1>2. Len(s.active) \in Nat /\ DOMAIN s.active = 1 .. Len(s.active) /\ i \in 1 .. Len(s.active)
  BY <1>1
<1>3. /\ a \in Seq(Jobs) /\ Len(a) = Len(s.active) - 1
      /\ \A n \in 1 .. Len(s.active) - 1 : a[n] = s.active[IF n < i THEN n ELSE n + 1]
  BY <1>1, <1>2, RemoveAtShifts
<1>4. Shifted(a, s.active, i) BY <1>3 DEF Shifted
<1>5. /\ j \in Jobs /\ OneBlock(j)
      /\ \A J : Num(s.active, J) = Num(a, J) + One(j, J)
  <2>1. \A J : Num(s.active, J) = Num(a, J) + One(j, J)
    BY <1>1, <1>2, <1>3, <1>4, NumShifted
  <2>2. j \in Jobs BY <1>1, <1>2, ElementOfSeq
  <2> QED BY <1>1, <2>1, <2>2
<1>6. \A n \in DOMAIN a : OneBlock(a[n])
  <2> TAKE n \in DOMAIN a
  <2> DEFINE m == IF n < i THEN n ELSE n + 1
  <2>1. n \in 1 .. Len(s.active) - 1 BY <1>2, <1>3
  <2>2. m \in 1 .. Len(s.active) BY <1>2, <2>1
  <2>3. a[n] = s.active[m] BY <1>3, <2>1
  <2> HIDE DEF m
  <2> QED BY <1>1, <1>2, <2>2, <2>3
<1>7. r = [readQ |-> s.readQ, writeQ |-> s.writeQ, active |-> a,
           freeRead |-> s.freeRead, freeWrite |-> s.freeWrite]
  BY SMTT(60), <1>1
<1>8. Land(s, i) = Assign(t) BY DEF Land
<1>9. /\ t = [readQ |-> s.readQ, writeQ |-> s.writeQ, active |-> a,
              freeRead |-> t.freeRead, freeWrite |-> t.freeWrite]
      /\ t.freeRead \in Nat /\ t.freeWrite \in Nat
      /\ t.freeRead + t.freeWrite = (s.freeRead + s.freeWrite) + 1
  <2> HIDE DEF a, j, r
  <2>1. CASE j.server = "read"
    <3>1. t = [readQ |-> s.readQ, writeQ |-> s.writeQ, active |-> a,
               freeRead |-> s.freeRead + 1, freeWrite |-> s.freeWrite]
      BY <1>7, <2>1
    <3> HIDE DEF t
    <3> QED BY SMTT(60), <1>1, <3>1
  <2>2. CASE j.server # "read"
    <3>1. t = [readQ |-> s.readQ, writeQ |-> s.writeQ, active |-> a,
               freeRead |-> s.freeRead, freeWrite |-> s.freeWrite + 1]
      BY <1>7, <2>2
    <3> HIDE DEF t
    <3> QED BY SMTT(60), <1>1, <3>1
  <2> QED BY <2>1, <2>2
<1> HIDE DEF a, t, r, j
<1>10. /\ t.readQ = s.readQ /\ t.writeQ = s.writeQ /\ t.active = a
       /\ t = [readQ |-> t.readQ, writeQ |-> t.writeQ, active |-> t.active,
               freeRead |-> t.freeRead, freeWrite |-> t.freeWrite]
  BY <1>9
<1>11. TierShape(t) BY <1>1, <1>3, <1>6, <1>9, <1>10 DEF TierShape
<1>12. ServersKept(t)
  <2>1. Len(t.active) = Len(s.active) - 1 BY <1>3, <1>10
  <2>2. t.freeRead + t.freeWrite = (s.freeRead + s.freeWrite) + 1 BY <1>9
  <2>3. (t.freeRead + t.freeWrite) + Len(t.active) = NRead + NWrite
    BY SMTT(60), <1>1, <1>2, <2>1, <2>2
  <2> QED BY <2>3 DEF ServersKept
<1>13. \A J : Load(s, J) = Load(t, J) + One(j, J)
  <2> TAKE J
  <2>1. /\ Num(s.readQ, J) \in Nat /\ Num(s.writeQ, J) \in Nat /\ Num(a, J) \in Nat
        /\ One(j, J) \in Nat
    BY <1>1, <1>3, NumIs DEF One
  <2>2. Load(s, J) = Num(s.readQ, J) + Num(s.writeQ, J) + (Num(a, J) + One(j, J))
    BY <1>5 DEF Load
  <2>3. Load(t, J) = Num(s.readQ, J) + Num(s.writeQ, J) + Num(a, J)
    BY <1>10 DEF Load
  <2> QED BY <2>1, <2>2, <2>3
<1>14. TierOk(Assign(t)) /\ SameLoad(t, Assign(t)) BY <1>11, <1>12, AssignKeeps
<1> QED BY <1>5, <1>8, <1>13, <1>14 DEF SameLoad, j

------------------------------
(* Transfers and the blocks they move. *)

TiersOk(stn) == \A t \in Tiers : TierOk(stn[t])
OutLoad(s, k) == Load(s, Moves("write", k))
InLoad(s, k) == Load(s, Moves("read", k))

\* The write jobs of the tiers beside t0.
Beside(stn, k, t0) == UNION {{t} \X Covers(stn[t], "write", k) : t \in Tiers \ {t0}}

(* A tier moves a block exactly when its load says so. *)
LEMMA CoversAre ==
  ASSUME NEW s, TierOk(s), NEW k
  PROVE  /\ OutLoad(s, k) \in Nat /\ InLoad(s, k) \in Nat
         /\ IsFiniteSet(Covers(s, "write", k))
         /\ Cardinality(Covers(s, "write", k)) = OutLoad(s, k)
         /\ Covers(s, "write", k) # {} <=> OutLoad(s, k) > 0
         /\ Covers(s, "read", k) # {} <=> InLoad(s, k) > 0
<1>1. TierShape(s) BY DEF TierOk
<1>2. /\ Load(s, Moves("write", k)) \in Nat /\ IsFiniteSet(Covers(s, "write", k))
      /\ Cardinality(Covers(s, "write", k)) = Load(s, Moves("write", k))
  BY <1>1, LoadIs
<1>3. /\ Load(s, Moves("read", k)) \in Nat /\ IsFiniteSet(Covers(s, "read", k))
      /\ Cardinality(Covers(s, "read", k)) = Load(s, Moves("read", k))
  BY <1>1, LoadIs
<1>4. /\ Covers(s, "write", k) # {} <=> Cardinality(Covers(s, "write", k)) # 0
      /\ Covers(s, "read", k) # {} <=> Cardinality(Covers(s, "read", k)) # 0
  BY <1>2, <1>3, FS_EmptySet
<1> QED BY <1>2, <1>3, <1>4 DEF OutLoad, InLoad

(* The write jobs of a block, those of one tier set apart. *)
LEMMA WritesSplit ==
  ASSUME NEW stn, TiersOk(stn), NEW t0 \in Tiers, NEW k
  PROVE  /\ IsFiniteSet(Beside(stn, k, t0)) /\ Cardinality(Beside(stn, k, t0)) \in Nat
         /\ IsFiniteSet(Writes(stn, k)) /\ Cardinality(Writes(stn, k)) \in Nat
         /\ Cardinality(Writes(stn, k)) = Cardinality(Beside(stn, k, t0)) + OutLoad(stn[t0], k)
<1> DEFINE C(t) == Covers(stn[t], "write", k)
           f == [t \in Tiers \ {t0} |-> {t} \X C(t)]
           T == {{t} \X C(t) : t \in Tiers \ {t0}}
           A == {t0} \X C(t0)
<1>1. \A t \in Tiers : IsFiniteSet(C(t)) /\ Cardinality(C(t)) = OutLoad(stn[t], k)
                       /\ OutLoad(stn[t], k) \in Nat
  BY CoversAre DEF TiersOk
<1>2. \A t \in Tiers : /\ IsFiniteSet({t} \X C(t))
                       /\ Cardinality({t} \X C(t)) = OutLoad(stn[t], k)
  <2> TAKE t \in Tiers
  <2> DEFINE D == C(t)
  <2>1. IsFiniteSet(D) /\ Cardinality(D) = OutLoad(stn[t], k) /\ OutLoad(stn[t], k) \in Nat
    BY <1>1
  <2> HIDE DEF D
  <2>2. IsFiniteSet({t}) /\ Cardinality({t}) = 1 BY FS_Singleton
  <2>3. IsFiniteSet({t} \X D) /\ Cardinality({t} \X D) = Cardinality({t}) * Cardinality(D)
    BY <2>1, <2>2, FS_Product
  <2>4. Cardinality({t} \X D) = OutLoad(stn[t], k) BY <2>1, <2>2, <2>3
  <2> QED BY <2>3, <2>4 DEF D
<1>3. IsFiniteSet(Tiers \ {t0})
  <2>1. IsFiniteSet(1 .. NumTiers)
    <3>1. 1 \in Int /\ NumTiers \in Int BY OffloadAssumption
    <3> QED BY <3>1, FS_Interval
  <2> QED BY <2>1, FS_Subset DEF Tiers
<1>4. IsFiniteSet(T)
  <2>1. f \in Surjection(Tiers \ {t0}, T) BY DEF Surjection
  <2> HIDE DEF f, T
  <2> QED BY <1>3, <2>1, FS_Surjection
<1>5. \A x \in T : IsFiniteSet(x)
  <2> HIDE DEF C
  <2> QED BY <1>2
<1>6. Beside(stn, k, t0) = UNION T BY DEF Beside
<1>7. IsFiniteSet(Beside(stn, k, t0))
  <2> HIDE DEF T
  <2> QED BY <1>4, <1>5, <1>6, FS_UNION
<1>8. Writes(stn, k) = Beside(stn, k, t0) \cup A BY DEF Writes, Beside
<1>9. Beside(stn, k, t0) \cap A = {} BY DEF Beside
<1>10. IsFiniteSet(A) /\ Cardinality(A) = OutLoad(stn[t0], k) /\ OutLoad(stn[t0], k) \in Nat
  BY <1>1, <1>2
<1> HIDE DEF A
<1>11. /\ IsFiniteSet(Beside(stn, k, t0) \cup A)
       /\ Cardinality(Beside(stn, k, t0) \cup A) = Cardinality(Beside(stn, k, t0))
            + Cardinality(A) - Cardinality(Beside(stn, k, t0) \cap A)
  BY <1>7, <1>10, FS_Union
<1>12. Cardinality(Beside(stn, k, t0) \cap A) = 0 BY <1>9, FS_EmptySet
<1>13. Cardinality(Beside(stn, k, t0)) \in Nat BY <1>7, FS_CardinalityType
<1>14. Cardinality(Writes(stn, k)) = Cardinality(Beside(stn, k, t0)) + OutLoad(stn[t0], k)
  BY <1>8, <1>10, <1>11, <1>12, <1>13
<1> QED BY <1>7, <1>8, <1>10, <1>11, <1>13, <1>14

\* u is stn with another state of tier t.
OnlyTier(stn, u, t) ==
  /\ u = [x \in Tiers |-> u[x]]
  /\ \A x \in Tiers \ {t} : u[x] = stn[x]

(* When one tier changes, the number of write jobs of a block changes with *)
(* the load of that tier.                                                  *)
LEMMA WritesMove ==
  ASSUME NEW stn, TiersOk(stn), NEW u, TiersOk(u), NEW t \in Tiers, OnlyTier(stn, u, t),
         NEW k
  PROVE  /\ Cardinality(Writes(u, k)) \in Nat /\ Cardinality(Writes(stn, k)) \in Nat
         /\ OutLoad(stn[t], k) \in Nat /\ OutLoad(u[t], k) \in Nat
         /\ Cardinality(Writes(u, k)) + OutLoad(stn[t], k)
              = Cardinality(Writes(stn, k)) + OutLoad(u[t], k)
<1>1. Beside(u, k, t) = Beside(stn, k, t) BY DEF Beside, OnlyTier
<1>2. /\ Cardinality(Beside(stn, k, t)) \in Nat /\ Cardinality(Writes(stn, k)) \in Nat
      /\ Cardinality(Writes(stn, k)) = Cardinality(Beside(stn, k, t)) + OutLoad(stn[t], k)
  BY WritesSplit
<1>3. /\ Cardinality(Writes(u, k)) \in Nat
      /\ Cardinality(Writes(u, k)) = Cardinality(Beside(u, k, t)) + OutLoad(u[t], k)
  BY WritesSplit
<1>4. OutLoad(stn[t], k) \in Nat /\ OutLoad(u[t], k) \in Nat
  BY CoversAre DEF TiersOk
<1> QED BY <1>1, <1>2, <1>3, <1>4

(* A block that some tier is being sent has a write job. *)
LEMMA WritesSome ==
  ASSUME NEW stn, TiersOk(stn), NEW t \in Tiers, NEW k, OutLoad(stn[t], k) > 0
  PROVE  Cardinality(Writes(stn, k)) > 0
<1>1. /\ Cardinality(Beside(stn, k, t)) \in Nat
      /\ Cardinality(Writes(stn, k)) = Cardinality(Beside(stn, k, t)) + OutLoad(stn[t], k)
  BY WritesSplit
<1>2. OutLoad(stn[t], k) \in Nat BY CoversAre DEF TiersOk
<1> QED BY <1>1, <1>2

(* A CPU tier with other contents in its list, or none. *)
LEMMA SameRefKeeps ==
  ASSUME NEW kd, NEW cpu, NEW sec, NEW stn, TransferOk(kd, cpu, sec, stn),
         NEW u, CPUOk(u), u.ref = cpu.ref
  PROVE  TransferOk(kd, u, sec, stn)
  BY DEF TransferOk, PinsOk, Pins, Through

\* Block k has been sent to the first n tiers only.
ThroughBut(cpu, sec, stn, k, n) ==
  \A x \in DOMAIN cpu.ref \cup UNION {sec[t] : t \in Tiers} :
    \A t \in Tiers : (x = k /\ t > n) \/ Sent(sec, stn, x, t)
TransferBut(kd, cpu, sec, stn, k, n) ==
  /\ CPUOk(cpu)
  /\ stn = [t \in Tiers |-> stn[t]] /\ TiersOk(stn)
  /\ sec \in [Tiers -> SUBSET Keys]
  /\ PinsOk(cpu, stn)
  /\ kd = "tiered" => \A x \in DOMAIN cpu.ref : cpu.ref[x] = 0
  /\ Station(kd) => ThroughBut(cpu, sec, stn, k, n)

(* Nothing is missing when the last tier has been sent the block, or when  *)
(* there is no tier.                                                       *)
LEMMA AllTiersSent ==
  ASSUME NEW kd, NEW cpu, NEW sec, NEW stn, NEW k, NEW n,
         TransferBut(kd, cpu, sec, stn, k, n), Station(kd) => n = NumTiers
  PROVE  TransferOk(kd, cpu, sec, stn)
<1>1. CASE Station(kd)
  <2>1. NumTiers \in Nat BY OffloadAssumption
  <2>2. \A t \in Tiers : ~(t > NumTiers) BY <2>1 DEF Tiers
  <2>3. Through(cpu, sec, stn)
    BY <1>1, <2>2 DEF TransferBut, ThroughBut, Through
  <2> QED BY <2>3 DEF TransferBut, TransferOk, TiersOk
<1>2. CASE ~Station(kd) BY <1>2 DEF TransferBut, TransferOk, TiersOk
<1> QED BY <1>1, <1>2

(* A block that is new in the CPU tier and has not been sent yet. *)
LEMMA StoredUnsent ==
  ASSUME NEW kd, NEW cpu, NEW sec, NEW stn, TransferOk(kd, cpu, sec, stn),
         NEW k, k \notin DOMAIN cpu.ref, NEW u, CPUOk(u), Stored(cpu, u, k)
  PROVE  TransferBut(kd, u, sec, stn, k, 0)
<1>1. \A x : Pins(u, x) = Pins(cpu, x) BY DEF Pins, Stored
<1>2. \A x \in DOMAIN u.ref : u.ref[x] = -1 => x \in DOMAIN cpu.ref /\ cpu.ref[x] = -1
  BY DEF Stored
<1>3. PinsOk(u, stn) BY <1>1, <1>2 DEF TransferOk, PinsOk
<1>4. kd = "tiered" => \A x \in DOMAIN u.ref : u.ref[x] = 0
  BY DEF Stored, TransferOk
<1>5. Station(kd) => ThroughBut(u, sec, stn, k, 0)
  <2> SUFFICES ASSUME Station(kd), NEW x \in DOMAIN u.ref \cup UNION {sec[t] : t \in Tiers},
                      NEW t \in Tiers
               PROVE  (x = k /\ t > 0) \/ Sent(sec, stn, x, t)
    BY DEF ThroughBut
  <2>1. CASE x = k
    <3>1. NumTiers \in Nat BY OffloadAssumption
    <3> QED BY <2>1, <3>1 DEF Tiers
  <2>2. CASE x # k
    <3>1. x \in DOMAIN cpu.ref \cup UNION {sec[y] : y \in Tiers}
      BY <2>2 DEF Stored
    <3>2. Through(cpu, sec, stn) BY DEF TransferOk
    <3> QED BY <3>1, <3>2 DEF Through
  <2> QED BY <2>1, <2>2
<1> QED BY <1>3, <1>4, <1>5 DEF TransferBut, TransferOk, TiersOk

(* A job of one block. *)
LEMMA WriteJob ==
  ASSUME NEW k \in Keys
  PROVE  LET j == Job("write", <<k>>)
         IN  /\ j \in Jobs /\ OneBlock(j)
             /\ \A x : /\ One(j, Moves("write", x)) = IF x = k THEN 1 ELSE 0
                       /\ One(j, Moves("read", x)) = 0
<1> DEFINE j == Job("write", <<k>>)
<1>1. <<k>> \in Seq(Keys) /\ Len(<<k>>) = 1 /\ ToSet(<<k>>) = {k}
  <2>1. <<k>> \in Seq(Keys) /\ Len(<<k>>) = 1 /\ DOMAIN <<k>> = {1} /\ <<k>>[1] = k
    OBVIOUS
  <2> QED BY <2>1 DEF ToSet
<1>2. j.dir = "write" /\ j.keys = <<k>> /\ j \in Jobs BY <1>1 DEF Job, Jobs
<1> HIDE DEF j
<1>3. OneBlock(j) BY <1>1, <1>2 DEF OneBlock
<1>4. \A x : /\ j \in Moves("write", x) <=> x = k
             /\ j \notin Moves("read", x)
  BY <1>1, <1>2 DEF Moves
<1>5. \A x : /\ One(j, Moves("write", x)) = IF x = k THEN 1 ELSE 0
             /\ One(j, Moves("read", x)) = 0
  BY <1>4 DEF One
<1> QED BY <1>2, <1>3, <1>5 DEF j

(* A job submitted to one tier. *)
LEMMA SubmittedTo ==
  ASSUME NEW stn, stn = [x \in Tiers |-> stn[x]], TiersOk(stn), NEW t \in Tiers,
         NEW j \in Jobs, OneBlock(j)
  PROVE  LET u == [stn EXCEPT ![t] = Submit(@, j)]
         IN  /\ TiersOk(u) /\ OnlyTier(stn, u, t)
             /\ \A k : /\ OutLoad(u[t], k) = OutLoad(stn[t], k) + One(j, Moves("write", k))
                       /\ InLoad(u[t], k) = InLoad(stn[t], k) + One(j, Moves("read", k))
<1> DEFINE s == Submit(stn[t], j)
           u == [stn EXCEPT ![t] = Submit(@, j)]
<1>1. /\ TierOk(s)
      /\ \A d, k : Load(s, Moves(d, k)) = Load(stn[t], Moves(d, k)) + One(j, Moves(d, k))
  BY SubmitKeeps DEF TiersOk
<1>2. /\ u = [x \in Tiers |-> u[x]] /\ u[t] = s
      /\ \A x \in Tiers \ {t} : u[x] = stn[x]
  <2> HIDE DEF Tiers
  <2> QED OBVIOUS
<1> HIDE DEF u, s
<1>3. TiersOk(u) BY <1>1, <1>2 DEF TiersOk
<1>4. OnlyTier(stn, u, t) BY <1>2 DEF OnlyTier
<1>5. \A k : /\ OutLoad(u[t], k) = OutLoad(stn[t], k) + One(j, Moves("write", k))
             /\ InLoad(u[t], k) = InLoad(stn[t], k) + One(j, Moves("read", k))
  BY <1>1, <1>2 DEF OutLoad, InLoad
<1> QED BY <1>3, <1>4, <1>5 DEF u

(* The write-through of a block to the next tier: a pin and a job. *)
LEMMA SendKeeps ==
  ASSUME NEW kd, kd # "tiered", NEW cpu, NEW sec, NEW stn, NEW k \in Keys, NEW n \in Tiers,
         TransferBut(kd, cpu, sec, stn, k, n - 1),
         k \in DOMAIN cpu.ref, cpu.ref[k] >= 0
  PROVE  LET p == Pin(cpu, k)
             u == [stn EXCEPT ![n] = Submit(@, Job("write", <<k>>))]
         IN  TransferBut(kd, p, sec, u, k, n) /\ k \in DOMAIN p.ref /\ p.ref[k] >= 0
<1> DEFINE j == Job("write", <<k>>)
           p == Pin(cpu, k)
           u == [stn EXCEPT ![n] = Submit(@, j)]
<1>1. /\ CPUOk(cpu) /\ stn = [t \in Tiers |-> stn[t]] /\ TiersOk(stn)
      /\ sec \in [Tiers -> SUBSET Keys] /\ PinsOk(cpu, stn)
  BY DEF TransferBut
<1>2. /\ j \in Jobs /\ OneBlock(j)
      /\ \A x : /\ One(j, Moves("write", x)) = IF x = k THEN 1 ELSE 0
                /\ One(j, Moves("read", x)) = 0
  BY WriteJob
<1> HIDE DEF j
<1>3. /\ TiersOk(u) /\ OnlyTier(stn, u, n)
      /\ \A x : /\ OutLoad(u[n], x) = OutLoad(stn[n], x) + One(j, Moves("write", x))
                /\ InLoad(u[n], x) = InLoad(stn[n], x) + One(j, Moves("read", x))
  BY <1>1, <1>2, SubmittedTo
<1> HIDE DEF u
<1>4. \A x : /\ OutLoad(u[n], x) = OutLoad(stn[n], x) + (IF x = k THEN 1 ELSE 0)
             /\ InLoad(u[n], x) = InLoad(stn[n], x) + 0
             /\ OutLoad(stn[n], x) \in Nat /\ InLoad(stn[n], x) \in Nat
             /\ OutLoad(u[n], x) \in Nat /\ InLoad(u[n], x) \in Nat
  <2>1. \A x : /\ OutLoad(stn[n], x) \in Nat /\ InLoad(stn[n], x) \in Nat
               /\ OutLoad(u[n], x) \in Nat /\ InLoad(u[n], x) \in Nat
    BY <1>1, <1>3, CoversAre DEF TiersOk
  <2> QED BY <1>2, <1>3, <2>1
<1>5. /\ CPUOk(p) /\ Counted(cpu, p, k, cpu.ref[k] + 1)
      /\ cpu.ref[k] \in Nat
  <2>1. cpu.ref[k] \in {-1} \cup Nat BY <1>1 DEF CPUOk, CPUShape, IsMap
  <2>2. cpu.ref[k] \in Nat BY <2>1
  <2> QED BY <1>1, <2>2, PinKeeps
<1> HIDE DEF p
<1>6. /\ DOMAIN p.ref = DOMAIN cpu.ref /\ p.ref[k] = cpu.ref[k] + 1
      /\ \A x \in DOMAIN cpu.ref \ {k} : p.ref[x] = cpu.ref[x]
  BY <1>5 DEF Counted
<1>7. \A x : Pins(p, x) = Pins(cpu, x) + (IF x = k THEN 1 ELSE 0)
  <2> TAKE x
  <2>1. CASE x = k
    <3>1. Pins(cpu, k) = cpu.ref[k] BY <1>5 DEF Pins
    <3>2. Pins(p, k) = cpu.ref[k] + 1 BY <1>5, <1>6 DEF Pins
    <3> QED BY <2>1, <3>1, <3>2
  <2>2. CASE x # k
    <3>1. Pins(p, x) = Pins(cpu, x) BY <1>6, <2>2 DEF Pins
    <3>2. Pins(cpu, x) \in Int BY <1>1 DEF Pins, CPUOk, CPUShape, IsMap
    <3> QED BY <2>2, <3>1, <3>2
  <2> QED BY <2>1, <2>2
<1>8. \A x : Cardinality(Writes(u, x)) = Pins(p, x)
  <2> TAKE x
  <2>1. /\ Cardinality(Writes(u, x)) \in Nat /\ Cardinality(Writes(stn, x)) \in Nat
        /\ Cardinality(Writes(u, x)) + OutLoad(stn[n], x)
             = Cardinality(Writes(stn, x)) + OutLoad(u[n], x)
    BY <1>1, <1>3, WritesMove
  <2>2. Cardinality(Writes(stn, x)) = Pins(cpu, x) BY <1>1 DEF PinsOk
  <2>3. /\ OutLoad(u[n], x) = OutLoad(stn[n], x) + (IF x = k THEN 1 ELSE 0)
        /\ OutLoad(stn[n], x) \in Nat
    BY <1>4
  <2>4. Pins(p, x) = Pins(cpu, x) + (IF x = k THEN 1 ELSE 0) BY <1>7
  <2>5. CASE x = k BY <2>1, <2>2, <2>3, <2>4, <2>5
  <2>6. CASE x # k BY <2>1, <2>2, <2>3, <2>4, <2>6
  <2> QED BY <2>5, <2>6
<1>9. \A t \in Tiers : \A x : /\ Covers(stn[t], "read", x) # {} => Covers(u[t], "read", x) # {}
                              /\ Covers(stn[t], "write", x) # {} => Covers(u[t], "write", x) # {}
  <2> TAKE t \in Tiers
  <2> TAKE x
  <2>1. CASE t = n
    <3>1. /\ Covers(stn[n], "read", x) # {} <=> InLoad(stn[n], x) > 0
          /\ Covers(stn[n], "write", x) # {} <=> OutLoad(stn[n], x) > 0
          /\ Covers(u[n], "read", x) # {} <=> InLoad(u[n], x) > 0
          /\ Covers(u[n], "write", x) # {} <=> OutLoad(u[n], x) > 0
      BY <1>1, <1>3, CoversAre DEF TiersOk
    <3>2. /\ OutLoad(u[n], x) = OutLoad(stn[n], x) + (IF x = k THEN 1 ELSE 0)
          /\ InLoad(u[n], x) = InLoad(stn[n], x) + 0
          /\ OutLoad(stn[n], x) \in Nat /\ InLoad(stn[n], x) \in Nat
      BY <1>4
    <3>3. (OutLoad(stn[n], x) > 0 => OutLoad(u[n], x) > 0)
          /\ (InLoad(stn[n], x) > 0 => InLoad(u[n], x) > 0)
      BY <3>2
    <3> QED BY <2>1, <3>1, <3>3
  <2>2. CASE t # n
    <3>1. u[t] = stn[t] BY <1>3, <2>2 DEF OnlyTier
    <3> QED BY <3>1
  <2> QED BY <2>1, <2>2
<1>10. PinsOk(p, u)
  <2>1. \A x \in DOMAIN p.ref : p.ref[x] = -1 => \E t \in Tiers : Covers(u[t], "read", x) # {}
    <3> SUFFICES ASSUME NEW x \in DOMAIN p.ref, p.ref[x] = -1
                 PROVE  \E t \in Tiers : Covers(u[t], "read", x) # {}
      OBVIOUS
    <3>1. x # k BY <1>5, <1>6
    <3>2. x \in DOMAIN cpu.ref /\ cpu.ref[x] = -1 BY <1>6, <3>1
    <3>3. PICK t \in Tiers : Covers(stn[t], "read", x) # {} BY <1>1, <3>2 DEF PinsOk
    <3> QED BY <1>9, <3>3
  <2> QED BY <1>8, <2>1 DEF PinsOk
<1>11. Station(kd) => ThroughBut(p, sec, u, k, n)
  <2> SUFFICES ASSUME Station(kd), NEW x \in DOMAIN p.ref \cup UNION {sec[t] : t \in Tiers},
                      NEW t \in Tiers
               PROVE  (x = k /\ t > n) \/ Sent(sec, u, x, t)
    BY DEF ThroughBut
  <2>1. ThroughBut(cpu, sec, stn, k, n - 1) BY DEF TransferBut
  <2>2. (x = k /\ t > n - 1) \/ Sent(sec, stn, x, t) BY <1>6, <2>1 DEF ThroughBut
  <2>3. CASE Sent(sec, stn, x, t) BY <1>9, <2>3 DEF Sent
  <2>4. CASE x = k /\ t > n - 1
    <3>1. n \in Int /\ t \in Int BY DEF Tiers
    <3>2. CASE t > n BY <2>4, <3>2
    <3>3. CASE ~(t > n)
      <4>1. t = n BY <2>4, <3>1, <3>3
      <4>2. OutLoad(u[n], k) > 0
        <5>1. OutLoad(u[n], k) = OutLoad(stn[n], k) + 1 /\ OutLoad(stn[n], k) \in Nat
          BY <1>4
        <5> QED BY <5>1
      <4>3. Covers(u[n], "write", k) # {} BY <1>3, <4>2, CoversAre DEF TiersOk
      <4> QED BY <2>4, <4>1, <4>3 DEF Sent
    <3> QED BY <3>2, <3>3
  <2> QED BY <2>2, <2>3, <2>4
<1>12. TransferBut(kd, p, sec, u, k, n)
  <2>1. u = [t \in Tiers |-> u[t]] BY <1>3 DEF OnlyTier
  <2> QED BY <1>1, <1>3, <1>5, <1>10, <1>11, <2>1 DEF TransferBut
<1>13. k \in DOMAIN p.ref /\ p.ref[k] >= 0 BY <1>5, <1>6
<1> QED BY <1>12, <1>13 DEF p, u, j

(* What is sent to a tier still is when jobs are only added. *)
LEMMA SentStays ==
  ASSUME NEW stn, TiersOk(stn), NEW u, TiersOk(u), NEW n \in Tiers, OnlyTier(stn, u, n),
         \A x : OutLoad(u[n], x) >= OutLoad(stn[n], x),
         \A x : InLoad(u[n], x) >= InLoad(stn[n], x)
  PROVE  \A t \in Tiers : \A x : /\ Covers(stn[t], "read", x) # {} => Covers(u[t], "read", x) # {}
                                 /\ Covers(stn[t], "write", x) # {} => Covers(u[t], "write", x) # {}
<1> TAKE t \in Tiers
<1> TAKE x
<1>1. CASE t = n
  <2>1. /\ Covers(stn[n], "read", x) # {} <=> InLoad(stn[n], x) > 0
        /\ Covers(stn[n], "write", x) # {} <=> OutLoad(stn[n], x) > 0
        /\ Covers(u[n], "read", x) # {} <=> InLoad(u[n], x) > 0
        /\ Covers(u[n], "write", x) # {} <=> OutLoad(u[n], x) > 0
        /\ OutLoad(stn[n], x) \in Nat /\ InLoad(stn[n], x) \in Nat
        /\ OutLoad(u[n], x) \in Nat /\ InLoad(u[n], x) \in Nat
    BY CoversAre DEF TiersOk
  <2>2. OutLoad(u[n], x) >= OutLoad(stn[n], x) /\ InLoad(u[n], x) >= InLoad(stn[n], x)
    OBVIOUS
  <2>3. /\ OutLoad(stn[n], x) > 0 => OutLoad(u[n], x) > 0
        /\ InLoad(stn[n], x) > 0 => InLoad(u[n], x) > 0
    BY <2>1, <2>2
  <2> QED BY <1>1, <2>1, <2>3
<1>2. CASE t # n
  <2>1. u[t] = stn[t] BY <1>2 DEF OnlyTier
  <2> QED BY <2>1
<1> QED BY <1>1, <1>2

(* A promotion: slots are reserved, and a job reads into them. *)
LEMMA PromoteMoves ==
  ASSUME NEW kd, Station(kd), NEW cpu, NEW sec, NEW stn, TransferOk(kd, cpu, sec, stn),
         NEW run \in Seq(Keys), IsInjective(run), Gate(cpu, run),
         NEW n \in Tiers, ToSet(run) \subseteq sec[n]
  PROVE  TransferOk(kd, PrepareStore(cpu, run), sec,
                    [stn EXCEPT ![n] = Submit(@, Job("read", run))])
<1> DEFINE j == Job("read", run)
           p == PrepareStore(cpu, run)
           u == [stn EXCEPT ![n] = Submit(@, j)]
<1>1. /\ CPUOk(cpu) /\ stn = [t \in Tiers |-> stn[t]] /\ TiersOk(stn)
      /\ sec \in [Tiers -> SUBSET Keys] /\ PinsOk(cpu, stn) /\ Through(cpu, sec, stn)
  BY DEF TransferOk, TiersOk
<1>2. j \in Jobs /\ OneBlock(j) /\ j.dir = "read" /\ j.keys = run
  BY DEF Job, Jobs, OneBlock
<1> HIDE DEF j
<1>3. \A x : /\ One(j, Moves("write", x)) = 0
             /\ One(j, Moves("read", x)) = IF x \in ToSet(run) THEN 1 ELSE 0
  BY <1>2 DEF One, Moves
<1>4. /\ TiersOk(u) /\ OnlyTier(stn, u, n)
      /\ \A x : /\ OutLoad(u[n], x) = OutLoad(stn[n], x) + One(j, Moves("write", x))
                /\ InLoad(u[n], x) = InLoad(stn[n], x) + One(j, Moves("read", x))
  BY <1>1, <1>2, SubmittedTo
<1> HIDE DEF u
<1>5. \A x : /\ OutLoad(stn[n], x) \in Nat /\ InLoad(stn[n], x) \in Nat
             /\ OutLoad(u[n], x) \in Nat /\ InLoad(u[n], x) \in Nat
  BY <1>1, <1>4, CoversAre DEF TiersOk
<1>6. \A x : /\ OutLoad(u[n], x) = OutLoad(stn[n], x)
             /\ InLoad(u[n], x) >= InLoad(stn[n], x)
             /\ x \in ToSet(run) => InLoad(u[n], x) > 0
  <2> TAKE x
  <2>1. /\ OutLoad(u[n], x) = OutLoad(stn[n], x) + 0
        /\ InLoad(u[n], x) = InLoad(stn[n], x) + (IF x \in ToSet(run) THEN 1 ELSE 0)
    BY <1>3, <1>4
  <2>2. OutLoad(stn[n], x) \in Nat /\ InLoad(stn[n], x) \in Nat BY <1>5
  <2>3. CASE x \in ToSet(run) BY <2>1, <2>2, <2>3
  <2>4. CASE x \notin ToSet(run) BY <2>1, <2>2, <2>4
  <2> QED BY <2>3, <2>4
<1>7. \A t \in Tiers : \A x : /\ Covers(stn[t], "read", x) # {} => Covers(u[t], "read", x) # {}
                              /\ Covers(stn[t], "write", x) # {} => Covers(u[t], "write", x) # {}
  <2>1. \A x : OutLoad(u[n], x) >= OutLoad(stn[n], x) BY <1>5, <1>6
  <2>2. \A x : InLoad(u[n], x) >= InLoad(stn[n], x) BY <1>6
  <2> QED BY <1>1, <1>4, <2>1, <2>2, SentStays
<1>8. CPUOk(p) /\ Prepared(cpu, p, run) BY <1>1, PrepareKeeps
<1> HIDE DEF p
<1>9. \A x : Cardinality(Writes(u, x)) = Pins(p, x)
  <2> TAKE x
  <2>1. /\ Cardinality(Writes(u, x)) \in Nat /\ Cardinality(Writes(stn, x)) \in Nat
        /\ Cardinality(Writes(u, x)) + OutLoad(stn[n], x)
             = Cardinality(Writes(stn, x)) + OutLoad(u[n], x)
    BY <1>1, <1>4, WritesMove
  <2>2. Cardinality(Writes(stn, x)) = Pins(cpu, x) BY <1>1 DEF PinsOk
  <2>3. OutLoad(u[n], x) = OutLoad(stn[n], x) /\ OutLoad(stn[n], x) \in Nat
    BY <1>5, <1>6
  <2>4. Pins(p, x) = Pins(cpu, x) BY <1>8 DEF Pins, Prepared
  <2> QED BY <2>1, <2>2, <2>3, <2>4
<1>10. \A x \in DOMAIN p.ref : p.ref[x] = -1 => \E t \in Tiers : Covers(u[t], "read", x) # {}
  <2> SUFFICES ASSUME NEW x \in DOMAIN p.ref, p.ref[x] = -1
               PROVE  \E t \in Tiers : Covers(u[t], "read", x) # {}
    OBVIOUS
  <2>1. CASE x \in ToSet(run)
    <3>1. Covers(u[n], "read", x) # {} BY <1>4, <1>6, <2>1, CoversAre DEF TiersOk
    <3> QED BY <3>1
  <2>2. CASE x \notin ToSet(run)
    <3>1. x \in DOMAIN cpu.ref /\ cpu.ref[x] = -1 BY <1>8, <2>2 DEF Prepared
    <3>2. PICK t \in Tiers : Covers(stn[t], "read", x) # {} BY <1>1, <3>1 DEF PinsOk
    <3> QED BY <1>7, <3>2
  <2> QED BY <2>1, <2>2
<1>11. Through(p, sec, u)
  <2> SUFFICES ASSUME NEW x \in DOMAIN p.ref \cup UNION {sec[t] : t \in Tiers}, NEW t \in Tiers
               PROVE  Sent(sec, u, x, t)
    BY DEF Through
  <2>1. x \in DOMAIN cpu.ref \cup UNION {sec[y] : y \in Tiers}
    BY <1>8 DEF Prepared
  <2>2. Sent(sec, stn, x, t) BY <1>1, <2>1 DEF Through
  <2> QED BY <1>7, <2>2 DEF Sent
<1>12. u = [t \in Tiers |-> u[t]] /\ \A t \in Tiers : TierOk(u[t])
  BY <1>4 DEF OnlyTier, TiersOk
<1>13. PinsOk(p, u) BY <1>9, <1>10 DEF PinsOk
<1>14. kd # "tiered" BY DEF Station
<1>15. TransferOk(kd, p, sec, u)
  BY <1>1, <1>8, <1>11, <1>12, <1>13, <1>14 DEF TransferOk
<1> QED BY <1>15 DEF p, u, j

(* A job lands on one tier. *)
LEMMA LandedAt ==
  ASSUME NEW stn, stn = [x \in Tiers |-> stn[x]], TiersOk(stn), NEW t \in Tiers,
         NEW i \in DOMAIN stn[t].active
  PROVE  LET j == stn[t].active[i]
             u == [stn EXCEPT ![t] = Land(@, i)]
         IN  /\ j \in Jobs /\ OneBlock(j)
             /\ TiersOk(u) /\ OnlyTier(stn, u, t)
             /\ \A k : /\ OutLoad(stn[t], k) = OutLoad(u[t], k) + One(j, Moves("write", k))
                       /\ InLoad(stn[t], k) = InLoad(u[t], k) + One(j, Moves("read", k))
<1> DEFINE s == Land(stn[t], i)
           j == stn[t].active[i]
           u == [stn EXCEPT ![t] = Land(@, i)]
<1>1. /\ TierOk(s) /\ j \in Jobs /\ OneBlock(j)
      /\ \A d, k : Load(stn[t], Moves(d, k)) = Load(s, Moves(d, k)) + One(j, Moves(d, k))
  BY LandKeeps DEF TiersOk
<1>2. /\ u = [x \in Tiers |-> u[x]] /\ u[t] = s
      /\ \A x \in Tiers \ {t} : u[x] = stn[x]
  <2> HIDE DEF Tiers
  <2> QED OBVIOUS
<1> HIDE DEF u, s, j
<1>3. TiersOk(u) BY <1>1, <1>2 DEF TiersOk
<1>4. OnlyTier(stn, u, t) BY <1>2 DEF OnlyTier
<1>5. \A k : /\ OutLoad(stn[t], k) = OutLoad(u[t], k) + One(j, Moves("write", k))
             /\ InLoad(stn[t], k) = InLoad(u[t], k) + One(j, Moves("read", k))
  BY <1>1, <1>2 DEF OutLoad, InLoad
<1> QED BY <1>1, <1>3, <1>4, <1>5 DEF u, j

\* u is t with the slots of K that were read into ready.
Completed(t, u, K) ==
  /\ DOMAIN u.ref = DOMAIN t.ref
  /\ \A x \in DOMAIN t.ref : u.ref[x] = IF x \in K /\ t.ref[x] = -1 THEN 0 ELSE t.ref[x]

(* A promotion lands: its slots become blocks. *)
LEMMA ReadLands ==
  ASSUME NEW kd, NEW cpu, NEW sec, NEW stn, TransferOk(kd, cpu, sec, stn),
         NEW n \in Tiers, NEW i \in DOMAIN stn[n].active, stn[n].active[i].dir = "read",
         NEW p, CPUOk(p), Completed(cpu, p, ToSet(stn[n].active[i].keys))
  PROVE  TransferOk(kd, p, sec, [stn EXCEPT ![n] = Land(@, i)])
<1> DEFINE j == stn[n].active[i]
           u == [stn EXCEPT ![n] = Land(@, i)]
<1>1. /\ CPUOk(cpu) /\ stn = [t \in Tiers |-> stn[t]] /\ TiersOk(stn)
      /\ sec \in [Tiers -> SUBSET Keys] /\ PinsOk(cpu, stn)
  BY DEF TransferOk, TiersOk
<1>2. /\ j \in Jobs /\ TiersOk(u) /\ OnlyTier(stn, u, n)
      /\ \A x : /\ OutLoad(stn[n], x) = OutLoad(u[n], x) + One(j, Moves("write", x))
                /\ InLoad(stn[n], x) = InLoad(u[n], x) + One(j, Moves("read", x))
  BY <1>1, LandedAt
<1>3. \A x : /\ One(j, Moves("write", x)) = 0
             /\ One(j, Moves("read", x)) = IF x \in ToSet(j.keys) THEN 1 ELSE 0
  BY <1>2 DEF One, Moves
<1>4. Completed(cpu, p, ToSet(j.keys)) OBVIOUS
<1> HIDE DEF u, j
<1>5. \A x : /\ OutLoad(stn[n], x) \in Nat /\ InLoad(stn[n], x) \in Nat
             /\ OutLoad(u[n], x) \in Nat /\ InLoad(u[n], x) \in Nat
  BY <1>1, <1>2, CoversAre DEF TiersOk
<1>6. \A x : /\ OutLoad(u[n], x) = OutLoad(stn[n], x)
             /\ x \notin ToSet(j.keys) => InLoad(u[n], x) = InLoad(stn[n], x)
  <2> TAKE x
  <2>1. /\ OutLoad(stn[n], x) = OutLoad(u[n], x) + 0
        /\ InLoad(stn[n], x) = InLoad(u[n], x) + (IF x \in ToSet(j.keys) THEN 1 ELSE 0)
    BY <1>2, <1>3
  <2>2. OutLoad(u[n], x) \in Nat /\ InLoad(u[n], x) \in Nat BY <1>5
  <2> QED BY <2>1, <2>2
<1>7. \A t \in Tiers : \A x : Covers(stn[t], "write", x) # {} => Covers(u[t], "write", x) # {}
  <2> TAKE t \in Tiers
  <2> TAKE x
  <2>1. CASE t = n
    <3>1. /\ Covers(stn[n], "write", x) # {} <=> OutLoad(stn[n], x) > 0
          /\ Covers(u[n], "write", x) # {} <=> OutLoad(u[n], x) > 0
      BY <1>1, <1>2, CoversAre DEF TiersOk
    <3> QED BY <1>6, <2>1, <3>1
  <2>2. CASE t # n
    <3>1. u[t] = stn[t] BY <1>2, <2>2 DEF OnlyTier
    <3> QED BY <3>1
  <2> QED BY <2>1, <2>2
<1>8. \A x : Cardinality(Writes(u, x)) = Pins(p, x)
  <2> TAKE x
  <2>1. /\ Cardinality(Writes(u, x)) \in Nat /\ Cardinality(Writes(stn, x)) \in Nat
        /\ Cardinality(Writes(u, x)) + OutLoad(stn[n], x)
             = Cardinality(Writes(stn, x)) + OutLoad(u[n], x)
    BY <1>1, <1>2, WritesMove
  <2>2. Cardinality(Writes(stn, x)) = Pins(cpu, x) BY <1>1 DEF PinsOk
  <2>3. OutLoad(u[n], x) = OutLoad(stn[n], x) /\ OutLoad(stn[n], x) \in Nat
    BY <1>5, <1>6
  <2>4. Pins(p, x) = Pins(cpu, x) BY <1>4 DEF Pins, Completed
  <2> QED BY <2>1, <2>2, <2>3, <2>4
<1>9. \A x \in DOMAIN p.ref : p.ref[x] = -1 => \E t \in Tiers : Covers(u[t], "read", x) # {}
  <2> SUFFICES ASSUME NEW x \in DOMAIN p.ref, p.ref[x] = -1
               PROVE  \E t \in Tiers : Covers(u[t], "read", x) # {}
    OBVIOUS
  <2>1. x \notin ToSet(j.keys) /\ x \in DOMAIN cpu.ref /\ cpu.ref[x] = -1
    BY <1>4 DEF Completed
  <2>2. PICK t \in Tiers : Covers(stn[t], "read", x) # {} BY <1>1, <2>1 DEF PinsOk
  <2>3. CASE t = n
    <3>1. /\ Covers(stn[n], "read", x) # {} <=> InLoad(stn[n], x) > 0
          /\ Covers(u[n], "read", x) # {} <=> InLoad(u[n], x) > 0
      BY <1>1, <1>2, CoversAre DEF TiersOk
    <3> QED BY <1>6, <2>1, <2>2, <2>3, <3>1
  <2>4. CASE t # n
    <3>1. u[t] = stn[t] BY <1>2, <2>4 DEF OnlyTier
    <3> QED BY <2>2, <3>1
  <2> QED BY <2>3, <2>4
<1>10. Station(kd) => Through(p, sec, u)
  BY <1>4, <1>7 DEF TransferOk, Through, Sent, Completed
<1>11. kd = "tiered" => \A x \in DOMAIN p.ref : p.ref[x] = 0
  BY <1>4 DEF TransferOk, Completed
<1>12. u = [t \in Tiers |-> u[t]] /\ \A t \in Tiers : TierOk(u[t])
  BY <1>2 DEF OnlyTier, TiersOk
<1>13. PinsOk(p, u) BY <1>8, <1>9 DEF PinsOk
<1>14. TransferOk(kd, p, sec, u)
  BY <1>1, <1>10, <1>11, <1>12, <1>13 DEF TransferOk
<1> QED BY <1>14 DEF u

(* A write lands: the block loses a pin, and the tier holds it. *)
LEMMA WriteLands ==
  ASSUME NEW kd, Station(kd), NEW cpu, NEW sec, NEW stn, TransferOk(kd, cpu, sec, stn),
         NEW n \in Tiers, NEW i \in DOMAIN stn[n].active, stn[n].active[i].dir = "write",
         NEW k, ToSet(stn[n].active[i].keys) = {k}
  PROVE  /\ k \in Keys
         /\ TransferOk(kd, Unpin(cpu, k), [sec EXCEPT ![n] = @ \cup {k}],
                       [stn EXCEPT ![n] = Land(@, i)])
<1> DEFINE j == stn[n].active[i]
           p == Unpin(cpu, k)
           u == [stn EXCEPT ![n] = Land(@, i)]
           s == [sec EXCEPT ![n] = @ \cup {k}]
<1>1. /\ CPUOk(cpu) /\ stn = [t \in Tiers |-> stn[t]] /\ TiersOk(stn)
      /\ sec \in [Tiers -> SUBSET Keys] /\ PinsOk(cpu, stn) /\ Through(cpu, sec, stn)
  BY DEF TransferOk, TiersOk
<1>2. /\ j \in Jobs /\ TiersOk(u) /\ OnlyTier(stn, u, n)
      /\ \A x : /\ OutLoad(stn[n], x) = OutLoad(u[n], x) + One(j, Moves("write", x))
                /\ InLoad(stn[n], x) = InLoad(u[n], x) + One(j, Moves("read", x))
  BY <1>1, LandedAt
<1>3. \A x : /\ One(j, Moves("write", x)) = IF x = k THEN 1 ELSE 0
             /\ One(j, Moves("read", x)) = 0
  BY <1>2 DEF One, Moves
<1> HIDE DEF u, j
<1>4. \A x : /\ OutLoad(stn[n], x) \in Nat /\ InLoad(stn[n], x) \in Nat
             /\ OutLoad(u[n], x) \in Nat /\ InLoad(u[n], x) \in Nat
  BY <1>1, <1>2, CoversAre DEF TiersOk
<1>5. \A x : /\ OutLoad(stn[n], x) = OutLoad(u[n], x) + (IF x = k THEN 1 ELSE 0)
             /\ InLoad(u[n], x) = InLoad(stn[n], x)
  <2> TAKE x
  <2>1. /\ OutLoad(stn[n], x) = OutLoad(u[n], x) + (IF x = k THEN 1 ELSE 0)
        /\ InLoad(stn[n], x) = InLoad(u[n], x) + 0
    BY <1>2, <1>3
  <2> QED BY <1>4, <2>1
<1>6. k \in DOMAIN cpu.ref /\ cpu.ref[k] > 0 /\ cpu.ref[k] \in Nat /\ k \in Keys
  <2>1. OutLoad(stn[n], k) > 0
    <3>1. OutLoad(stn[n], k) = OutLoad(u[n], k) + 1 /\ OutLoad(u[n], k) \in Nat
      BY <1>4, <1>5
    <3> QED BY <3>1
  <2>2. Cardinality(Writes(stn, k)) > 0 BY <1>1, <2>1, WritesSome
  <2>3. Pins(cpu, k) > 0 BY <1>1, <2>2 DEF PinsOk
  <2>4. k \in DOMAIN cpu.ref /\ cpu.ref[k] > 0
    <3>1. ~(0 > 0) OBVIOUS
    <3> QED BY <2>3, <3>1 DEF Pins
  <2>5. k \in Keys /\ cpu.ref[k] \in {-1} \cup Nat BY <1>1, <2>4 DEF CPUOk, CPUShape, IsMap
  <2> QED BY <2>4, <2>5
<1>7. CPUOk(p) /\ Counted(cpu, p, k, cpu.ref[k] - 1) BY <1>1, <1>6, UnpinKeeps
<1> HIDE DEF p
<1>8. /\ DOMAIN p.ref = DOMAIN cpu.ref /\ p.ref[k] = cpu.ref[k] - 1
      /\ \A x \in DOMAIN cpu.ref \ {k} : p.ref[x] = cpu.ref[x]
  BY <1>7 DEF Counted
<1>9. /\ s \in [Tiers -> SUBSET Keys] /\ k \in s[n]
      /\ \A t \in Tiers : sec[t] \subseteq s[t] /\ s[t] \subseteq sec[t] \cup {k}
  BY <1>1, <1>6
<1> HIDE DEF s
<1>10. \A x : Pins(cpu, x) = Pins(p, x) + (IF x = k THEN 1 ELSE 0)
  <2> TAKE x
  <2>1. CASE x = k
    <3>1. Pins(cpu, k) = cpu.ref[k] BY <1>6 DEF Pins
    <3>2. Pins(p, k) = cpu.ref[k] - 1 BY <1>6, <1>8 DEF Pins
    <3> QED BY <1>6, <2>1, <3>1, <3>2
  <2>2. CASE x # k
    <3>1. Pins(p, x) = Pins(cpu, x) BY <1>8, <2>2 DEF Pins
    <3>2. Pins(cpu, x) \in Int BY <1>1 DEF Pins, CPUOk, CPUShape, IsMap
    <3> QED BY <2>2, <3>1, <3>2
  <2> QED BY <2>1, <2>2
<1>11. \A x : Cardinality(Writes(u, x)) = Pins(p, x)
  <2> TAKE x
  <2>1. /\ Cardinality(Writes(u, x)) \in Nat /\ Cardinality(Writes(stn, x)) \in Nat
        /\ Cardinality(Writes(u, x)) + OutLoad(stn[n], x)
             = Cardinality(Writes(stn, x)) + OutLoad(u[n], x)
    BY <1>1, <1>2, WritesMove
  <2>2. Cardinality(Writes(stn, x)) = Pins(cpu, x) BY <1>1 DEF PinsOk
  <2>3. /\ OutLoad(stn[n], x) = OutLoad(u[n], x) + (IF x = k THEN 1 ELSE 0)
        /\ OutLoad(u[n], x) \in Nat
    BY <1>4, <1>5
  <2>4. Pins(cpu, x) = Pins(p, x) + (IF x = k THEN 1 ELSE 0) BY <1>10
  <2>5. Pins(p, x) \in Int BY <1>7 DEF Pins, CPUOk, CPUShape, IsMap
  <2>6. CASE x = k BY <2>1, <2>2, <2>3, <2>4, <2>5, <2>6
  <2>7. CASE x # k BY <2>1, <2>2, <2>3, <2>4, <2>5, <2>7
  <2> QED BY <2>6, <2>7
<1>12. \A t \in Tiers : \A x :
         /\ Covers(stn[t], "read", x) # {} => Covers(u[t], "read", x) # {}
         /\ Covers(stn[t], "write", x) # {} => \/ Covers(u[t], "write", x) # {}
                                               \/ t = n /\ x = k
  <2> TAKE t \in Tiers
  <2> TAKE x
  <2>1. CASE t = n
    <3>1. /\ Covers(stn[n], "read", x) # {} <=> InLoad(stn[n], x) > 0
          /\ Covers(u[n], "read", x) # {} <=> InLoad(u[n], x) > 0
          /\ Covers(stn[n], "write", x) # {} <=> OutLoad(stn[n], x) > 0
          /\ Covers(u[n], "write", x) # {} <=> OutLoad(u[n], x) > 0
      BY <1>1, <1>2, CoversAre DEF TiersOk
    <3>2. CASE x = k BY <1>5, <2>1, <3>1, <3>2
    <3>3. CASE x # k
      <4>1. OutLoad(stn[n], x) = OutLoad(u[n], x)
        <5>1. OutLoad(stn[n], x) = OutLoad(u[n], x) + 0 /\ OutLoad(u[n], x) \in Nat
          BY <1>4, <1>5, <3>3
        <5> QED BY <5>1
      <4> QED BY <1>5, <2>1, <3>1, <4>1
    <3> QED BY <3>2, <3>3
  <2>2. CASE t # n
    <3>1. u[t] = stn[t] BY <1>2, <2>2 DEF OnlyTier
    <3> QED BY <3>1
  <2> QED BY <2>1, <2>2
<1>13. \A x \in DOMAIN p.ref : p.ref[x] = -1 => \E t \in Tiers : Covers(u[t], "read", x) # {}
  <2> SUFFICES ASSUME NEW x \in DOMAIN p.ref, p.ref[x] = -1
               PROVE  \E t \in Tiers : Covers(u[t], "read", x) # {}
    OBVIOUS
  <2>1. x # k BY <1>6, <1>8
  <2>2. x \in DOMAIN cpu.ref /\ cpu.ref[x] = -1 BY <1>8, <2>1
  <2>3. PICK t \in Tiers : Covers(stn[t], "read", x) # {} BY <1>1, <2>2 DEF PinsOk
  <2> QED BY <1>12, <2>3
<1>14. Through(p, s, u)
  <2> SUFFICES ASSUME NEW x \in DOMAIN p.ref \cup UNION {s[t] : t \in Tiers}, NEW t \in Tiers
               PROVE  Sent(s, u, x, t)
    BY DEF Through
  <2>1. x \in DOMAIN cpu.ref \cup UNION {sec[y] : y \in Tiers}
    BY <1>6, <1>8, <1>9
  <2>2. Sent(sec, stn, x, t) BY <1>1, <2>1 DEF Through
  <2>3. x \in sec[t] \/ Covers(u[t], "write", x) # {} \/ (t = n /\ x = k)
    BY <1>12, <2>2 DEF Sent
  <2> QED BY <1>9, <2>3 DEF Sent
<1>15. u = [t \in Tiers |-> u[t]] /\ \A t \in Tiers : TierOk(u[t])
  BY <1>2 DEF OnlyTier, TiersOk
<1>16. PinsOk(p, u) BY <1>11, <1>13 DEF PinsOk
<1>17. kd # "tiered" BY DEF Station
<1>18. TransferOk(kd, p, s, u)
  BY SMTT(60), <1>7, <1>9, <1>14, <1>15, <1>16, <1>17 DEF TransferOk
<1> QED BY <1>6, <1>18 DEF p, s, u

------------------------------
(* The GPU tier. *)

(* All but the last element of a list. *)
LEMMA FrontIs ==
  ASSUME NEW S, NEW s \in Seq(S), s # <<>>
  PROVE  /\ Front(s) \in Seq(S) /\ Len(Front(s)) = Len(s) - 1
         /\ LastOf(s) \in S /\ ToSet(s) = ToSet(Front(s)) \cup {LastOf(s)}
         /\ IsInjective(s) => /\ IsInjective(Front(s))
                              /\ ToSet(Front(s)) = ToSet(s) \ {LastOf(s)}
<1> DEFINE n == Len(s)
           u == SubSeq(s, 1, n - 1)
<1>1. n \in Nat \ {0} /\ DOMAIN s = 1 .. n /\ n \in 1 .. n /\ n - 1 \in Nat /\ n - 1 <= n
  OBVIOUS
<1>2. LastOf(s) = s[n] /\ s[n] \in S /\ u = Front(s)
  BY <1>1, ElementOfSeq DEF LastOf, Front
<1>3. /\ u \in Seq(S) /\ Len(u) = IF 1 <= n - 1 THEN n - 1 - 1 + 1 ELSE 0
      /\ ToSet(u) = {s[i] : i \in 1 .. n - 1}
      /\ IsInjective(s) => IsInjective(u)
  <2>1. 1 \in Nat \ {0} OBVIOUS
  <2> QED BY <1>1, <2>1, SubSeqIs
<1> HIDE DEF u, n
<1>4. Len(u) = n - 1 BY <1>1, <1>3
<1>5. ToSet(s) = ToSet(u) \cup {s[n]}
  <2>1. \A i \in 1 .. n : i \in 1 .. n - 1 \/ i = n BY <1>1
  <2>2. \A i \in 1 .. n - 1 : i \in 1 .. n BY <1>1
  <2> QED BY <1>1, <1>3, <2>1, <2>2 DEF ToSet
<1>6. IsInjective(s) => s[n] \notin ToSet(u)
  <2> SUFFICES ASSUME IsInjective(s) PROVE \A i \in 1 .. n - 1 : s[i] # s[n]
    BY <1>3
  <2> TAKE i \in 1 .. n - 1
  <2>1. i \in 1 .. n /\ i # n BY <1>1
  <2> QED BY <1>1, <2>1 DEF IsInjective
<1> QED BY ZenonT(60), <1>1, <1>2, <1>3, <1>4, <1>5, <1>6 DEF n

(* A block gets a new hash: the index forgets the old one. *)
LEMMA RehashGpu ==
  ASSUME NEW free, NEW hash, NEW index, NEW owned, GpuOk(free, hash, index, owned),
         NEW b \in Blocks, NEW h \in Keys, NEW v,
         v = IF h = NoHash THEN Drop(index, {hash[b]}) ELSE Put(Drop(index, {hash[b]}), h, b)
  PROVE  GpuOk(free, [hash EXCEPT ![b] = h], v, owned)
<1> DEFINE d == Drop(index, {hash[b]})
           g == [hash EXCEPT ![b] = h]
<1>1. /\ hash \in [Blocks -> Keys] /\ IsMap(index, Keys, Blocks)
      /\ \A x \in DOMAIN index : hash[index[x]] = x
      /\ free \in Seq(Blocks) /\ IsInjective(free) /\ owned \in [Requests -> Seq(Blocks)]
      /\ ToSet(free) = Blocks \ Used(owned)
  BY DEF GpuOk
<1>2. g \in [Blocks -> Keys] /\ g[b] = h /\ \A x \in Blocks \ {b} : g[x] = hash[x]
  BY <1>1
<1>3. /\ d = [x \in DOMAIN d |-> d[x]] /\ DOMAIN d = DOMAIN index \ {hash[b]}
      /\ \A x \in DOMAIN d : d[x] = index[x]
  BY DEF Drop
<1> HIDE DEF d, g
<1>4. IsMap(d, Keys, Blocks) /\ \A x \in DOMAIN d : d[x] # b /\ g[d[x]] = x
  BY <1>1, <1>2, <1>3 DEF IsMap
<1>5. CASE h = NoHash
  <2>1. v = d BY <1>5 DEF d
  <2> QED BY <1>1, <1>2, <1>4, <2>1 DEF GpuOk, g
<1>6. CASE h # NoHash
  <2>1. v = Put(d, h, b) BY <1>6 DEF d
  <2>2. /\ v = [x \in DOMAIN v |-> v[x]] /\ DOMAIN v = DOMAIN d \cup {h}
        /\ \A x \in DOMAIN v : v[x] = IF x = h THEN b ELSE d[x]
    BY <2>1 DEF Put
  <2>3. IsMap(v, Keys, Blocks) /\ \A x \in DOMAIN v : g[v[x]] = x
    BY <1>2, <1>4, <2>2 DEF IsMap
  <2> QED BY <1>1, <1>2, <2>3 DEF GpuOk, g
<1> QED BY <1>5, <1>6

\* u has the CPU tier, the secondary tiers and the episodes of c.
SameStore(c, u) ==
  /\ u.cpu = c.cpu /\ u.secondary = c.secondary /\ u.station = c.station
  /\ u.deferred = c.deferred
OwnedBut(c, u, r) == \A q \in Requests \ {r} : u.owned[q] = c.owned[q]

(* A change of the GPU tier alone. *)
LEMMA GpuOnly ==
  ASSUME NEW kd, NEW c, CacheOk(kd, c), NEW u, CacheShape(u), SameStore(c, u),
         GpuOk(u.free, u.hash, u.index, u.owned)
  PROVE  CacheOk(kd, u)
  BY DEF CacheOk, SameStore

\* u is c with hash h for block b.
Rehashed(c, u, b, h) ==
  /\ CacheShape(u) /\ u.free = c.free /\ u.owned = c.owned /\ SameStore(c, u)
  /\ u.hash = [c.hash EXCEPT ![b] = h]
  /\ u.index = IF h = NoHash THEN Drop(c.index, {c.hash[b]})
               ELSE Put(Drop(c.index, {c.hash[b]}), h, b)

(* What Rehash does to a cache. *)
LEMMA RehashIs ==
  ASSUME NEW c, CacheShape(c), NEW b, NEW h
  PROVE  Rehashed(c, Rehash(c, b, h), b, h)
  BY DEF CacheShape, Rehash, SameStore, Rehashed

(* A block is rewritten. *)
LEMMA RehashKeeps ==
  ASSUME NEW kd, NEW c, CacheOk(kd, c), NEW b \in Blocks, NEW h \in Keys
  PROVE  CacheOk(kd, Rehash(c, b, h))
<1> DEFINE u == Rehash(c, b, h)
<1>0. CacheShape(c) BY DEF CacheOk
<1>1. Rehashed(c, u, b, h) BY <1>0, RehashIs
<1> HIDE DEF u
<1>2. GpuOk(c.free, [c.hash EXCEPT ![b] = h], u.index, c.owned)
  BY <1>1, RehashGpu DEF CacheOk, Rehashed
<1>3. GpuOk(u.free, u.hash, u.index, u.owned) BY <1>1, <1>2 DEF Rehashed
<1>4. CacheOk(kd, u) BY <1>1, <1>3, GpuOnly DEF Rehashed
<1> QED BY <1>4 DEF u

(* The blocks somebody owns, when r owns the blocks B besides. *)
LEMMA UsedGrows ==
  ASSUME NEW c, NEW u, NEW r \in Requests, OwnedBut(c, u, r),
         NEW B, ToSet(u.owned[r]) = ToSet(c.owned[r]) \cup B
  PROVE  Used(u.owned) = Used(c.owned) \cup B
<1>0. \A q \in Requests \ {r} : u.owned[q] = c.owned[q] BY DEF OwnedBut
<1>1. \A f, x : x \in Used(f) <=> \E q \in Requests : x \in ToSet(f[q])
  BY DEF Used
<1>2. \A x : (\E q \in Requests : x \in ToSet(u.owned[q]))
               <=> x \in B \/ \E q \in Requests : x \in ToSet(c.owned[q])
  <2> TAKE x
  <2>1. ASSUME NEW q \in Requests, x \in ToSet(u.owned[q])
        PROVE  x \in B \/ \E y \in Requests : x \in ToSet(c.owned[y])
    <3>1. CASE q = r BY <2>1, <3>1
    <3>2. CASE q # r
      <4>1. x \in ToSet(c.owned[q]) BY <1>0, <2>1, <3>2
      <4> QED BY <4>1
    <3> QED BY <3>1, <3>2
  <2>2. ASSUME x \in B PROVE \E q \in Requests : x \in ToSet(u.owned[q])
    BY <2>2
  <2>3. ASSUME NEW q \in Requests, x \in ToSet(c.owned[q])
        PROVE  \E y \in Requests : x \in ToSet(u.owned[y])
    <3>1. CASE q = r BY <2>3, <3>1
    <3>2. CASE q # r
      <4>1. x \in ToSet(u.owned[q]) BY <1>0, <2>3, <3>2
      <4> QED BY <4>1
    <3> QED BY <3>1, <3>2
  <2> QED BY <2>1, <2>2, <2>3
<1>3. \A x : x \in Used(u.owned) <=> x \in B \/ x \in Used(c.owned)
  BY <1>1, <1>2
<1> QED BY <1>3

(* A free block is rewritten and given to r. *)
LEMMA PopKeeps ==
  ASSUME NEW kd, NEW c, CacheOk(kd, c), NEW r \in Requests, c.free # <<>>,
         NEW prefill \in BOOLEAN, NEW token, prefill => token \in Tokens
  PROVE  LET u == PopBlock(c, r, prefill, token)
         IN  /\ CacheOk(kd, u) /\ OwnedBut(c, u, r) /\ SameStore(c, u)
             /\ Len(u.free) = Len(c.free) - 1
<1> DEFINE b    == Head(c.free)
           prev == IF c.owned[r] = <<>> THEN NoHash ELSE c.hash[LastOf(c.owned[r])]
           h    == IF prefill THEN Append(prev, token) ELSE NoHash
           d    == [c EXCEPT !.free = Tail(@)]
           e    == Rehash(d, b, h)
           u    == PopBlock(c, r, prefill, token)
<1>1. /\ CacheShape(c) /\ c.free \in Seq(Blocks) /\ IsInjective(c.free)
      /\ c.hash \in [Blocks -> Keys] /\ c.owned \in [Requests -> Seq(Blocks)]
      /\ ToSet(c.free) = Blocks \ Used(c.owned)
      /\ GpuOk(c.free, c.hash, c.index, c.owned)
  BY DEF CacheOk, GpuOk
<1>2. /\ b \in Blocks /\ b \in ToSet(c.free)
      /\ Tail(c.free) \in Seq(Blocks) /\ Len(Tail(c.free)) = Len(c.free) - 1
      /\ IsInjective(Tail(c.free)) /\ ToSet(Tail(c.free)) = ToSet(c.free) \ {b}
  BY <1>1, HeadIs
<1>3. h \in Keys
  <2>1. prev \in Keys
    <3>1. CASE c.owned[r] = <<>>
      <4>1. <<>> \in Seq(Tokens) OBVIOUS
      <4> QED BY <3>1, <4>1 DEF NoHash, Keys
    <3>2. CASE c.owned[r] # <<>>
      <4>1. LastOf(c.owned[r]) \in Blocks BY <1>1, <3>2, FrontIs
      <4> QED BY <1>1, <3>2, <4>1
    <3> QED BY <3>1, <3>2
  <2> HIDE DEF prev
  <2>2. CASE prefill
    <3>1. Append(prev, token) \in Seq(Tokens) BY <2>1, <2>2 DEF Keys
    <3> QED BY <2>2, <3>1 DEF Keys
  <2>3. CASE ~prefill
    <3>1. <<>> \in Seq(Tokens) OBVIOUS
    <3> QED BY <2>3, <3>1 DEF NoHash, Keys
  <2> QED BY <2>2, <2>3
<1>4. u = [e EXCEPT !.owned[r] = Append(@, b)] BY DEF PopBlock
<1> HIDE DEF b, h, u
<1>5. /\ CacheShape(d) /\ d.free = Tail(c.free) /\ d.hash = c.hash /\ d.index = c.index
      /\ d.owned = c.owned /\ SameStore(c, d)
  BY <1>1 DEF CacheShape, SameStore
<1> HIDE DEF d
<1>6. Rehashed(d, e, b, h) BY <1>5, RehashIs
<1> HIDE DEF e
<1>7. /\ CacheShape(u) /\ u.free = Tail(c.free) /\ u.hash = [c.hash EXCEPT ![b] = h]
      /\ u.index = e.index /\ u.owned = [c.owned EXCEPT ![r] = Append(@, b)]
      /\ SameStore(c, u)
  BY <1>4, <1>5, <1>6 DEF CacheShape, SameStore, Rehashed
<1>8. GpuOk(c.free, u.hash, u.index, c.owned)
  BY SMTT(60), <1>1, <1>2, <1>3, <1>5, <1>6, <1>7, RehashGpu DEF Rehashed
<1>9. /\ c.owned[r] \in Seq(Blocks)
      /\ Append(c.owned[r], b) \in Seq(Blocks)
      /\ ToSet(Append(c.owned[r], b)) = ToSet(c.owned[r]) \cup {b}
  BY <1>1, <1>2, AppendIs
<1>10. /\ u.owned \in [Requests -> Seq(Blocks)] /\ OwnedBut(c, u, r)
       /\ u.owned[r] = Append(c.owned[r], b)
  BY <1>1, <1>7, <1>9 DEF OwnedBut
<1>11. Used(u.owned) = Used(c.owned) \cup {b}
  <2> DEFINE B == {b}
  <2>1. ToSet(u.owned[r]) = ToSet(c.owned[r]) \cup B BY <1>9, <1>10
  <2> HIDE DEF B
  <2>2. OwnedBut(c, u, r) BY <1>10
  <2>3. Used(u.owned) = Used(c.owned) \cup B BY <2>1, <2>2, UsedGrows
  <2> QED BY <2>3 DEF B
<1>12. ToSet(u.free) = Blocks \ Used(u.owned) BY <1>1, <1>2, <1>7, <1>11
<1>13. GpuOk(u.free, u.hash, u.index, u.owned)
  BY <1>2, <1>7, <1>8, <1>10, <1>12 DEF GpuOk
<1>14. CacheOk(kd, u) BY <1>7, <1>13, GpuOnly
<1> QED BY <1>2, <1>7, <1>10, <1>14 DEF u

(* commitCachedBlocks on the free list. *)
LEMMA ClaimAll ==
  ASSUME NEW free \in Seq(Blocks), IsInjective(free), NEW bs \in Seq(Blocks)
  PROVE  LET u == FoldLeft(Without, free, bs)
         IN  /\ u \in Seq(Blocks) /\ IsInjective(u)
             /\ ToSet(u) = ToSet(free) \ ToSet(bs)
<1> DEFINE n == Len(bs)
           w == [free |-> free, bs |-> bs]
<1>1. n \in Nat /\ DOMAIN bs = 1 .. n /\ w.free = free /\ w.bs = bs OBVIOUS
<1> HIDE DEF w, n
<1>2. ClaimKept(0, w, 0, free) BY <1>1 DEF ClaimKept
<1>3. \A k \in 1 .. n : \A x : ClaimKept(0, w, k - 1, x) => ClaimKept(0, w, k, ClaimOp(0, x, bs[k]))
  <2> SUFFICES ASSUME NEW k \in 1 .. n, NEW x, ClaimKept(0, w, k - 1, x)
               PROVE  ClaimKept(0, w, k, Without(x, bs[k]))
    BY DEF ClaimOp
  <2>1. x \in Seq(Blocks) /\ IsInjective(x)
        /\ ToSet(x) = ToSet(w.free) \ {w.bs[i] : i \in 1 .. k - 1}
    BY DEF ClaimKept
  <2>2. /\ Without(x, bs[k]) \in Seq(Blocks) /\ IsInjective(Without(x, bs[k]))
        /\ ToSet(Without(x, bs[k])) = ToSet(x) \ {bs[k]}
    BY <2>1, WithoutIs
  <2>3. {w.bs[i] : i \in 1 .. k} = {w.bs[i] : i \in 1 .. k - 1} \cup {bs[k]}
    <3>1. \A i \in 1 .. k : i \in 1 .. k - 1 \/ i = k BY <1>1
    <3>2. k \in 1 .. k /\ \A i \in 1 .. k - 1 : i \in 1 .. k BY <1>1
    <3> QED BY <1>1, <3>1, <3>2
  <2>4. ToSet(Without(x, bs[k])) = ToSet(w.free) \ {w.bs[i] : i \in 1 .. k}
    BY <2>1, <2>2, <2>3
  <2> QED BY <2>2, <2>4 DEF ClaimKept
<1>4. ClaimKept(0, w, n, Claim!Folded(0, free, bs))
  BY <1>1, <1>2, <1>3, Claim!Loop
<1>5. Claim!Folded(0, free, bs) = FoldLeft(Without, free, bs)
  BY DEF Claim!Folded, ClaimOp, FoldLeft, MapThenFoldSet,
         Claim!FoldLeft, Claim!MapThenFoldSet, Claim!Max, Max
<1>6. {bs[i] : i \in 1 .. n} = ToSet(bs) BY <1>1 DEF ToSet
<1> QED BY <1>1, <1>4, <1>5, <1>6 DEF ClaimKept

(* Blocks that are cached go to r. *)
LEMMA CommitKeeps ==
  ASSUME NEW kd, NEW c, CacheOk(kd, c), NEW r \in Requests, NEW bs \in Seq(Blocks)
  PROVE  LET u == CommitCachedBlocks(c, r, bs)
         IN  /\ CacheOk(kd, u) /\ OwnedBut(c, u, r) /\ SameStore(c, u)
             /\ u.owned[r] = c.owned[r] \o bs
             /\ u.free \in Seq(Blocks) /\ IsInjective(u.free)
             /\ ToSet(u.free) = ToSet(c.free) \ ToSet(bs)
<1> DEFINE u == CommitCachedBlocks(c, r, bs)
           F == FoldLeft(Without, c.free, bs)
<1>1. /\ CacheShape(c) /\ c.free \in Seq(Blocks) /\ IsInjective(c.free)
      /\ c.hash \in [Blocks -> Keys] /\ c.owned \in [Requests -> Seq(Blocks)]
      /\ ToSet(c.free) = Blocks \ Used(c.owned)
      /\ GpuOk(c.free, c.hash, c.index, c.owned)
  BY DEF CacheOk, GpuOk
<1>2. F \in Seq(Blocks) /\ IsInjective(F) /\ ToSet(F) = ToSet(c.free) \ ToSet(bs)
  BY <1>1, ClaimAll
<1>3. u = [c EXCEPT !.free = F, !.owned[r] = @ \o bs] BY DEF CommitCachedBlocks
<1> HIDE DEF F, u
<1>4. /\ CacheShape(u) /\ u.free = F /\ u.hash = c.hash /\ u.index = c.index
      /\ u.owned = [c.owned EXCEPT ![r] = c.owned[r] \o bs]
      /\ SameStore(c, u)
  BY <1>1, <1>3 DEF CacheShape, SameStore
<1>5. /\ c.owned[r] \o bs \in Seq(Blocks)
      /\ ToSet(c.owned[r] \o bs) = ToSet(c.owned[r]) \cup ToSet(bs)
  BY <1>1, ConcatIs
<1>6. /\ u.owned \in [Requests -> Seq(Blocks)] /\ u.owned[r] = c.owned[r] \o bs
      /\ \A q \in Requests \ {r} : u.owned[q] = c.owned[q]
  BY <1>1, <1>4, <1>5
<1>7. OwnedBut(c, u, r) BY <1>6 DEF OwnedBut
<1>8. Used(u.owned) = Used(c.owned) \cup ToSet(bs)
  <2> DEFINE B == ToSet(bs)
  <2>1. ToSet(u.owned[r]) = ToSet(c.owned[r]) \cup B BY <1>5, <1>6
  <2> HIDE DEF B
  <2>2. Used(u.owned) = Used(c.owned) \cup B BY <1>7, <2>1, UsedGrows
  <2> QED BY <2>2 DEF B
<1>9. ToSet(u.free) = Blocks \ Used(u.owned) BY <1>1, <1>2, <1>4, <1>8
<1>10. GpuOk(u.free, u.hash, u.index, u.owned)
  BY <1>1, <1>2, <1>4, <1>6, <1>9 DEF GpuOk
<1>11. CacheOk(kd, u) BY <1>4, <1>10, GpuOnly
<1> QED BY <1>2, <1>4, <1>6, <1>7, <1>11 DEF u

(* The last block of r is given up, and is free if nobody else has it. *)
LEMMA ReleaseLastKeeps ==
  ASSUME NEW kd, NEW c, CacheOk(kd, c), NEW r \in Requests, c.owned[r] # <<>>
  PROVE  LET u == ReleaseLast(c, r)
         IN  /\ CacheOk(kd, u) /\ OwnedBut(c, u, r) /\ SameStore(c, u)
             /\ Len(u.owned[r]) = Len(c.owned[r]) - 1
<1> DEFINE b    == LastOf(c.owned[r])
           left == [c EXCEPT !.owned[r] = Front(@)]
           u    == ReleaseLast(c, r)
<1>1. /\ CacheShape(c) /\ c.free \in Seq(Blocks) /\ IsInjective(c.free)
      /\ c.hash \in [Blocks -> Keys] /\ c.owned \in [Requests -> Seq(Blocks)]
      /\ ToSet(c.free) = Blocks \ Used(c.owned)
      /\ GpuOk(c.free, c.hash, c.index, c.owned)
      /\ c.owned[r] \in Seq(Blocks)
  BY DEF CacheOk, GpuOk
<1>2. /\ Front(c.owned[r]) \in Seq(Blocks) /\ Len(Front(c.owned[r])) = Len(c.owned[r]) - 1
      /\ b \in Blocks /\ ToSet(c.owned[r]) = ToSet(Front(c.owned[r])) \cup {b}
  BY <1>1, FrontIs
<1>3. u = IF \E q \in Requests : b \in ToSet(left.owned[q]) THEN left
          ELSE [left EXCEPT !.free = Append(@, b)]
  BY DEF ReleaseLast
<1> HIDE DEF b, u
<1>4. /\ CacheShape(left) /\ left.free = c.free /\ left.hash = c.hash /\ left.index = c.index
      /\ left.owned = [c.owned EXCEPT ![r] = Front(c.owned[r])]
      /\ SameStore(c, left)
  BY <1>1 DEF CacheShape, SameStore
<1> HIDE DEF left
<1>5. /\ left.owned \in [Requests -> Seq(Blocks)] /\ left.owned[r] = Front(c.owned[r])
      /\ \A q \in Requests \ {r} : left.owned[q] = c.owned[q]
  BY <1>1, <1>2, <1>4
<1>6. OwnedBut(c, left, r) /\ OwnedBut(left, c, r) BY <1>5 DEF OwnedBut
<1>7. Used(c.owned) = Used(left.owned) \cup {b}
  <2> DEFINE B == {b}
  <2>1. ToSet(c.owned[r]) = ToSet(left.owned[r]) \cup B BY <1>2, <1>5
  <2>2. OwnedBut(left, c, r) BY <1>6
  <2> HIDE DEF B
  <2>3. Used(c.owned) = Used(left.owned) \cup B BY <2>1, <2>2, UsedGrows
  <2> QED BY <2>3 DEF B
<1>8. (\E q \in Requests : b \in ToSet(left.owned[q])) <=> b \in Used(left.owned)
  BY DEF Used
<1>9. CASE b \in Used(left.owned)
  <2>1. u = left BY <1>3, <1>8, <1>9
  <2>2. ToSet(left.free) = Blocks \ Used(left.owned) BY <1>1, <1>4, <1>7, <1>9
  <2>3. GpuOk(left.free, left.hash, left.index, left.owned)
    BY <1>1, <1>4, <1>5, <2>2 DEF GpuOk
  <2>4. CacheOk(kd, left) BY <1>4, <2>3, GpuOnly
  <2> QED BY <1>2, <1>4, <1>5, <1>6, <2>1, <2>4 DEF u
<1>10. CASE b \notin Used(left.owned)
  <2>1. u = [left EXCEPT !.free = Append(@, b)] BY <1>3, <1>8, <1>10
  <2>2. /\ CacheShape(u) /\ u.free = Append(c.free, b) /\ u.hash = c.hash /\ u.index = c.index
        /\ u.owned = left.owned /\ SameStore(c, u)
    BY <1>4, <2>1 DEF CacheShape, SameStore
  <2>3. /\ Append(c.free, b) \in Seq(Blocks) /\ IsInjective(Append(c.free, b))
        /\ ToSet(Append(c.free, b)) = ToSet(c.free) \cup {b}
    <3>1. b \notin ToSet(c.free) BY <1>1, <1>7
    <3> QED BY <1>1, <1>2, <3>1, AppendIs
  <2>4. ToSet(u.free) = Blocks \ Used(u.owned)
    BY <1>1, <1>2, <1>7, <1>10, <2>2, <2>3
  <2>5. GpuOk(u.free, u.hash, u.index, u.owned)
    BY <1>1, <1>5, <2>2, <2>3, <2>4 DEF GpuOk
  <2>6. CacheOk(kd, u) BY <2>2, <2>5, GpuOnly
  <2>7. OwnedBut(c, u, r) BY <1>6, <2>2 DEF OwnedBut
  <2> QED BY <1>2, <1>5, <2>2, <2>6, <2>7 DEF u
<1> QED BY <1>9, <1>10

(* ReleaseKVBlocks goes over the blocks of r. *)
ReleaseOp(r, x, b) == ReleaseLast(x, r)
ReleaseKept(r, w, k, x) ==
  /\ CacheOk(w.kd, x) /\ OwnedBut(w.c, x, r) /\ SameStore(w.c, x)
  /\ Len(x.owned[r]) = Len(w.c.owned[r]) - k
Releasing == INSTANCE Folding WITH Op <- ReleaseOp, P <- ReleaseKept

(* ReleaseKVBlocks: r has no block left. *)
LEMMA ReleaseKeeps ==
  ASSUME NEW kd, NEW c, CacheOk(kd, c), NEW r \in Requests
  PROVE  LET u == ReleaseKVBlocks(c, r)
         IN  /\ CacheOk(kd, u) /\ OwnedBut(c, u, r) /\ SameStore(c, u)
             /\ u.owned[r] = <<>>
<1> DEFINE s == c.owned[r]
           n == Len(s)
           w == [kd |-> kd, c |-> c]
<1>1. s \in Seq(Blocks) /\ n \in Nat /\ DOMAIN s = 1 .. n
  <2>1. s \in Seq(Blocks) BY DEF CacheOk, GpuOk
  <2> HIDE DEF s
  <2> QED BY <2>1
<1>2. w.kd = kd /\ w.c = c OBVIOUS
<1> HIDE DEF w
<1>3. ReleaseKept(r, w, 0, c)
  BY <1>1, <1>2 DEF ReleaseKept, OwnedBut, SameStore
<1>4. \A k \in 1 .. n : \A x : ReleaseKept(r, w, k - 1, x)
                                 => ReleaseKept(r, w, k, ReleaseOp(r, x, s[k]))
  <2> SUFFICES ASSUME NEW k \in 1 .. n, NEW x, ReleaseKept(r, w, k - 1, x)
               PROVE  ReleaseKept(r, w, k, ReleaseLast(x, r))
    BY DEF ReleaseOp
  <2>1. /\ CacheOk(kd, x) /\ OwnedBut(c, x, r) /\ SameStore(c, x)
        /\ Len(x.owned[r]) = n - (k - 1)
    BY <1>2 DEF ReleaseKept
  <2>2. x.owned[r] # <<>>
    <3>1. n - (k - 1) # 0 BY <1>1
    <3>2. Len(<<>>) = 0 OBVIOUS
    <3> QED BY <2>1, <3>1, <3>2
  <2> DEFINE u == ReleaseLast(x, r)
  <2>3. /\ CacheOk(kd, u) /\ OwnedBut(x, u, r) /\ SameStore(x, u)
        /\ Len(u.owned[r]) = Len(x.owned[r]) - 1
    BY <2>1, <2>2, ReleaseLastKeeps
  <2> HIDE DEF u
  <2>4. OwnedBut(c, u, r) BY <2>1, <2>3 DEF OwnedBut
  <2>5. SameStore(c, u) BY <2>1, <2>3 DEF SameStore
  <2>6. Len(u.owned[r]) = n - k
    <3>1. Len(u.owned[r]) = (n - (k - 1)) - 1 BY <2>1, <2>3
    <3> HIDE DEF n
    <3> QED BY <1>1, <3>1
  <2> QED BY <1>2, <2>3, <2>4, <2>5, <2>6 DEF ReleaseKept, u
<1>5. ReleaseKept(r, w, n, Releasing!Folded(r, c, s))
  <2> HIDE DEF s, n
  <2> QED BY <1>1, <1>3, <1>4, Releasing!Loop
<1>6. Releasing!Folded(r, c, s) = ReleaseKVBlocks(c, r)
  BY DEF Releasing!Folded, ReleaseOp, ReleaseKVBlocks, FoldLeft, MapThenFoldSet,
         Releasing!FoldLeft, Releasing!MapThenFoldSet, Releasing!Max, Max
<1> DEFINE u == ReleaseKVBlocks(c, r)
<1> HIDE DEF u
<1>7. /\ CacheOk(kd, u) /\ OwnedBut(c, u, r) /\ SameStore(c, u)
      /\ Len(u.owned[r]) = n - n
  BY <1>2, <1>5, <1>6 DEF ReleaseKept, u
<1>8. u.owned[r] = <<>>
  <2>1. Len(u.owned[r]) = 0
    <3> HIDE DEF n
    <3> QED BY <1>1, <1>7
  <2>2. u.owned[r] \in Seq(Blocks) BY <1>7 DEF CacheOk, GpuOk
  <2> QED BY <2>1, <2>2
<1> QED BY <1>7, <1>8 DEF u

(* A prompt is a key of its own, and it is not empty. *)
LEMMA PromptIs ==
  ASSUME NEW r \in Requests
  PROVE  /\ Prompt[r] \in Seq(Tokens) /\ Prompt[r] \in Keys
         /\ PromptLen(r) \in Nat \ {0} /\ PromptLen(r) = Len(Prompt[r])
<1>1. Prompt[r] \in Seq(ToSet(Prompt[r])) /\ Prompt[r] # <<>>
  BY OffloadAssumption
<1>2. ToSet(Prompt[r]) \subseteq Tokens BY DEF Tokens
<1>3. Prompt[r] \in Seq(Tokens) BY <1>1, <1>2
<1>4. Len(Prompt[r]) \in Nat \ {0} BY <1>1
<1> QED BY <1>3, <1>4 DEF Keys, PromptLen

\* The positions of the blocks of bs that are free.
FreeOf(free, bs) == {i \in DOMAIN bs : bs[i] \in ToSet(free)}

(* A commit takes no more free blocks than the check has counted. *)
LEMMA ClaimCount ==
  ASSUME NEW free \in Seq(Blocks), IsInjective(free), NEW bs \in Seq(Blocks),
         NEW u \in Seq(Blocks), IsInjective(u), ToSet(u) = ToSet(free) \ ToSet(bs)
  PROVE  /\ Cardinality(FreeOf(free, bs)) \in Nat
         /\ Len(u) + Cardinality(FreeOf(free, bs)) >= Len(free)
<1> DEFINE D == {i \in DOMAIN bs : bs[i] \in ToSet(free)}
           F == ToSet(free)
           I == F \cap ToSet(bs)
           f == [i \in D |-> bs[i]]
<1>1. IsFiniteSet(D) /\ Cardinality(D) \in Nat
  <2>1. IsFiniteSet(1 .. Len(bs))
    <3>1. 1 \in Int /\ Len(bs) \in Int OBVIOUS
    <3> QED BY <3>1, FS_Interval
  <2>2. D \subseteq 1 .. Len(bs) OBVIOUS
  <2> HIDE DEF D
  <2> QED BY <2>1, <2>2, FS_Subset, FS_CardinalityType
<1>2. IsFiniteSet(F) /\ Cardinality(F) = Len(free) BY CardToSet
<1>3. IsFiniteSet(F \ ToSet(bs)) /\ Cardinality(F \ ToSet(bs)) = Len(u)
  BY CardToSet
<1>4. f \in Surjection(D, I)
  <2>1. f \in [D -> I] BY DEF ToSet
  <2>2. \A x \in I : \E i \in D : f[i] = x BY DEF ToSet
  <2> QED BY <2>1, <2>2 DEF Surjection
<1> HIDE DEF D, f
<1>5. Cardinality(I) <= Cardinality(D) /\ IsFiniteSet(I)
  <2> HIDE DEF I
  <2> QED BY <1>1, <1>4, FS_Surjection
<1> HIDE DEF F
<1>6. Cardinality(F \ ToSet(bs)) = Cardinality(F) - Cardinality(I)
  BY <1>2, FS_Difference
<1>7. Cardinality(I) \in Nat BY <1>5, FS_CardinalityType
<1>8. Len(u) \in Nat /\ Len(free) \in Nat OBVIOUS
<1> HIDE DEF I
<1>9. Len(u) + Cardinality(D) >= Len(free)
  BY <1>1, <1>2, <1>3, <1>5, <1>6, <1>7, <1>8
<1>10. FreeOf(free, bs) = D BY DEF FreeOf, D
<1> QED BY <1>1, <1>9, <1>10

(* AllocateKVBlocks of the GPU tier pops a block for each token. *)
PopOp(r, x, token) == PopBlock(x, r, TRUE, token)
PopKept(r, w, k, x) ==
  /\ CacheOk(w.kd, x) /\ OwnedBut(w.c, x, r) /\ SameStore(w.c, x)
  /\ Len(x.free) >= w.n - k
Popping == INSTANCE Folding WITH Op <- PopOp, P <- PopKept

(* Popping no more blocks than are free. *)
LEMMA PopAll ==
  ASSUME NEW kd, NEW c, CacheOk(kd, c), NEW r \in Requests, NEW s \in Seq(Tokens),
         Len(s) <= Len(c.free)
  PROVE  LET u == FoldLeft(LAMBDA x, token : PopBlock(x, r, TRUE, token), c, s)
         IN  CacheOk(kd, u) /\ OwnedBut(c, u, r) /\ SameStore(c, u)
<1> DEFINE n == Len(s)
           w == [kd |-> kd, c |-> c, n |-> n]
<1>1. n \in Nat /\ DOMAIN s = 1 .. n /\ \A k \in 1 .. n : s[k] \in Tokens
  OBVIOUS
<1>2. w.kd = kd /\ w.c = c /\ w.n = n OBVIOUS
<1> HIDE DEF w
<1>3. PopKept(r, w, 0, c)
  <2>1. Len(c.free) \in Nat BY DEF CacheOk, GpuOk
  <2>2. Len(c.free) >= n - 0 BY <1>1, <2>1
  <2> QED BY <1>2, <2>2 DEF PopKept, OwnedBut, SameStore
<1>4. \A k \in 1 .. n : \A x : PopKept(r, w, k - 1, x) => PopKept(r, w, k, PopOp(r, x, s[k]))
  <2> SUFFICES ASSUME NEW k \in 1 .. n, NEW x, PopKept(r, w, k - 1, x)
               PROVE  PopKept(r, w, k, PopBlock(x, r, TRUE, s[k]))
    BY DEF PopOp
  <2>1. /\ CacheOk(kd, x) /\ OwnedBut(c, x, r) /\ SameStore(c, x)
        /\ Len(x.free) >= n - (k - 1)
    BY <1>2 DEF PopKept
  <2>2. x.free \in Seq(Blocks) BY <2>1 DEF CacheOk, GpuOk
  <2>3. x.free # <<>> /\ Len(x.free) \in Nat
    <3>1. Len(x.free) # 0 /\ Len(x.free) \in Nat
      <4> HIDE DEF n
      <4>1. Len(x.free) \in Nat BY <2>2
      <4>2. n - (k - 1) >= 1 BY <1>1
      <4> QED BY <1>1, <2>1, <4>1, <4>2
    <3>2. Len(<<>>) = 0 OBVIOUS
    <3> QED BY <3>1, <3>2
  <2> DEFINE u == PopBlock(x, r, TRUE, s[k])
  <2>4. /\ CacheOk(kd, u) /\ OwnedBut(x, u, r) /\ SameStore(x, u)
        /\ Len(u.free) = Len(x.free) - 1
    <3>1. s[k] \in Tokens /\ TRUE \in BOOLEAN BY <1>1
    <3> QED BY ZenonT(60), <2>1, <2>3, <3>1, PopKeeps
  <2> HIDE DEF u, n
  <2>5. OwnedBut(c, u, r) BY <2>1, <2>4 DEF OwnedBut
  <2>6. SameStore(c, u) BY <2>1, <2>4 DEF SameStore
  <2>7. Len(u.free) >= n - k BY <1>1, <2>1, <2>3, <2>4
  <2> QED BY <1>2, <2>4, <2>5, <2>6, <2>7 DEF PopKept, u
<1>5. PopKept(r, w, n, Popping!Folded(r, c, s))
  <2> HIDE DEF n
  <2> QED BY <1>1, <1>3, <1>4, Popping!Loop
<1>6. Popping!Folded(r, c, s) = FoldLeft(LAMBDA x, token : PopBlock(x, r, TRUE, token), c, s)
  BY DEF Popping!Folded, PopOp, FoldLeft, MapThenFoldSet,
         Popping!FoldLeft, Popping!MapThenFoldSet, Popping!Max, Max
<1> QED BY <1>2, <1>5, <1>6 DEF PopKept

\* What AllocateKVBlocks is called with.
ArgsOk(r, prefill, start, end, cached) ==
  /\ r \in Requests /\ prefill \in BOOLEAN /\ start \in Nat /\ end \in Nat
  /\ cached \in Seq(Blocks) /\ Len(cached) <= PromptLen(r)
  /\ prefill => end <= PromptLen(r)
  /\ ~prefill => cached = <<>> /\ start >= PromptLen(r)

(* The GPU tier has the blocks its check has counted. *)
LEMMA GrowKeeps ==
  ASSUME NEW kd, NEW c, CacheOk(kd, c), NEW r, NEW prefill, NEW start, NEW end, NEW cached,
         ArgsOk(r, prefill, start, end, cached)
  PROVE  LET g == Grow(c, r, prefill, start, end, cached)
         IN  /\ g = [ok |-> g.ok, c |-> g.c]
             /\ CacheOk(kd, g.c) /\ OwnedBut(c, g.c, r) /\ SameStore(c, g.c)
<1> DEFINE first == IF c.owned[r] = <<>> /\ start < end
                    THEN CommitCachedBlocks(c, r, cached) ELSE c
           s == SubSeq(Prompt[r], start + 1, end)
           u == GPUAllocate(c, r, prefill, start, end, cached)
           D == FreeOf(c.free, cached)
<1>1. /\ r \in Requests /\ prefill \in BOOLEAN /\ start \in Nat /\ end \in Nat
      /\ cached \in Seq(Blocks) /\ (prefill => end <= PromptLen(r))
  BY DEF ArgsOk
<1>2. c.free \in Seq(Blocks) /\ IsInjective(c.free) /\ Len(c.free) \in Nat
  BY DEF CacheOk, GpuOk
<1>3. CASE ~GPUFits(c, r, prefill, start, end, cached)
  BY <1>3 DEF Grow, OwnedBut, SameStore
<1>4. CASE GPUFits(c, r, prefill, start, end, cached)
  <2>1. /\ CacheOk(kd, first) /\ OwnedBut(c, first, r) /\ SameStore(c, first)
        /\ Cardinality(D) \in Nat /\ Len(first.free) + Cardinality(D) >= Len(c.free)
        /\ first.free \in Seq(Blocks) /\ Len(first.free) \in Nat
        /\ ToSet(first.free) = ToSet(c.free) \/ ToSet(first.free) = ToSet(c.free) \ ToSet(cached)
    <3> DEFINE h == CommitCachedBlocks(c, r, cached)
    <3>1. /\ CacheOk(kd, h) /\ OwnedBut(c, h, r) /\ SameStore(c, h)
          /\ h.free \in Seq(Blocks) /\ IsInjective(h.free)
          /\ ToSet(h.free) = ToSet(c.free) \ ToSet(cached)
      <4>1. r \in Requests /\ cached \in Seq(Blocks) BY <1>1
      <4> QED BY <4>1, CommitKeeps
    <3> HIDE DEF h
    <3>2. Cardinality(D) \in Nat /\ Len(h.free) + Cardinality(D) >= Len(c.free)
      <4> DEFINE f == c.free
                 v == h.free
      <4>1. /\ f \in Seq(Blocks) /\ IsInjective(f) /\ cached \in Seq(Blocks)
            /\ v \in Seq(Blocks) /\ IsInjective(v) /\ ToSet(v) = ToSet(f) \ ToSet(cached)
        BY <1>1, <1>2, <3>1
      <4> HIDE DEF f, v
      <4>2. /\ Cardinality(FreeOf(f, cached)) \in Nat
            /\ Len(v) + Cardinality(FreeOf(f, cached)) >= Len(f)
        BY <4>1, ClaimCount
      <4> QED BY <4>2 DEF f, v
    <3> HIDE DEF D
    <3>3. CASE c.owned[r] = <<>> /\ start < end
      <4>1. first = h BY <3>3 DEF h
      <4> HIDE DEF first
      <4> QED BY <3>1, <3>2, <4>1
    <3>4. CASE ~(c.owned[r] = <<>> /\ start < end)
      <4>1. first = c BY <3>4
      <4>2. OwnedBut(c, c, r) /\ SameStore(c, c) BY DEF OwnedBut, SameStore
      <4>3. Len(c.free) + Cardinality(D) >= Len(c.free) BY <1>2, <3>2
      <4> HIDE DEF first
      <4> QED BY <1>2, <3>2, <4>1, <4>2, <4>3
    <3> QED BY <3>3, <3>4
  <2>2. Grow(c, r, prefill, start, end, cached) = [ok |-> TRUE, c |-> u]
    BY <1>4 DEF Grow
  <2>3. u = IF prefill
            THEN FoldLeft(LAMBDA x, token : PopBlock(x, r, TRUE, token), first, s)
            ELSE PopBlock(first, r, FALSE, 0)
    BY DEF GPUAllocate
  <2> HIDE DEF first, u
  <2>4. CacheOk(kd, u) /\ OwnedBut(first, u, r) /\ SameStore(first, u)
    <3>1. CASE prefill
      <4>1. (end - start) + Cardinality(D) <= Len(c.free)
        BY <1>4, <3>1 DEF GPUFits, FreeOf
      <4>2. Prompt[r] \in Seq(Tokens) /\ end <= Len(Prompt[r]) /\ Len(Prompt[r]) \in Nat
        BY <1>1, <3>1, PromptIs
      <4>3. s \in Seq(Tokens) /\ Len(s) = IF start + 1 <= end THEN end - (start + 1) + 1 ELSE 0
        <5>1. start + 1 \in Nat \ {0} BY <1>1
        <5> QED BY <1>1, <4>2, <5>1, SubSeqIs
      <4> HIDE DEF s, D
      <4>4. Len(s) <= Len(first.free)
        <5>1. CASE start + 1 <= end
          <6>1. Len(s) = end - start BY <1>1, <4>3, <5>1
          <6> QED BY SMTT(60), <1>1, <1>2, <2>1, <4>1, <6>1
        <5>2. CASE ~(start + 1 <= end) BY <2>1, <4>3, <5>2
        <5> QED BY <5>1, <5>2
      <4> DEFINE v == FoldLeft(LAMBDA x, token : PopBlock(x, r, TRUE, token), first, s)
      <4>5. CacheOk(kd, v) /\ OwnedBut(first, v, r) /\ SameStore(first, v)
        BY <1>1, <2>1, <4>3, <4>4, PopAll
      <4>6. u = v BY <2>3, <3>1
      <4> HIDE DEF v
      <4> QED BY <4>5, <4>6
    <3>2. CASE ~prefill
      <4>1. c.free # <<>> /\ cached = <<>> BY <1>4, <3>2 DEF GPUFits, ArgsOk
      <4>2. ToSet(first.free) = ToSet(c.free)
        <5>1. ToSet(cached) = {} BY <4>1 DEF ToSet
        <5> QED BY <2>1, <5>1
      <4>3. first.free # <<>>
        <5>1. Head(c.free) \in ToSet(c.free) BY <1>2, <4>1, HeadIs
        <5>2. ToSet(<<>>) = {} BY DEF ToSet
        <5> QED BY <4>2, <5>1, <5>2
      <4> DEFINE v == PopBlock(first, r, FALSE, 0)
      <4>4. CacheOk(kd, v) /\ OwnedBut(first, v, r) /\ SameStore(first, v)
        <5>1. FALSE \in BOOLEAN /\ (FALSE => 0 \in Tokens) OBVIOUS
        <5> QED BY <1>1, <2>1, <4>3, <5>1, PopKeeps
      <4>5. u = v BY <2>3, <3>2
      <4> HIDE DEF v
      <4> QED BY <4>4, <4>5
    <3> QED BY <1>1, <3>1, <3>2
  <2>5. OwnedBut(c, u, r) BY <2>1, <2>4 DEF OwnedBut
  <2>6. SameStore(c, u) BY <2>1, <2>4 DEF SameStore
  <2> QED BY <2>2, <2>4, <2>5, <2>6
<1> QED BY <1>3, <1>4

(* The cached prefix of a prompt: a block of the index for each token. *)
LEMMA CachedIs ==
  ASSUME NEW kd, NEW c, CacheOk(kd, c), NEW p \in Seq(Tokens)
  PROVE  GetCachedBlocks(c, p) \in Seq(Blocks) /\ Len(GetCachedBlocks(c, p)) <= Len(p)
<1> DEFINE M == {m \in 0 .. Len(p) : \A i \in 1 .. m : SubSeq(p, 1, i) \in DOMAIN c.index}
           n == Max(M)
           f == [i \in 1 .. n |-> c.index[SubSeq(p, 1, i)]]
<1>1. Len(p) \in Nat OBVIOUS
<1>2. 0 \in M BY <1>1
<1>3. n \in M
  <2>1. M \subseteq 0 .. Len(p) /\ M # {} BY <1>2
  <2> HIDE DEF M
  <2> QED BY <1>1, <2>1, MaxIn
<1>4. n \in Nat /\ n <= Len(p) /\ \A i \in 1 .. n : SubSeq(p, 1, i) \in DOMAIN c.index
  BY <1>1, <1>3
<1> HIDE DEF n
<1>5. \A i \in 1 .. n : c.index[SubSeq(p, 1, i)] \in Blocks
  BY <1>4 DEF CacheOk, GpuOk, IsMap
<1>6. f \in [1 .. n -> Blocks] BY <1>5
<1>7. GetCachedBlocks(c, p) = f BY DEF GetCachedBlocks, n
<1> HIDE DEF f
<1>8. f \in Seq(Blocks) /\ Len(f) = n BY <1>4, <1>6
<1> QED BY <1>4, <1>7, <1>8

------------------------------
(* Keys, secondary tiers and reloads. *)

(* DeriveChunkKeys chains one key for each block, all of them different. *)
LEMMA ChunksAre ==
  ASSUME NEW prev \in Keys, NEW p \in Seq(Tokens), NEW n \in Nat, n <= Len(p)
  PROVE  /\ DeriveChunkKeys(prev, p, n) \in Seq(Keys)
         /\ IsInjective(DeriveChunkKeys(prev, p, n))
         /\ Len(DeriveChunkKeys(prev, p, n)) = Len(p) - n
<1> DEFINE m == Len(p) - n
           u == DeriveChunkKeys(prev, p, n)
           cut(i) == SubSeq(p, n + 1, n + i)
<1>1. Len(p) \in Nat /\ m \in Nat OBVIOUS
<1>2. \A i \in 1 .. m : cut(i) \in Seq(Tokens) /\ Len(cut(i)) = i
  <2> TAKE i \in 1 .. m
  <2>1. n + 1 \in Nat \ {0} /\ n + i \in Nat /\ n + i <= Len(p) BY <1>1
  <2>2. /\ cut(i) \in Seq(Tokens)
        /\ Len(cut(i)) = IF n + 1 <= n + i THEN (n + i) - (n + 1) + 1 ELSE 0
    BY <2>1, SubSeqIs
  <2> HIDE DEF cut
  <2>3. n + 1 <= n + i /\ (n + i) - (n + 1) + 1 = i BY <1>1
  <2> QED BY <2>2, <2>3
<1>3. u = [i \in 1 .. m |-> prev \o cut(i)] BY DEF DeriveChunkKeys
<1> HIDE DEF u, cut
<1>4. prev \in Seq(Tokens) /\ Len(prev) \in Nat BY DEF Keys
<1>5. \A i \in 1 .. m : u[i] \in Keys /\ Len(u[i]) = Len(prev) + i
  <2> TAKE i \in 1 .. m
  <2>1. cut(i) \in Seq(Tokens) /\ Len(cut(i)) = i BY <1>2
  <2>2. prev \o cut(i) \in Seq(Tokens) /\ Len(prev \o cut(i)) = Len(prev) + Len(cut(i))
    BY <1>4, <2>1, ConcatIs
  <2> QED BY <1>3, <2>1, <2>2 DEF Keys
<1> HIDE DEF m
<1>6. u \in [1 .. m -> Keys] /\ DOMAIN u = 1 .. m BY <1>3, <1>5
<1>7. u \in Seq(Keys) /\ Len(u) = m BY <1>1, <1>6
<1>8. IsInjective(u)
  <2> SUFFICES ASSUME NEW i \in 1 .. m, NEW j \in 1 .. m, u[i] = u[j] PROVE i = j
    BY <1>6 DEF IsInjective
  <2>1. Len(prev) + i = Len(prev) + j BY <1>5
  <2> QED BY <1>4, <2>1
<1> QED BY <1>7, <1>8 DEF u, m

(* LookupSecondary names a tier that holds the key. *)
LEMMA LookupIs ==
  ASSUME NEW c, NEW k, LookupSecondary(c, k) # 0
  PROVE  /\ Station(kind) /\ LookupSecondary(c, k) \in Tiers
         /\ k \in c.secondary[LookupSecondary(c, k)]
<1> DEFINE H == {t \in Tiers : k \in c.secondary[t]}
<1>1. HasStation /\ H # {} /\ LookupSecondary(c, k) = Min(H)
  BY DEF LookupSecondary
<1>2. H \subseteq Nat BY DEF Tiers
<1>3. Min(H) \in H
  <2> HIDE DEF H
  <2> QED BY <1>1, <1>2, MinIn
<1> QED BY <1>1, <1>3 DEF HasStation, Station

\* A run of keys one tier holds, which a walk may promote; tier 0 is none.
RunOk(c, tier, run) ==
  /\ run \in Seq(Keys) /\ IsInjective(run)
  /\ tier # 0 => Station(kind) /\ tier \in Tiers /\ ToSet(run) \subseteq c.secondary[tier]

(* gatherSecondaryRun gathers keys of the tier it found the first one in. *)
LEMMA GatherIs ==
  ASSUME NEW c, NEW keys \in Seq(Keys), IsInjective(keys), NEW i \in 1 .. Len(keys)
  PROVE  RunOk(c, GatherSecondaryRun(c, keys, i).tier, GatherSecondaryRun(c, keys, i).run)
<1> DEFINE tier == LookupSecondary(c, keys[i])
           Fits(j) == /\ keys[j] \notin DOMAIN c.index
                      /\ Lookup(c.cpu, keys[j]) = "miss"
                      /\ LookupSecondary(c, keys[j]) = tier
           M == {m \in i .. Len(keys) : \A j \in i + 1 .. m : Fits(j)}
           last == Max(M)
           run == SubSeq(keys, i, last)
<1>1. GatherSecondaryRun(c, keys, i) = [tier |-> tier, run |-> run]
  BY DEF GatherSecondaryRun
<1>2. Len(keys) \in Nat /\ i \in Nat /\ i # 0 OBVIOUS
<1>3. i \in M
  <2>1. i + 1 .. i = {} BY <1>2
  <2>2. i \in i .. Len(keys) BY <1>2
  <2> HIDE DEF Fits
  <2> QED BY <2>1, <2>2
<1>4. last \in M
  <2>1. M \subseteq 0 .. Len(keys) /\ M # {} BY <1>2, <1>3
  <2> HIDE DEF M
  <2> QED BY <1>2, <2>1, MaxIn
<1> HIDE DEF last
<1>5. last \in Nat /\ last <= Len(keys) /\ i <= last /\ \A j \in i + 1 .. last : Fits(j)
  <2> HIDE DEF Fits
  <2> QED BY <1>2, <1>4
<1>6. /\ run \in Seq(Keys) /\ IsInjective(run)
      /\ ToSet(run) = {keys[j] : j \in i .. last}
  BY <1>2, <1>5, SubSeqIs
<1>7. \A j \in i .. last : LookupSecondary(c, keys[j]) = tier
  <2> TAKE j \in i .. last
  <2>1. j = i \/ j \in i + 1 .. last BY <1>2, <1>5
  <2> QED BY <1>5, <2>1
<1> HIDE DEF tier, run
<1>8. ASSUME tier # 0
      PROVE  Station(kind) /\ tier \in Tiers /\ ToSet(run) \subseteq c.secondary[tier]
  <2>1. LookupSecondary(c, keys[i]) # 0 BY <1>8 DEF tier
  <2>2. Station(kind) /\ tier \in Tiers BY <2>1, LookupIs DEF tier
  <2>3. \A j \in i .. last : keys[j] \in c.secondary[tier]
    <3> TAKE j \in i .. last
    <3>1. LookupSecondary(c, keys[j]) = tier BY <1>7
    <3> QED BY <1>8, <3>1, LookupIs
  <2> QED BY <1>6, <2>2, <2>3
<1> QED BY <1>1, <1>6, <1>8 DEF RunOk

SameGpu(c, u) ==
  u.free = c.free /\ u.hash = c.hash /\ u.index = c.index /\ u.owned = c.owned

(* firePromotionRun leaves the GPU tier and the deferrals alone. *)
LEMMA FireKeeps ==
  ASSUME NEW c, CacheOk(kind, c), NEW run, NEW n, n # 0, RunOk(c, n, run), Gate(c.cpu, run)
  PROVE  LET u == FirePromotionRun(c, run, n)
         IN  /\ CacheOk(kind, u) /\ SameGpu(c, u)
             /\ u.deferred = c.deferred /\ u.secondary = c.secondary /\ u.known = c.known
<1> DEFINE u == FirePromotionRun(c, run, n)
           p == PrepareStore(c.cpu, run)
           v == [c.station EXCEPT ![n] = Submit(@, Job("read", run))]
<1>1. CacheShape(c) BY DEF CacheOk
<1>2. /\ CacheShape(u) /\ SameGpu(c, u)
      /\ u.deferred = c.deferred /\ u.secondary = c.secondary /\ u.known = c.known
      /\ u.cpu = p /\ u.station = v
  BY <1>1 DEF FirePromotionRun, CacheShape, SameGpu
<1>3. TransferOk(kind, p, c.secondary, v)
  <2>1. TransferOk(kind, c.cpu, c.secondary, c.station) BY DEF CacheOk
  <2>2. /\ Station(kind) /\ run \in Seq(Keys) /\ IsInjective(run)
        /\ n \in Tiers /\ ToSet(run) \subseteq c.secondary[n]
    BY DEF RunOk
  <2> QED BY <2>1, <2>2, PromoteMoves
<1> HIDE DEF u, p, v
<1>4. CacheOk(kind, u) BY <1>2, <1>3 DEF CacheOk, SameGpu
<1> QED BY <1>2, <1>4 DEF u

(* A reload overwrites the head of the free list, which goes to its tail. *)
LEMMA ReloadKeeps ==
  ASSUME NEW c, CacheOk(kind, c), NEW k \in Keys, c.free # <<>>
  PROVE  LET u == Reload(c, k)
         IN  CacheOk(kind, u) /\ Len(u.free) = Len(c.free) /\ u.owned = c.owned
<1> DEFINE b == Head(c.free)
           f == Append(Tail(c.free), b)
           moved == [c EXCEPT !.free = f]
           q == IF kind = "tiered" THEN TieredTouch(c.cpu, k) ELSE TouchKey(c.cpu, k)
           h == Rehash(moved, b, k)
           u == Reload(c, k)
<1>1. /\ c.free \in Seq(Blocks) /\ IsInjective(c.free)
      /\ CacheShape(c) /\ TransferOk(kind, c.cpu, c.secondary, c.station)
  BY DEF CacheOk, GpuOk
<1>2. /\ b \in Blocks /\ b \in ToSet(c.free)
      /\ Tail(c.free) \in Seq(Blocks) /\ Len(Tail(c.free)) = Len(c.free) - 1
      /\ IsInjective(Tail(c.free)) /\ ToSet(Tail(c.free)) = ToSet(c.free) \ {b}
      /\ Len(c.free) \in Nat \ {0}
  BY <1>1, HeadIs
<1>3. f \in Seq(Blocks) /\ Len(f) = Len(c.free) /\ IsInjective(f) /\ ToSet(f) = ToSet(c.free)
  <2> DEFINE t == Tail(c.free)
  <2>1. t \in Seq(Blocks) /\ b \in Blocks /\ IsInjective(t) /\ b \notin ToSet(t) BY <1>2
  <2> HIDE DEF t, b
  <2>2. /\ Append(t, b) \in Seq(Blocks) /\ Len(Append(t, b)) = Len(t) + 1
        /\ ToSet(Append(t, b)) = ToSet(t) \cup {b}
        /\ IsInjective(Append(t, b))
    BY <2>1, AppendIs
  <2>3. Len(t) + 1 = Len(c.free) /\ ToSet(t) \cup {b} = ToSet(c.free)
    BY <1>2 DEF t
  <2> QED BY <2>2, <2>3 DEF t
<1> HIDE DEF f, b
<1>4. /\ CacheShape(moved) /\ moved.free = f /\ SameStore(c, moved)
      /\ moved.hash = c.hash /\ moved.index = c.index /\ moved.owned = c.owned
  BY <1>1 DEF CacheShape, SameStore
<1> HIDE DEF moved
<1>5. CacheOk(kind, moved)
  <2>1. GpuOk(c.free, c.hash, c.index, c.owned) BY DEF CacheOk
  <2>2. GpuOk(f, c.hash, c.index, c.owned) BY <1>3, <2>1 DEF GpuOk
  <2>3. GpuOk(moved.free, moved.hash, moved.index, moved.owned) BY <1>4, <2>2
  <2> QED BY <1>4, <2>3, GpuOnly
<1>6. CacheOk(kind, h) BY <1>2, <1>5, RehashKeeps
<1>7. h.free = f /\ h.owned = c.owned /\ h.cpu = c.cpu /\ CacheShape(h)
  <2>1. Rehashed(moved, h, b, k) BY <1>4, RehashIs
  <2> HIDE DEF h
  <2> QED BY <1>4, <2>1 DEF Rehashed, SameStore
<1>8. u = [h EXCEPT !.cpu = IF kind = "tiered" THEN TieredTouch(@, k) ELSE TouchKey(@, k),
                    !.latency = IF kind = "tiered" THEN @ + 1 ELSE 0]
  BY DEF Reload, h, moved, f, b
<1> HIDE DEF h, u
<1>9. /\ CacheShape(u) /\ SameGpu(h, u) /\ u.cpu = q /\ u.secondary = h.secondary
      /\ u.station = h.station /\ u.deferred = h.deferred
  <2>1. u.cpu = IF kind = "tiered" THEN TieredTouch(h.cpu, k) ELSE TouchKey(h.cpu, k)
    BY <1>7, <1>8 DEF CacheShape
  <2>2. u.cpu = q BY <1>7, <2>1
  <2> HIDE DEF q
  <2> QED BY <1>7, <1>8, <2>2 DEF CacheShape, SameGpu
<1>10. CPUOk(q) /\ q.ref = c.cpu.ref
  <2>1. CPUOk(c.cpu) BY <1>1 DEF TransferOk
  <2>2. CASE kind = "tiered"
    <3>1. \A x \in DOMAIN c.cpu.ref : c.cpu.ref[x] = 0 BY <1>1, <2>2 DEF TransferOk
    <3>2. CPUOk(TieredTouch(c.cpu, k)) /\ TieredTouch(c.cpu, k).ref = c.cpu.ref
      BY <2>1, <3>1, TieredTouchKeeps
    <3> QED BY <2>2, <3>2
  <2>3. CASE kind # "tiered"
    <3>1. CPUOk(TouchKey(c.cpu, k)) /\ TouchKey(c.cpu, k).ref = c.cpu.ref
      BY <2>1, TouchKeyKeeps
    <3> QED BY <2>3, <3>1
  <2> QED BY <2>2, <2>3
<1> HIDE DEF q
<1>11. TransferOk(kind, q, h.secondary, h.station)
  <2>1. TransferOk(kind, h.cpu, h.secondary, h.station) BY <1>6 DEF CacheOk
  <2>2. q.ref = h.cpu.ref BY <1>7, <1>10
  <2> QED BY <1>10, <2>1, <2>2, SameRefKeeps
<1>12. CacheOk(kind, u) BY <1>6, <1>9, <1>11 DEF CacheOk, SameGpu
<1>13. Len(u.free) = Len(c.free) /\ u.owned = c.owned
  BY <1>3, <1>7, <1>9 DEF SameGpu
<1> QED BY <1>12, <1>13 DEF u

(* The walk over the keys of a prompt: what consultAndReload returns. *)
WalkOk(c, keys, s) ==
  /\ DOMAIN s = {"c", "n", "end", "at"}
  /\ CacheOk(kind, s.c) /\ s.c.owned = c.owned
  /\ s.n \in Nat /\ s.n <= Len(s.c.free)
  /\ s.end = "miss" => s.at \in DOMAIN keys
WalkOp(keys, s, i) == WalkStep(keys, s, i)
WalkKept(keys, c, k, s) == WalkOk(c, keys, s)
Walking == INSTANCE Folding WITH Op <- WalkOp, P <- WalkKept

(* One key of the walk: nothing is reloaded once the free list is used up. *)
LEMMA WalkStepKeeps ==
  ASSUME NEW c, NEW keys \in Seq(Keys), NEW s, WalkOk(c, keys, s), NEW i \in DOMAIN keys
  PROVE  WalkOk(c, keys, WalkStep(keys, s, i))
<1> DEFINE k == keys[i]
           x == Lookup(s.c.cpu, k)
<1>1. k \in Keys OBVIOUS
<1>2. CASE s.end # "no" \/ k \in DOMAIN s.c.index BY <1>2 DEF WalkStep
<1>3. CASE ~(s.end # "no" \/ k \in DOMAIN s.c.index) /\ x # "hit"
  <2> DEFINE u == [s EXCEPT !.end = x, !.at = i]
  <2>1. WalkStep(keys, s, i) = u BY <1>3 DEF WalkStep
  <2> HIDE DEF x
  <2>2. DOMAIN u = {"c", "n", "end", "at"} /\ u.c = s.c /\ u.n = s.n /\ u.end = x /\ u.at = i
    BY DEF WalkOk
  <2> HIDE DEF u
  <2> QED BY <2>1, <2>2 DEF WalkOk
<1>4. CASE /\ ~(s.end # "no" \/ k \in DOMAIN s.c.index) /\ x = "hit"
           /\ s.n = Len(s.c.free)
  <2> DEFINE u == [s EXCEPT !.end = "full"]
  <2>1. WalkStep(keys, s, i) = u BY <1>4 DEF WalkStep
  <2>2. DOMAIN u = {"c", "n", "end", "at"} /\ u.c = s.c /\ u.n = s.n /\ u.end = "full"
    BY DEF WalkOk
  <2> HIDE DEF u
  <2> QED BY <2>1, <2>2 DEF WalkOk
<1>5. CASE /\ ~(s.end # "no" \/ k \in DOMAIN s.c.index) /\ x = "hit"
           /\ s.n # Len(s.c.free)
  <2> DEFINE r == Reload(s.c, k)
             u == [s EXCEPT !.c = r, !.n = @ + 1]
  <2>1. WalkStep(keys, s, i) = [s EXCEPT !.c = Reload(@, keys[i]), !.n = @ + 1]
    BY <1>5 DEF WalkStep
  <2>2. CacheOk(kind, s.c) /\ s.n \in Nat /\ s.n <= Len(s.c.free) /\ s.end = "no"
    BY <1>5 DEF WalkOk
  <2>3. s.c.free \in Seq(Blocks) /\ Len(s.c.free) \in Nat BY <2>2 DEF CacheOk, GpuOk
  <2>4. s.c.free # <<>> /\ s.n + 1 <= Len(s.c.free)
    <3>1. s.n + 1 <= Len(s.c.free) BY <1>5, <2>2, <2>3
    <3>2. Len(s.c.free) # 0 BY <2>2, <2>3, <3>1
    <3>3. Len(<<>>) = 0 OBVIOUS
    <3> QED BY <3>1, <3>2, <3>3
  <2>5. CacheOk(kind, r) /\ Len(r.free) = Len(s.c.free) /\ r.owned = s.c.owned
    BY <1>1, <2>2, <2>4, ReloadKeeps
  <2>6. WalkStep(keys, s, i) = u
    <3>1. "c" \in DOMAIN s BY DEF WalkOk
    <3> QED BY <2>1, <3>1
  <2> HIDE DEF r
  <2>7. DOMAIN u = {"c", "n", "end", "at"} /\ u.c = r /\ u.n = s.n + 1 /\ u.end = "no"
    BY <2>2 DEF WalkOk
  <2> HIDE DEF u
  <2>8. u.n \in Nat /\ u.n <= Len(u.c.free) BY <2>2, <2>4, <2>5, <2>7
  <2>9. CacheOk(kind, u.c) /\ u.c.owned = c.owned BY <2>5, <2>7 DEF WalkOk
  <2> QED BY <2>6, <2>7, <2>8, <2>9 DEF WalkOk
<1> QED BY <1>2, <1>3, <1>4, <1>5

(* The walk over all the keys. *)
LEMMA WalkKeeps ==
  ASSUME NEW c, CacheOk(kind, c), NEW keys \in Seq(Keys)
  PROVE  WalkOk(c, keys, ConsultWalk(c, keys))
<1> DEFINE n == Len(keys)
           s == [i \in DOMAIN keys |-> i]
           base == [c |-> c, n |-> 0, end |-> "no", at |-> 0]
<1>1. n \in Nat /\ DOMAIN keys = 1 .. n /\ DOMAIN s = 1 .. n OBVIOUS
<1>2. \A k \in 1 .. n : s[k] \in DOMAIN keys BY <1>1
<1>3. WalkKept(keys, c, 0, base)
  <2>1. Len(c.free) \in Nat BY DEF CacheOk, GpuOk
  <2>2. 0 \in Nat /\ 0 <= Len(c.free) BY <2>1
  <2> QED BY <2>2 DEF WalkKept, WalkOk
<1> HIDE DEF s, base, n
<1>4. \A k \in 1 .. n : \A x : WalkKept(keys, c, k - 1, x)
                               => WalkKept(keys, c, k, WalkOp(keys, x, s[k]))
  BY <1>2, WalkStepKeeps DEF WalkKept, WalkOp
<1>5. WalkKept(keys, c, n, Walking!Folded(keys, base, s))
  BY <1>1, <1>3, <1>4, Walking!Loop
<1>6. Walking!Folded(keys, base, s) = ConsultWalk(c, keys)
  BY DEF Walking!Folded, WalkOp, ConsultWalk, base, s, FoldLeft, MapThenFoldSet,
         Walking!FoldLeft, Walking!MapThenFoldSet, Walking!Max, Max
<1> QED BY <1>5, <1>6 DEF WalkKept

(* The promotion at the key where the walk met a miss. *)
LEMMA ConsultKeeps ==
  ASSUME NEW c, CacheOk(kind, c), NEW keys \in Seq(Keys), IsInjective(keys)
  PROVE  LET w == ConsultAndReload(c, keys)
         IN  CacheOk(kind, w.c) /\ w.c.owned = c.owned
<1> DEFINE s == ConsultWalk(c, keys)
           w == ConsultAndReload(c, keys)
           m == MaybePromote(s.c, keys, s.at)
           g == GatherSecondaryRun(s.c, keys, s.at)
           fired == FirePromotionRun(s.c, g.run, g.tier)
<1>1. WalkOk(c, keys, s) BY WalkKeeps
<1>2. w = IF s.end = "miss" THEN [s EXCEPT !.c = MaybePromote(@, keys, s.at)] ELSE s
  BY DEF ConsultAndReload, PromoteAtMiss
<1>3. m = IF g.tier # 0 /\ Gate(s.c.cpu, g.run) THEN fired ELSE s.c
  BY DEF MaybePromote
<1> SUFFICES CacheOk(kind, w.c) /\ w.c.owned = c.owned OBVIOUS
<1> HIDE DEF s, w
<1>4. CacheOk(kind, s.c) /\ s.c.owned = c.owned BY <1>1 DEF WalkOk
<1>5. CASE s.end # "miss" BY <1>2, <1>4, <1>5
<1>6. CASE s.end = "miss"
  <2>1. s.at \in 1 .. Len(keys) BY <1>1, <1>6 DEF WalkOk
  <2>2. RunOk(s.c, g.tier, g.run) BY <2>1, GatherIs
  <2> HIDE DEF g, m
  <2>3. CacheOk(kind, m) /\ m.owned = c.owned
    <3>1. CASE g.tier # 0 /\ Gate(s.c.cpu, g.run)
      <4>1. CacheOk(kind, fired) /\ SameGpu(s.c, fired)
        BY <1>4, <2>2, <3>1, FireKeeps
      <4>2. m = fired BY <1>3, <3>1
      <4> HIDE DEF fired
      <4> QED BY <1>4, <4>1, <4>2 DEF SameGpu
    <3>2. CASE ~(g.tier # 0 /\ Gate(s.c.cpu, g.run)) BY <1>3, <1>4, <3>2
    <3> QED BY <3>1, <3>2
  <2>4. w.c = m
    <3>1. "c" \in DOMAIN s BY <1>1 DEF WalkOk
    <3>2. w = [s EXCEPT !.c = m] BY <1>2, <1>6, <3>1 DEF m
    <3> QED BY <3>1, <3>2
  <2> QED BY <2>3, <2>4
<1> QED BY <1>5, <1>6

(* The keys behind what a request holds or was matched with. *)
LEMMA ChunkKeysAre ==
  ASSUME NEW c, CacheOk(kind, c), NEW r \in Requests, NEW cached \in Seq(Blocks)
  PROVE  ChunkKeys(c, r, cached) \in Seq(Keys) /\ IsInjective(ChunkKeys(c, r, cached))
<1> DEFINE owned == c.owned[r]
           n == IF Len(owned) > Len(cached) THEN Len(owned) ELSE Len(cached)
           prev == IF n = 0 THEN NoHash
                   ELSE IF Len(owned) > Len(cached) THEN c.hash[LastOf(owned)]
                   ELSE c.hash[LastOf(cached)]
<1>1. owned \in Seq(Blocks) /\ c.hash \in [Blocks -> Keys]
  BY DEF CacheOk, GpuOk
<1>2. ChunkKeys(c, r, cached)
        = IF n < PromptLen(r) THEN DeriveChunkKeys(prev, Prompt[r], n) ELSE <<>>
  BY DEF ChunkKeys
<1>3. Prompt[r] \in Seq(Tokens) /\ PromptLen(r) = Len(Prompt[r]) /\ PromptLen(r) \in Nat
  BY PromptIs
<1> HIDE DEF owned
<1>4. Len(owned) \in Nat /\ Len(cached) \in Nat /\ n \in Nat BY <1>1
<1>5. prev \in Keys
  <2>1. CASE n = 0 BY <2>1 DEF NoHash, Keys
  <2>2. CASE n # 0 /\ Len(owned) > Len(cached)
    <3>1. LastOf(owned) \in Blocks BY <1>1, <1>4, <2>2 DEF LastOf
    <3> QED BY <1>1, <2>2, <3>1
  <2>3. CASE n # 0 /\ ~(Len(owned) > Len(cached))
    <3>1. LastOf(cached) \in Blocks BY <1>4, <2>3 DEF LastOf
    <3> QED BY <1>1, <2>3, <3>1
  <2> QED BY <2>1, <2>2, <2>3
<1> HIDE DEF prev, n
<1>6. CASE n < PromptLen(r)
  <2>1. n <= Len(Prompt[r]) BY <1>3, <1>4, <1>6
  <2>2. /\ DeriveChunkKeys(prev, Prompt[r], n) \in Seq(Keys)
        /\ IsInjective(DeriveChunkKeys(prev, Prompt[r], n))
    BY <1>3, <1>4, <1>5, <2>1, ChunksAre
  <2> QED BY <1>2, <1>6, <2>2
<1>7. CASE ~(n < PromptLen(r))
  <2>1. <<>> \in Seq(Keys) /\ IsInjective(<<>>) BY DEF IsInjective
  <2> QED BY <1>2, <1>7, <2>1
<1> QED BY <1>6, <1>7

\* What an allocation for r makes of the cache.
GivenOk(c, g, r) ==
  DOMAIN g = {"ok", "c"} /\ CacheOk(kind, g.c) /\ OwnedBut(c, g.c, r)

(* The GPU tier's allocation in these words. *)
LEMMA GrowGives ==
  ASSUME NEW c, CacheOk(kind, c), NEW r, NEW prefill, NEW start, NEW end, NEW cached,
         ArgsOk(r, prefill, start, end, cached)
  PROVE  GivenOk(c, Grow(c, r, prefill, start, end, cached), r)
<1> DEFINE g == Grow(c, r, prefill, start, end, cached)
<1>1. CacheOk(kind, g.c) /\ OwnedBut(c, g.c, r) BY GrowKeeps
<1>2. DOMAIN g = {"ok", "c"} BY DEF Grow
<1> QED BY <1>1, <1>2 DEF GivenOk

(* What was reloaded is committed, and the rest of the chunk allocated. *)
LEMMA ReloadedGives ==
  ASSUME NEW c, CacheOk(kind, c), NEW r, NEW start, NEW end, NEW cached,
         ArgsOk(r, TRUE, start, end, cached),
         NEW found \in Seq(Blocks), Len(found) <= PromptLen(r)
  PROVE  GivenOk(c, CommitReloaded(c, r, TRUE, start, end, found), r)
<1> DEFINE upTo == Min({end, Len(found)})
           new == IF c.owned[r] = <<>> THEN SubSeq(found, 1, upTo)
                  ELSE SubSeq(found, start + 1, upTo)
           held == CommitCachedBlocks(c, r, new)
           u == CommitReloaded(c, r, TRUE, start, end, found)
           grown == Grow(held, r, TRUE, Len(found), end, found)
<1>1. /\ r \in Requests /\ start \in Nat /\ end \in Nat /\ end <= PromptLen(r)
      /\ Len(found) \in Nat
  BY DEF ArgsOk
<1>2. u = IF Len(found) >= end THEN [ok |-> TRUE, c |-> held] ELSE grown
  BY DEF CommitReloaded
<1>3. upTo \in Nat /\ upTo <= Len(found)
  <2> DEFINE S == {end, Len(found)}
  <2>1. S \subseteq Nat /\ S # {} /\ Len(found) \in S BY <1>1
  <2>2. Min(S) \in S /\ Min(S) <= Len(found)
    <3> HIDE DEF S
    <3> QED BY <2>1, MinIn
  <2> QED BY <2>1, <2>2
<1> HIDE DEF upTo
<1>4. new \in Seq(Blocks)
  <2>1. SubSeq(found, 1, upTo) \in Seq(Blocks)
    <3>1. 1 \in Nat \ {0} OBVIOUS
    <3> QED BY <1>3, <3>1, SubSeqIs
  <2>2. SubSeq(found, start + 1, upTo) \in Seq(Blocks)
    <3>1. start + 1 \in Nat \ {0} BY <1>1
    <3> QED BY <1>3, <3>1, SubSeqIs
  <2> QED BY <2>1, <2>2
<1> HIDE DEF new
<1>5. CacheOk(kind, held) /\ OwnedBut(c, held, r) BY <1>1, <1>4, CommitKeeps
<1> HIDE DEF held
<1>6. CASE Len(found) >= end
  <2>1. u = [ok |-> TRUE, c |-> held] BY <1>2, <1>6
  <2> HIDE DEF u
  <2>2. GivenOk(c, u, r) BY <1>5, <2>1 DEF GivenOk
  <2> QED BY <2>2 DEF u
<1>7. CASE ~(Len(found) >= end)
  <2>1. u = grown BY <1>2, <1>7
  <2>2. ArgsOk(r, TRUE, Len(found), end, found) BY <1>1 DEF ArgsOk
  <2>3. GivenOk(held, grown, r) BY <1>5, <2>2, GrowGives
  <2> HIDE DEF grown, u
  <2>4. GivenOk(c, u, r) BY <1>5, <2>1, <2>3 DEF GivenOk, OwnedBut
  <2> QED BY <2>4 DEF u
<1> QED BY <1>6, <1>7

(* allocateThroughChain: reload, then commit and allocate. *)
LEMMA ChainGives ==
  ASSUME NEW c, CacheOk(kind, c), NEW r, NEW prefill, NEW start, NEW end, NEW cached,
         ArgsOk(r, prefill, start, end, cached)
  PROVE  GivenOk(c, AllocateThroughChain(c, r, prefill, start, end, cached), r)
<1> DEFINE keys == ChunkKeys(c, r, cached)
           w == ConsultAndReload(c, keys)
           found == GetCachedBlocks(w.c, Prompt[r])
           u == AllocateThroughChain(c, r, prefill, start, end, cached)
           grown == Grow(w.c, r, prefill, start, end, cached)
           held == CommitReloaded(w.c, r, prefill, start, end, found)
<1>1. /\ r \in Requests /\ cached \in Seq(Blocks) /\ start \in Nat /\ prefill \in BOOLEAN
      /\ ~prefill => start >= PromptLen(r)
  BY DEF ArgsOk
<1>2. keys \in Seq(Keys) /\ IsInjective(keys) BY <1>1, ChunkKeysAre
<1> HIDE DEF keys
<1>3. CacheOk(kind, w.c) /\ w.c.owned = c.owned BY <1>2, ConsultKeeps
<1> HIDE DEF w
<1>4. found \in Seq(Blocks) /\ Len(found) <= PromptLen(r) /\ PromptLen(r) \in Nat
  <2>1. Prompt[r] \in Seq(Tokens) /\ PromptLen(r) = Len(Prompt[r]) /\ PromptLen(r) \in Nat
    BY <1>1, PromptIs
  <2>2. found \in Seq(Blocks) /\ Len(found) <= Len(Prompt[r])
    BY <1>3, <2>1, CachedIs
  <2> QED BY <2>1, <2>2
<1>5. u = IF w.n = 0 \/ Len(found) <= start THEN grown ELSE held
  BY DEF AllocateThroughChain, AllocateAfter, w, keys
<1>6. GivenOk(w.c, grown, r) BY <1>3, GrowGives
<1>7. prefill => GivenOk(w.c, held, r)
  <2> SUFFICES ASSUME prefill PROVE GivenOk(w.c, held, r) OBVIOUS
  <2>1. prefill = TRUE BY <1>1
  <2>2. ArgsOk(r, TRUE, start, end, cached) BY <2>1
  <2>3. GivenOk(w.c, CommitReloaded(w.c, r, TRUE, start, end, found), r)
    <3> HIDE DEF found
    <3> QED BY <1>3, <1>4, <2>2, ReloadedGives
  <2> QED BY <2>1, <2>3
<1> HIDE DEF found, grown, held, u
<1>8. GivenOk(w.c, u, r)
  <2>1. CASE prefill BY <1>5, <1>6, <1>7, <2>1
  <2>2. CASE ~prefill
    <3>1. Len(found) <= start
      <4>1. Len(found) \in Nat BY <1>4
      <4> QED BY <1>1, <1>4, <2>2, <4>1
    <3> QED BY <1>5, <1>6, <3>1
  <2> QED BY <2>1, <2>2
<1>9. GivenOk(c, u, r) BY <1>3, <1>8 DEF GivenOk, OwnedBut
<1> QED BY <1>9 DEF u

------------------------------
(* Deferral. *)

\* What a change of the deferrals leaves alone.
SameCache(c, u) ==
  /\ CacheShape(u) /\ SameGpu(c, u)
  /\ u.cpu = c.cpu /\ u.secondary = c.secondary /\ u.station = c.station

\* A cache that is in order, with the same blocks held.
KeptHeld(c, u) == CacheOk(kind, u) /\ u.owned = c.owned

(* A change of the deferrals and of the known keys alone. *)
LEMMA DeferOnly ==
  ASSUME NEW c, CacheOk(kind, c), NEW u, SameCache(c, u),
         DeferOk(kind, u.deferred, c.secondary)
  PROVE  KeptHeld(c, u)
  BY DEF CacheOk, SameCache, SameGpu, KeptHeld

(* An episode that is not to be promoted any more is in order. *)
LEMMA PhaseIs ==
  ASSUME NEW sec, NEW e, EpisodeOk(kind, sec, e),
         NEW ph \in {"promoting", "resolved", "recompute"}
  PROVE  EpisodeOk(kind, sec, [e EXCEPT !.phase = ph])
<1>1. /\ e = [phase |-> e.phase, keys |-> e.keys, tier |-> e.tier]
      /\ e.keys \in Seq(Keys) /\ IsInjective(e.keys)
  BY DEF EpisodeOk, Episode
<1> DEFINE u == [e EXCEPT !.phase = ph]
<1>2. u = [phase |-> ph, keys |-> e.keys, tier |-> e.tier] /\ ph # "retry"
  BY <1>1
<1>3. u.phase = ph /\ u.keys = e.keys /\ u.tier = e.tier BY <1>2
<1> HIDE DEF u
<1>4. EpisodeOk(kind, sec, u) BY <1>1, <1>2, <1>3 DEF EpisodeOk, Episode
<1> QED BY <1>4 DEF u

(* An episode is registered or replaced. *)
LEMMA DeferPut ==
  ASSUME NEW c, CacheOk(kind, c), NEW u, SameCache(c, u), NEW r \in Requests,
         NEW e, EpisodeOk(kind, c.secondary, e), u.deferred = Put(c.deferred, r, e)
  PROVE  KeptHeld(c, u)
<1> DEFINE d == c.deferred
           p == Put(d, r, e)
<1>1. DeferOk(kind, d, c.secondary) BY DEF CacheOk
<1>2. DeferOk(kind, p, c.secondary)
  <2>1. p = [x \in DOMAIN d \cup {r} |-> IF x = r THEN e ELSE d[x]] BY DEF Put
  <2> HIDE DEF p, d
  <2>2. DOMAIN p = DOMAIN d \cup {r} /\ p = [x \in DOMAIN p |-> p[x]] BY <2>1
  <2>3. \A x \in DOMAIN p : EpisodeOk(kind, c.secondary, p[x])
    <3> TAKE x \in DOMAIN p
    <3>1. CASE x = r BY <2>1, <3>1
    <3>2. CASE x # r
      <4>1. x \in DOMAIN d /\ p[x] = d[x] BY <2>1, <2>2, <3>2
      <4> QED BY <1>1, <4>1 DEF DeferOk
    <3> QED BY <3>1, <3>2
  <2> QED BY <1>1, <2>2, <2>3 DEF DeferOk
<1>3. u.deferred = p OBVIOUS
<1> HIDE DEF p
<1> QED BY <1>2, <1>3, DeferOnly

\* The episode of r has a new phase.
PhaseMoved(c, u, r, ph) == u.deferred = [c.deferred EXCEPT ![r].phase = ph]

(* An episode moves on to a phase in which it is not to be promoted. *)
LEMMA DeferMoves ==
  ASSUME NEW c, CacheOk(kind, c), NEW u, SameCache(c, u), NEW r \in DOMAIN c.deferred,
         NEW ph \in {"promoting", "resolved", "recompute"},
         PhaseMoved(c, u, r, ph)
  PROVE  KeptHeld(c, u)
<1> DEFINE d == c.deferred
           e == [d[r] EXCEPT !.phase = ph]
<1>1. DeferOk(kind, d, c.secondary) BY DEF CacheOk
<1>2. EpisodeOk(kind, c.secondary, d[r]) /\ r \in Requests BY <1>1 DEF DeferOk
<1>3. EpisodeOk(kind, c.secondary, e) BY <1>2, PhaseIs
<1>4. u.deferred = [d EXCEPT ![r] = e] BY DEF PhaseMoved
<1>5. [d EXCEPT ![r] = e] = Put(d, r, e)
  <2>1. d = [x \in DOMAIN d |-> d[x]] BY <1>1 DEF DeferOk
  <2>2. DOMAIN d \cup {r} = DOMAIN d OBVIOUS
  <2> HIDE DEF d, e
  <2>3. [d EXCEPT ![r] = e] = [x \in DOMAIN d |-> IF x = r THEN e ELSE d[x]]
    BY <2>1
  <2> QED BY <2>2, <2>3 DEF Put
<1> HIDE DEF e
<1> QED BY <1>2, <1>3, <1>4, <1>5, DeferPut DEF d

(* The promotion of an episode that waits for its chance. *)
LEMMA PromoteKeeps ==
  ASSUME NEW c, CacheOk(kind, c), NEW r \in Requests,
         NEW e, EpisodeOk(kind, c.secondary, e), e.phase = "retry"
  PROVE  KeptHeld(c, Promote(c, r, e))
<1>1. CacheShape(c) BY DEF CacheOk
<1>2. CASE Gate(c.cpu, e.keys)
  <2> DEFINE f == FirePromotionRun(c, e.keys, e.tier)
             v == [e EXCEPT !.phase = "promoting"]
             u == [f EXCEPT !.deferred = Put(@, r, v)]
  <2>1. RunOk(c, e.tier, e.keys) /\ e.tier # 0 BY DEF EpisodeOk, RunOk, Tiers
  <2>2. CacheOk(kind, f) /\ SameGpu(c, f) /\ f.deferred = c.deferred /\ f.secondary = c.secondary
    BY <1>2, <2>1, FireKeeps
  <2>3. EpisodeOk(kind, f.secondary, v)
    <3>1. EpisodeOk(kind, c.secondary, v) BY PhaseIs
    <3> QED BY <2>2, <3>1
  <2>4. Promote(c, r, e) = u BY <1>2 DEF Promote
  <2> HIDE DEF f, v
  <2>5. CacheShape(f) BY <2>2 DEF CacheOk
  <2>6. SameCache(f, u) /\ u.deferred = Put(f.deferred, r, v)
    BY <2>5 DEF CacheShape, SameCache, SameGpu
  <2> HIDE DEF u
  <2>7. KeptHeld(f, u) BY <2>2, <2>3, <2>6, DeferPut
  <2> QED BY <2>2, <2>4, <2>7 DEF KeptHeld, SameGpu
<1>3. CASE ~Gate(c.cpu, e.keys)
  <2> DEFINE v == [e EXCEPT !.phase = "recompute"]
             u == [c EXCEPT !.deferred = Put(@, r, v)]
  <2>1. EpisodeOk(kind, c.secondary, v) BY PhaseIs
  <2>2. Promote(c, r, e) = u BY <1>3 DEF Promote
  <2> HIDE DEF v
  <2>3. SameCache(c, u) /\ u.deferred = Put(c.deferred, r, v)
    BY <1>1 DEF CacheShape, SameCache, SameGpu
  <2> HIDE DEF u
  <2>4. KeptHeld(c, u) BY <2>1, <2>3, DeferPut
  <2> QED BY <2>2, <2>4
<1> QED BY <1>2, <1>3

(* registerDeferral. *)
LEMMA RegisterKeeps ==
  ASSUME NEW c, CacheOk(kind, c), NEW r \in Requests,
         NEW e, EpisodeOk(kind, c.secondary, e)
  PROVE  KeptHeld(c, RegisterDeferral(c, r, e))
<1> DEFINE now == e.phase = "retry" /\ ToSet(e.keys) \subseteq c.known
           u == [c EXCEPT !.deferred = Put(@, r, e)]
<1>1. CASE now
  <2>1. KeptHeld(c, Promote(c, r, e)) BY <1>1, PromoteKeeps
  <2>2. RegisterDeferral(c, r, e) = Promote(c, r, e) BY <1>1 DEF RegisterDeferral
  <2> QED BY <2>1, <2>2
<1>2. CASE ~now
  <2>1. CacheShape(c) BY DEF CacheOk
  <2>2. RegisterDeferral(c, r, e) = u BY <1>2 DEF RegisterDeferral
  <2>3. SameCache(c, u) /\ u.deferred = Put(c.deferred, r, e)
    BY <2>1 DEF CacheShape, SameCache, SameGpu
  <2> HIDE DEF u
  <2>4. KeptHeld(c, u) BY <2>3, DeferPut
  <2> QED BY <2>2, <2>4
<1> QED BY <1>1, <1>2

\* The phase of r's episode changes, and more keys may be known.
MovedTo(c, u, r, ph) ==
  \/ u = [c EXCEPT !.deferred[r].phase = ph]
  \/ \E known : u = [[c EXCEPT !.known = known] EXCEPT !.deferred[r].phase = ph]

(* A new phase in the cache's own words. *)
LEMMA PhaseSetKeeps ==
  ASSUME NEW c, CacheOk(kind, c), NEW r \in DOMAIN c.deferred, NEW u,
         NEW ph \in {"promoting", "resolved", "recompute"}, MovedTo(c, u, r, ph)
  PROVE  KeptHeld(c, u)
<1>1. CacheShape(c) BY DEF CacheOk
<1>2. SameCache(c, u) /\ u.deferred = [c.deferred EXCEPT ![r].phase = ph]
  <2>1. CASE u = [c EXCEPT !.deferred[r].phase = ph]
    BY <1>1, <2>1 DEF CacheShape, SameCache, SameGpu
  <2>2. CASE \E known : u = [[c EXCEPT !.known = known] EXCEPT !.deferred[r].phase = ph]
    <3>1. PICK known : u = [[c EXCEPT !.known = known] EXCEPT !.deferred[r].phase = ph]
      BY <2>2
    <3> QED BY <1>1, <3>1 DEF CacheShape, SameCache, SameGpu
  <2> QED BY <2>1, <2>2 DEF MovedTo
<1>3. SameCache(c, u) BY <1>2
<1>4. PhaseMoved(c, u, r, ph) BY <1>2 DEF PhaseMoved
<1> QED BY <1>3, <1>4, DeferMoves

(* A known key is known: nothing else changes. *)
LEMMA KnownKeeps ==
  ASSUME NEW c, CacheOk(kind, c), NEW known
  PROVE  KeptHeld(c, [c EXCEPT !.known = known]) /\ [c EXCEPT !.known = known].secondary = c.secondary
<1> DEFINE u == [c EXCEPT !.known = known]
<1>1. CacheShape(c) /\ DeferOk(kind, c.deferred, c.secondary) BY DEF CacheOk
<1>2. SameCache(c, u) /\ u.deferred = c.deferred /\ u.secondary = c.secondary
  BY <1>1 DEF CacheShape, SameCache, SameGpu
<1> HIDE DEF u
<1>3. DeferOk(kind, u.deferred, c.secondary) BY <1>1, <1>2
<1>4. KeptHeld(c, u) BY <1>2, <1>3, DeferOnly
<1> QED BY <1>2, <1>4 DEF u

(* One poll of an episode that waits. *)
LEMMA AwaitedKeeps ==
  ASSUME NEW c, CacheOk(kind, c), NEW r \in DOMAIN c.deferred
  PROVE  KeptHeld(c, PollAwaited(c, r, c.deferred[r]))
<1> DEFINE e == c.deferred[r]
           known == c.known \cup ToSet(e.keys)
           seen == [c EXCEPT !.known = known]
           To(ph) == [(IF e.phase = "retry" THEN seen ELSE c) EXCEPT !.deferred[r].phase = ph]
           state == AwaitedState(c, e.keys)
           u == PollAwaited(c, r, e)
<1>1. CacheShape(c) /\ EpisodeOk(kind, c.secondary, e) /\ r \in Requests
  BY DEF CacheOk, DeferOk
<1>2. u = IF state = "hit" THEN To("resolved")
          ELSE IF state = "pending" THEN To("promoting")
          ELSE IF e.phase = "retry" THEN Promote(seen, r, e)
          ELSE To("recompute")
  <2>2. u = IF state = "hit"
            THEN [(IF e.phase = "retry" THEN [c EXCEPT !.known = @ \cup ToSet(e.keys)] ELSE c)
                    EXCEPT !.deferred[r].phase = "resolved"]
            ELSE IF state = "pending"
            THEN [(IF e.phase = "retry" THEN [c EXCEPT !.known = @ \cup ToSet(e.keys)] ELSE c)
                    EXCEPT !.deferred[r].phase = "promoting"]
            ELSE IF e.phase = "retry"
            THEN Promote([c EXCEPT !.known = @ \cup ToSet(e.keys)], r, e)
            ELSE [(IF e.phase = "retry" THEN [c EXCEPT !.known = @ \cup ToSet(e.keys)] ELSE c)
                    EXCEPT !.deferred[r].phase = "recompute"]
    BY DEF PollAwaited
  <2> QED BY <2>2
<1>3. \A ph : MovedTo(c, To(ph), r, ph)
  <2> TAKE ph
  <2>1. CASE e.phase = "retry"
    <3>1. To(ph) = [seen EXCEPT !.deferred[r].phase = ph] BY <2>1
    <3>2. \E k : To(ph) = [[c EXCEPT !.known = k] EXCEPT !.deferred[r].phase = ph]
      BY <3>1
    <3> HIDE DEF To
    <3> QED BY <3>2 DEF MovedTo
  <2>2. CASE e.phase # "retry"
    <3>1. To(ph) = [c EXCEPT !.deferred[r].phase = ph] BY <2>2
    <3> HIDE DEF To
    <3> QED BY <3>1 DEF MovedTo
  <2> QED BY <2>1, <2>2
<1> HIDE DEF To
<1>4. \A ph \in {"promoting", "resolved", "recompute"} : KeptHeld(c, To(ph))
  <2> TAKE ph \in {"promoting", "resolved", "recompute"}
  <2> DEFINE v == To(ph)
  <2>1. MovedTo(c, v, r, ph) BY <1>3
  <2> HIDE DEF v
  <2>2. KeptHeld(c, v) BY <2>1, PhaseSetKeeps
  <2> QED BY <2>2 DEF v
<1>5. CASE state = "hit" BY <1>2, <1>4, <1>5
<1>6. CASE state = "pending" BY <1>2, <1>4, <1>6
<1>7. CASE state # "hit" /\ state # "pending" /\ e.phase = "retry"
  <2>1. KeptHeld(c, seen) /\ seen.secondary = c.secondary BY KnownKeeps
  <2> HIDE DEF seen, u
  <2> DEFINE p == Promote(seen, r, e)
  <2>2. CacheOk(kind, seen) /\ EpisodeOk(kind, seen.secondary, e)
    BY <1>1, <2>1 DEF KeptHeld
  <2>3. KeptHeld(seen, p)
    <3> HIDE DEF e
    <3> QED BY <1>1, <1>7, <2>2, PromoteKeeps
  <2>4. u = p BY <1>2, <1>7
  <2> HIDE DEF p
  <2>5. KeptHeld(c, u) BY <2>1, <2>3, <2>4 DEF KeptHeld
  <2> QED BY <2>5 DEF u
<1>8. CASE state # "hit" /\ state # "pending" /\ e.phase # "retry"
  BY <1>2, <1>4, <1>8
<1> QED BY <1>5, <1>6, <1>7, <1>8

(* The poll of one request, late or not. *)
LEMMA PollOneKeeps ==
  ASSUME NEW c, CacheOk(kind, c), NEW r, NEW late \in BOOLEAN
  PROVE  KeptHeld(c, PollOne(c, r, late))
<1> DEFINE a == PollAwaited(c, r, c.deferred[r])
           u == PollOne(c, r, late)
<1>1. CASE ~Waiting(c, r) BY <1>1 DEF PollOne, KeptHeld
<1>2. CASE Waiting(c, r)
  <2>1. r \in DOMAIN c.deferred BY <1>2 DEF Waiting
  <2>2. KeptHeld(c, a) BY <2>1, AwaitedKeeps
  <2>3. u = IF late THEN GiveUp(a, r) ELSE a BY <1>2 DEF PollOne
  <2> HIDE DEF a, u
  <2>4. KeptHeld(c, GiveUp(a, r))
    <3>1. CASE Waiting(a, r)
      <4> DEFINE v == [a EXCEPT !.deferred[r].phase = "recompute"]
      <4>1. r \in DOMAIN a.deferred BY <3>1 DEF Waiting
      <4>2. GiveUp(a, r) = v BY <3>1 DEF GiveUp
      <4>3. MovedTo(a, v, r, "recompute") BY DEF MovedTo
      <4> HIDE DEF v
      <4>4. CacheOk(kind, a) BY <2>2 DEF KeptHeld
      <4>5. KeptHeld(a, v) BY <4>1, <4>3, <4>4, PhaseSetKeeps
      <4> QED BY <2>2, <4>2, <4>5 DEF KeptHeld
    <3>2. CASE ~Waiting(a, r) BY <2>2, <3>2 DEF GiveUp
    <3> QED BY <3>1, <3>2
  <2>5. KeptHeld(c, u) BY <2>2, <2>3, <2>4
  <2> QED BY <2>5 DEF u
<1> QED BY <1>1, <1>2

(* PollDeferred, over all the requests. *)
PollOp(late, c, r) == PollOne(c, r, r \in late)
PollKept(late, c, k, x) == KeptHeld(c, x)
Polling == INSTANCE Folding WITH Op <- PollOp, P <- PollKept

(* The poll of every request. *)
LEMMA PollKeeps ==
  ASSUME NEW c, CacheOk(kind, c), NEW late
  PROVE  KeptHeld(c, PollAll(c, late))
<1> DEFINE s == [r \in Requests |-> r]
           n == NumRequests
<1>1. n \in Nat /\ DOMAIN s = 1 .. n BY OffloadAssumption DEF Requests
<1>2. PollKept(late, c, 0, c) BY DEF PollKept, KeptHeld
<1>3. ASSUME NEW x, NEW y, KeptHeld(c, x) PROVE KeptHeld(c, PollOne(x, y, y \in late))
  <2>1. CacheOk(kind, x) /\ (y \in late) \in BOOLEAN BY <1>3 DEF KeptHeld
  <2> DEFINE b == y \in late
  <2> HIDE DEF b
  <2>2. b \in BOOLEAN BY <2>1 DEF b
  <2>3. KeptHeld(x, PollOne(x, y, b)) BY <2>1, <2>2, PollOneKeeps
  <2>4. KeptHeld(c, PollOne(x, y, b)) BY <1>3, <2>3 DEF KeptHeld
  <2> QED BY <2>4 DEF b
<1> HIDE DEF s
<1>4. \A k \in 1 .. n : \A x : PollKept(late, c, k - 1, x) => PollKept(late, c, k, PollOp(late, x, s[k]))
  BY <1>3 DEF PollKept, PollOp
<1>5. PollKept(late, c, n, Polling!Folded(late, c, s))
  BY <1>1, <1>2, <1>4, Polling!Loop
<1>6. Polling!Folded(late, c, s) = PollAll(c, late)
  BY DEF Polling!Folded, PollOp, PollAll, s, FoldLeft, MapThenFoldSet,
         Polling!FoldLeft, Polling!MapThenFoldSet, Polling!Max, Max
<1> QED BY <1>5, <1>6 DEF PollKept

(* ClearDeferred. *)
LEMMA ClearKeeps ==
  ASSUME NEW c, CacheOk(kind, c), NEW r
  PROVE  KeptHeld(c, ClearDeferred(c, r))
<1> DEFINE d == c.deferred
           p == Drop(d, {r})
           u == ClearDeferred(c, r)
<1>1. CacheShape(c) /\ DeferOk(kind, d, c.secondary) BY DEF CacheOk
<1>2. SameCache(c, u) /\ u.deferred = p
  BY <1>1 DEF ClearDeferred, CacheShape, SameCache, SameGpu
<1>3. DeferOk(kind, p, c.secondary)
  <2> HIDE DEF d
  <2>1. p = [x \in DOMAIN d \ {r} |-> d[x]] BY DEF Drop
  <2> HIDE DEF p
  <2>2. DOMAIN p = DOMAIN d \ {r} /\ \A x \in DOMAIN p : p[x] = d[x] BY <2>1
  <2>3. p = [x \in DOMAIN p |-> p[x]] BY <2>1
  <2> QED BY <1>1, <2>2, <2>3 DEF DeferOk
<1> HIDE DEF u, p
<1>4. KeptHeld(c, u) BY <1>2, <1>3, DeferOnly
<1> QED BY <1>4 DEF u

(* classifyFetch: what it makes a request wait for may be promoted. *)
LEMMA ClassifyIs ==
  ASSUME NEW c, CacheOk(kind, c), NEW r \in Requests, NEW cached \in Seq(Blocks),
         Len(cached) <= PromptLen(r)
  PROVE  EpisodeOk(kind, c.secondary, ClassifyFetch(c, r, cached))
<1> DEFINE n == Len(cached)
           prev == IF n = 0 THEN NoHash ELSE c.hash[cached[n]]
           keys == DeriveChunkKeys(prev, Prompt[r], n)
           stop == {i \in DOMAIN keys : /\ keys[i] \notin DOMAIN c.index
                                        /\ Lookup(c.cpu, keys[i]) # "hit"}
           i == Min(stop)
           g == GatherSecondaryRun(c, keys, i)
           none == Episode("none", <<>>, 0)
           u == ClassifyFetch(c, r, cached)
<1>1. keys \in Seq(Keys) /\ IsInjective(keys)
  <2>1. c.hash \in [Blocks -> Keys] /\ n \in Nat BY DEF CacheOk, GpuOk
  <2>2. prev \in Keys
    <3>1. CASE n = 0 BY <3>1 DEF NoHash, Keys
    <3>2. CASE n # 0
      <4>1. cached[n] \in Blocks BY <2>1, <3>2
      <4> QED BY <2>1, <3>2, <4>1
    <3> QED BY <3>1, <3>2
  <2>3. Prompt[r] \in Seq(Tokens) /\ n <= Len(Prompt[r]) BY PromptIs
  <2> HIDE DEF prev, n
  <2> QED BY <2>1, <2>2, <2>3, ChunksAre
<1>2. u = IF ~HasStation \/ stop = {} THEN none
          ELSE IF Lookup(c.cpu, keys[i]) = "pending"
               THEN Episode("promoting", <<keys[i]>>, 0)
          ELSE IF g.tier = 0 THEN none
          ELSE Episode("retry", g.run, g.tier)
  BY DEF ClassifyFetch
<1> HIDE DEF keys
<1>3. stop \subseteq 1 .. Len(keys) /\ stop \subseteq Nat BY <1>1
<1>4. <<>> \in Seq(Keys) /\ IsInjective(<<>>) BY DEF IsInjective
<1>5. EpisodeOk(kind, c.secondary, none) BY <1>4 DEF EpisodeOk, Episode
<1> HIDE DEF u, none
<1>6. CASE ~HasStation \/ stop = {}
  <2>1. u = none BY <1>2, <1>6
  <2> QED BY <1>5, <2>1 DEF u
<1>7. CASE HasStation /\ stop # {}
  <2>1. i \in 1 .. Len(keys)
    <3> HIDE DEF stop
    <3> QED BY <1>3, <1>7, MinIn
  <2> HIDE DEF i, stop
  <2>2. EpisodeOk(kind, c.secondary, Episode("promoting", <<keys[i]>>, 0))
    <3> DEFINE q == <<keys[i]>>
    <3>1. q \in Seq(Keys) /\ IsInjective(q)
      <4> DEFINE x == keys[i]
      <4>1. x \in Keys BY <1>1, <2>1
      <4> HIDE DEF x
      <4>2. <<x>> \in Seq(Keys) BY <4>1
      <4>3. IsInjective(<<x>>) BY DEF IsInjective
      <4> QED BY <4>2, <4>3 DEF x
    <3> HIDE DEF q
    <3>2. EpisodeOk(kind, c.secondary, Episode("promoting", q, 0))
      BY <3>1 DEF EpisodeOk, Episode
    <3> QED BY <3>2 DEF q
  <2>3. RunOk(c, g.tier, g.run) BY <1>1, <2>1, GatherIs
  <2> HIDE DEF g
  <2>4. g.tier # 0 => EpisodeOk(kind, c.secondary, Episode("retry", g.run, g.tier))
    BY <2>3 DEF RunOk, EpisodeOk, Episode
  <2>5. EpisodeOk(kind, c.secondary, u)
    <3>1. CASE Lookup(c.cpu, keys[i]) = "pending"
      <4>1. u = Episode("promoting", <<keys[i]>>, 0) BY <1>2, <1>7, <3>1
      <4> QED BY <2>2, <4>1
    <3>2. CASE Lookup(c.cpu, keys[i]) # "pending" /\ g.tier = 0
      <4>1. u = none BY <1>2, <1>7, <3>2
      <4> QED BY <1>5, <4>1
    <3>3. CASE Lookup(c.cpu, keys[i]) # "pending" /\ g.tier # 0
      <4>1. u = Episode("retry", g.run, g.tier) BY <1>2, <1>7, <3>3
      <4> QED BY <2>4, <3>3, <4>1
    <3> QED BY <3>1, <3>2, <3>3
  <2> QED BY <2>5 DEF u
<1> QED BY <1>6, <1>7

(* AllocateKVBlocks of the chain and of the two-tier cache. *)
LEMMA AllocateGives ==
  ASSUME NEW c, CacheOk(kind, c), NEW r, NEW prefill, NEW start, NEW end, NEW cached,
         ArgsOk(r, prefill, start, end, cached)
  PROVE  GivenOk(c, AllocateKVBlocks(c, r, prefill, start, end, cached), r)
<1> DEFINE u == AllocateKVBlocks(c, r, prefill, start, end, cached)
           a == AllocateThroughChain(c, r, prefill, start, end, cached)
           fetch == ClassifyFetch(c, r, cached)
           d == DeferOrAllocate(c, r, prefill, start, end, cached, fetch)
           e == EndDeferral(a, r)
<1>1. r \in Requests /\ cached \in Seq(Blocks) /\ Len(cached) <= PromptLen(r)
  BY DEF ArgsOk
<1>2. GivenOk(c, a, r) BY ChainGives
<1>3. u = IF kind = "tiered" \/ c.owned[r] # <<>> THEN a
          ELSE IF Waiting(c, r) THEN [ok |-> FALSE, c |-> c]
          ELSE IF r \in DOMAIN c.deferred THEN e ELSE d
  BY DEF AllocateKVBlocks
<1>4. GivenOk(c, [ok |-> FALSE, c |-> c], r) BY DEF GivenOk, OwnedBut
<1>5. GivenOk(c, e, r)
  <2> HIDE DEF a
  <2>1. CASE a.ok
    <3> DEFINE x == ClearDeferred(a.c, r)
    <3>1. CacheOk(kind, a.c) /\ DOMAIN a = {"ok", "c"} /\ OwnedBut(c, a.c, r)
      BY <1>2 DEF GivenOk
    <3>2. KeptHeld(a.c, x) BY <3>1, ClearKeeps
    <3>3. e = [a EXCEPT !.c = ClearDeferred(@, r)] BY <2>1 DEF EndDeferral
    <3>4. DOMAIN e = {"ok", "c"} /\ e.c = x BY <3>1, <3>3
    <3> HIDE DEF x, e
    <3>5. OwnedBut(c, x, r) BY <3>1, <3>2 DEF KeptHeld, OwnedBut
    <3> QED BY <3>2, <3>4, <3>5 DEF GivenOk, KeptHeld
  <2>2. CASE ~a.ok BY <1>2, <2>2 DEF EndDeferral
  <2> QED BY <2>1, <2>2
<1>6. GivenOk(c, d, r)
  <2>1. EpisodeOk(kind, c.secondary, fetch) BY <1>1, ClassifyIs
  <2> HIDE DEF fetch
  <2> DEFINE x == RegisterDeferral(c, r, fetch)
  <2>2. KeptHeld(c, x) BY <1>1, <2>1, RegisterKeeps
  <2>3. d = IF fetch.phase # "none" THEN [ok |-> FALSE, c |-> x] ELSE a
    BY DEF DeferOrAllocate
  <2> HIDE DEF x, d, a
  <2>4. GivenOk(c, [ok |-> FALSE, c |-> x], r)
    BY <2>2 DEF GivenOk, KeptHeld, OwnedBut
  <2> QED BY <1>2, <2>3, <2>4
<1> HIDE DEF u, a, d, e
<1>7. GivenOk(c, u, r) BY <1>2, <1>3, <1>4, <1>5, <1>6
<1> QED BY <1>7 DEF u

(* ReloadablePrefixEnd lies within the prompt. *)
LEMMA PrefixEndIs ==
  ASSUME NEW c, CacheOk(kind, c), NEW r \in Requests, NEW cached \in Seq(Blocks),
         Len(cached) <= PromptLen(r)
  PROVE  /\ ReloadablePrefixEnd(c, r, cached) \in Nat
         /\ ReloadablePrefixEnd(c, r, cached) <= PromptLen(r)
<1> DEFINE n == Len(cached)
           prev == IF n = 0 THEN NoHash ELSE c.hash[cached[n]]
           keys == DeriveChunkKeys(prev, Prompt[r], n)
           M == {m \in 0 .. Len(keys) :
                   \A i \in 1 .. m : \/ keys[i] \in DOMAIN c.index
                                     \/ Lookup(c.cpu, keys[i]) = "hit"}
           u == ReloadablePrefixEnd(c, r, cached)
<1>1. n \in Nat /\ PromptLen(r) \in Nat /\ n <= PromptLen(r) /\ Prompt[r] \in Seq(Tokens)
      /\ PromptLen(r) = Len(Prompt[r])
  BY PromptIs
<1>2. Len(keys) = PromptLen(r) - n
  <2>1. c.hash \in [Blocks -> Keys] BY DEF CacheOk, GpuOk
  <2>2. prev \in Keys
    <3>1. CASE n = 0 BY <3>1 DEF NoHash, Keys
    <3>2. CASE n # 0
      <4>1. cached[n] \in Blocks BY <1>1, <3>2
      <4> QED BY <2>1, <3>2, <4>1
    <3> QED BY <3>1, <3>2
  <2>3. n <= Len(Prompt[r]) BY <1>1
  <2> HIDE DEF prev, n
  <2>4. Len(keys) = Len(Prompt[r]) - n BY <1>1, <2>2, <2>3, ChunksAre
  <2> QED BY <1>1, <2>4
<1>3. u = IF c.owned[r] # <<>> THEN n ELSE n + Max(M)
  BY DEF ReloadablePrefixEnd
<1> HIDE DEF keys, n, u
<1>4. Len(keys) \in Nat BY <1>1, <1>2
<1>5. Max(M) \in 0 .. Len(keys)
  <2>1. 1 .. 0 = {} /\ 0 \in 0 .. Len(keys) BY <1>4
  <2>2. 0 \in M BY <2>1
  <2>3. M \subseteq 0 .. Len(keys) /\ M # {} BY <2>2
  <2> HIDE DEF M
  <2> QED BY <1>4, <2>3, MaxIn
<1> HIDE DEF M
<1>6. u \in Nat /\ u <= PromptLen(r)
  <2>1. CASE c.owned[r] # <<>> BY <1>1, <1>3, <2>1
  <2>2. CASE c.owned[r] = <<>>
    <3>1. u = n + Max(M) BY <1>3, <2>2
    <3> QED BY <1>1, <1>2, <1>5, <3>1
  <2> QED BY <2>1, <2>2
<1> QED BY <1>6 DEF u

------------------------------
(* Write-through. *)

(* A change of the CPU tier alone. *)
LEMMA CpuOnly ==
  ASSUME NEW c, CacheOk(kind, c), NEW q, TransferOk(kind, q, c.secondary, c.station)
  PROVE  KeptHeld(c, [c EXCEPT !.cpu = q])
<1> DEFINE u == [c EXCEPT !.cpu = q]
<1>1. CacheShape(c) BY DEF CacheOk
<1>2. /\ CacheShape(u) /\ SameGpu(c, u) /\ u.cpu = q /\ u.secondary = c.secondary
      /\ u.station = c.station /\ u.deferred = c.deferred
  BY <1>1 DEF CacheShape, SameGpu
<1> HIDE DEF u
<1>3. KeptHeld(c, u) BY <1>2 DEF CacheOk, SameGpu, KeptHeld
<1> QED BY <1>3 DEF u

\* Block k is on its way to the first n tiers.
SentTo(k, c, n, x) ==
  /\ CacheShape(x) /\ SameGpu(c, x)
  /\ x.secondary = c.secondary /\ x.deferred = c.deferred
  /\ TransferBut(kind, x.cpu, c.secondary, x.station, k, n)
  /\ k \in DOMAIN x.cpu.ref /\ x.cpu.ref[k] >= 0
SendOp(k, x, t) ==
  [x EXCEPT !.cpu = Pin(@, k), !.station[t] = Submit(@, Job("write", <<k>>))]
Sending == INSTANCE Folding WITH Op <- SendOp, P <- SentTo

(* One more tier is sent the block. *)
LEMMA SendOpKeeps ==
  ASSUME kind # "tiered", NEW c, NEW k \in Keys, NEW n \in Tiers, NEW x, SentTo(k, c, n - 1, x)
  PROVE  SentTo(k, c, n, SendOp(k, x, n))
<1> DEFINE p == Pin(x.cpu, k)
           v == [x.station EXCEPT ![n] = Submit(@, Job("write", <<k>>))]
           u == SendOp(k, x, n)
<1>1. /\ CacheShape(u) /\ SameGpu(x, u) /\ u.cpu = p /\ u.station = v
      /\ u.secondary = x.secondary /\ u.deferred = x.deferred
  BY DEF SendOp, SentTo, CacheShape, SameGpu
<1>2. TransferBut(kind, p, c.secondary, v, k, n) /\ k \in DOMAIN p.ref /\ p.ref[k] >= 0
  <2>1. TransferBut(kind, x.cpu, c.secondary, x.station, k, n - 1) BY DEF SentTo
  <2>2. k \in DOMAIN x.cpu.ref /\ x.cpu.ref[k] >= 0 BY DEF SentTo
  <2> QED BY <2>1, <2>2, SendKeeps
<1> HIDE DEF p, v, u
<1>3. SameGpu(c, u) /\ u.secondary = c.secondary /\ u.deferred = c.deferred
  BY <1>1 DEF SentTo, SameGpu
<1>4. SentTo(k, c, n, u) BY <1>1, <1>2, <1>3 DEF SentTo
<1> QED BY <1>4 DEF u

(* A new block is sent to every tier. *)
LEMMA CascadeKeeps ==
  ASSUME kind # "tiered", NEW k \in Keys, NEW c, SentTo(k, c, 0, c),
         GpuOk(c.free, c.hash, c.index, c.owned), DeferOk(kind, c.deferred, c.secondary)
  PROVE  KeptHeld(c, Cascade(c, k))
<1> DEFINE s == IF HasStation THEN [t \in Tiers |-> t] ELSE <<>>
           n == IF HasStation THEN NumTiers ELSE 0
           u == Cascade(c, k)
<1>1. n \in Nat /\ DOMAIN s = 1 .. n /\ (HasStation => n = NumTiers)
  <2>1. CASE HasStation BY <2>1, OffloadAssumption DEF Tiers
  <2>2. CASE ~HasStation
    <3>1. s = <<>> /\ n = 0 BY <2>2
    <3> QED BY <2>2, <3>1
  <2> QED BY <2>1, <2>2
<1>2. \A j \in 1 .. n : s[j] = j /\ j \in Tiers BY DEF Tiers
<1> HIDE DEF s, n
<1>3. \A j \in 1 .. n : \A x : SentTo(k, c, j - 1, x) => SentTo(k, c, j, SendOp(k, x, s[j]))
  BY <1>2, SendOpKeeps
<1>4. SentTo(k, c, n, Sending!Folded(k, c, s)) BY <1>1, <1>3, Sending!Loop
<1>5. Sending!Folded(k, c, s) = u
  BY DEF Sending!Folded, SendOp, Cascade, s, FoldLeft, MapThenFoldSet,
         Sending!FoldLeft, Sending!MapThenFoldSet, Sending!Max, Max
<1> HIDE DEF u
<1>6. SentTo(k, c, n, u) BY <1>4, <1>5
<1>7. TransferOk(kind, u.cpu, c.secondary, u.station)
  <2>1. TransferBut(kind, u.cpu, c.secondary, u.station, k, n) BY <1>6 DEF SentTo
  <2>2. Station(kind) => n = NumTiers BY <1>1 DEF Station, HasStation
  <2> QED BY <2>1, <2>2, AllTiersSent
<1>8. KeptHeld(c, u) BY <1>6, <1>7 DEF SentTo, CacheOk, SameGpu, KeptHeld
<1> QED BY <1>8 DEF u

(* MirrorToCPU for one block. *)
LEMMA MirrorKeyKeeps ==
  ASSUME NEW c, CacheOk(kind, c), NEW k \in Keys
  PROVE  KeptHeld(c, MirrorKey(c, k))
<1> DEFINE t == c.cpu
<1>1. /\ TransferOk(kind, t, c.secondary, c.station) /\ CPUOk(t) /\ CacheShape(c)
      /\ GpuOk(c.free, c.hash, c.index, c.owned) /\ DeferOk(kind, c.deferred, c.secondary)
  BY DEF CacheOk, TransferOk
<1>2. CASE k = NoHash BY <1>2 DEF MirrorKey, KeptHeld
<1>3. CASE k # NoHash /\ kind = "tiered"
  <2> DEFINE q == IF Lookup(t, k) = "hit" THEN TieredTouch(t, k) ELSE TieredStore(t, k)
             u == [c EXCEPT !.cpu = q]
  <2>1. \A x \in DOMAIN t.ref : t.ref[x] = 0 BY <1>1, <1>3 DEF TransferOk
  <2>2. MirrorKey(c, k) = u
    <3>1. MirrorKey(c, k)
            = [c EXCEPT !.cpu = IF Lookup(@, k) = "hit" THEN TieredTouch(@, k)
                                ELSE TieredStore(@, k)]
      BY <1>3 DEF MirrorKey
    <3> QED BY <1>1, <3>1 DEF CacheShape
  <2>3. TransferOk(kind, q, c.secondary, c.station)
    <3>1. CASE k \in DOMAIN t.ref
      <4>1. Lookup(t, k) = "hit" BY <2>1, <3>1 DEF Lookup
      <4>2. CPUOk(TieredTouch(t, k)) /\ TieredTouch(t, k).ref = t.ref
        BY <1>1, <2>1, TieredTouchKeeps
      <4>3. q = TieredTouch(t, k) BY <4>1
      <4> HIDE DEF t, q
      <4>4. CPUOk(q) /\ q.ref = t.ref BY <4>2, <4>3
      <4> QED BY <1>1, <4>4, SameRefKeeps
    <3>2. CASE k \notin DOMAIN t.ref
      <4>1. Lookup(t, k) = "miss" BY <3>2 DEF Lookup
      <4>2. CPUOk(TieredStore(t, k)) /\ Stored(t, TieredStore(t, k), k)
        BY <1>1, <2>1, <3>2, TieredStoreKeeps
      <4>3. q = TieredStore(t, k) BY <4>1
      <4> HIDE DEF t, q
      <4>4. CPUOk(q) /\ Stored(t, q, k) BY <4>2, <4>3
      <4>5. TransferBut(kind, q, c.secondary, c.station, k, 0)
        BY <1>1, <3>2, <4>4, StoredUnsent
      <4>6. ~Station(kind) BY <1>3 DEF Station
      <4> QED BY <4>5, <4>6, AllTiersSent
    <3> QED BY <3>1, <3>2
  <2> HIDE DEF q
  <2>4. KeptHeld(c, u) BY <2>3, CpuOnly
  <2> QED BY <2>2, <2>4
<1>4. CASE k # NoHash /\ kind # "tiered" /\ Lookup(t, k) # "miss"
  <2> DEFINE q == TouchKey(t, k)
             u == [c EXCEPT !.cpu = q]
  <2>1. MirrorKey(c, k) = u
    <3>1. MirrorKey(c, k) = [c EXCEPT !.cpu = TouchKey(@, k)] BY <1>4 DEF MirrorKey
    <3> QED BY <1>1, <3>1 DEF CacheShape
  <2>2. CPUOk(q) /\ q.ref = t.ref BY <1>1, TouchKeyKeeps
  <2> HIDE DEF q
  <2>3. TransferOk(kind, q, c.secondary, c.station) BY <1>1, <2>2, SameRefKeeps
  <2>4. KeptHeld(c, u) BY <2>3, CpuOnly
  <2> QED BY <2>1, <2>4
<1>5. CASE k # NoHash /\ kind # "tiered" /\ Lookup(t, k) = "miss" /\ ~CanStore(t)
  BY <1>5 DEF MirrorKey, KeptHeld
<1>6. CASE k # NoHash /\ kind # "tiered" /\ Lookup(t, k) = "miss" /\ CanStore(t)
  <2> DEFINE q == Store(t, k)
             x == [c EXCEPT !.cpu = q]
  <2>1. MirrorKey(c, k) = Cascade(x, k)
    <3>1. MirrorKey(c, k) = Cascade([c EXCEPT !.cpu = Store(@, k)], k)
      BY <1>6 DEF MirrorKey
    <3> QED BY <1>1, <3>1 DEF CacheShape
  <2>2. k \notin DOMAIN t.ref BY <1>6 DEF Lookup
  <2>3. CPUOk(q) /\ Stored(t, q, k) BY <1>1, <1>6, <2>2, StoreKeeps
  <2> HIDE DEF q
  <2>4. TransferBut(kind, q, c.secondary, c.station, k, 0)
    BY <1>1, <2>2, <2>3, StoredUnsent
  <2>5. k \in DOMAIN q.ref /\ q.ref[k] >= 0 BY <2>3 DEF Stored
  <2>6. /\ CacheShape(x) /\ SameGpu(c, x) /\ x.cpu = q /\ x.station = c.station
        /\ x.secondary = c.secondary /\ x.deferred = c.deferred
    BY <1>1 DEF CacheShape, SameGpu
  <2> HIDE DEF x, t
  <2>7. SentTo(k, x, 0, x)
    <3>1. SameGpu(x, x) BY DEF SameGpu
    <3> QED BY <2>4, <2>5, <2>6, <3>1 DEF SentTo
  <2>8. GpuOk(x.free, x.hash, x.index, x.owned) /\ DeferOk(kind, x.deferred, x.secondary)
    BY <1>1, <2>6 DEF SameGpu
  <2>9. KeptHeld(x, Cascade(x, k)) BY <1>6, <2>7, <2>8, CascadeKeeps
  <2> QED BY <2>1, <2>6, <2>9 DEF KeptHeld, SameGpu
<1> QED BY <1>2, <1>3, <1>4, <1>5, <1>6

(* MirrorToCPU, over the blocks of a request and over the batch. *)
BlockOp(a, x, b) == MirrorKey(x, x.hash[b])
BlockKept(a, c, k, x) == KeptHeld(c, x)
PerBlock == INSTANCE Folding WITH Op <- BlockOp, P <- BlockKept
BatchOp(a, x, r) == MirrorRequest(x, r)
BatchKept(a, c, k, x) == KeptHeld(c, x)
PerRequest == INSTANCE Folding WITH Op <- BatchOp, P <- BatchKept

(* The blocks of one request. *)
LEMMA MirrorRequestKeeps ==
  ASSUME NEW c, CacheOk(kind, c), NEW r \in Requests
  PROVE  KeptHeld(c, MirrorRequest(c, r))
<1> DEFINE upTo == Min({PromptLen(r), Len(c.owned[r])})
           s == SubSeq(c.owned[r], 1, upTo)
           n == Len(s)
<1>1. c.owned[r] \in Seq(Blocks) BY DEF CacheOk, GpuOk
<1>2. upTo \in Nat /\ upTo <= Len(c.owned[r])
  <2> DEFINE S == {PromptLen(r), Len(c.owned[r])}
  <2>1. PromptLen(r) \in Nat BY PromptIs
  <2>2. S \subseteq Nat /\ S # {} /\ Len(c.owned[r]) \in S BY <1>1, <2>1
  <2>3. Min(S) \in S /\ Min(S) <= Len(c.owned[r])
    <3> HIDE DEF S
    <3> QED BY <2>2, MinIn
  <2> QED BY <2>2, <2>3
<1>3. s \in Seq(Blocks)
  <2> HIDE DEF upTo
  <2>1. 1 \in Nat \ {0} OBVIOUS
  <2> QED BY <1>1, <1>2, <2>1, SubSeqIs
<1> HIDE DEF s
<1>4. n \in Nat /\ DOMAIN s = 1 .. n /\ \A k \in 1 .. n : s[k] \in Blocks
  BY <1>3
<1>5. BlockKept(0, c, 0, c) BY DEF BlockKept, KeptHeld
<1> HIDE DEF n
<1>6. ASSUME NEW x, NEW b \in Blocks, KeptHeld(c, x) PROVE KeptHeld(c, MirrorKey(x, x.hash[b]))
  <2> DEFINE h == x.hash[b]
  <2>1. CacheOk(kind, x) BY <1>6 DEF KeptHeld
  <2>2. h \in Keys BY <2>1 DEF CacheOk, GpuOk
  <2> HIDE DEF h
  <2>3. KeptHeld(x, MirrorKey(x, h)) BY <2>1, <2>2, MirrorKeyKeeps
  <2> QED BY <1>6, <2>3 DEF KeptHeld, h
<1>7. \A k \in 1 .. n : \A x : BlockKept(0, c, k - 1, x) => BlockKept(0, c, k, BlockOp(0, x, s[k]))
  BY <1>4, <1>6 DEF BlockKept, BlockOp
<1>8. BlockKept(0, c, n, PerBlock!Folded(0, c, s))
  BY <1>4, <1>5, <1>7, PerBlock!Loop
<1>9. PerBlock!Folded(0, c, s) = MirrorRequest(c, r)
  BY DEF PerBlock!Folded, BlockOp, MirrorRequest, s, upTo, FoldLeft, MapThenFoldSet,
         PerBlock!FoldLeft, PerBlock!MapThenFoldSet, PerBlock!Max, Max
<1> QED BY <1>8, <1>9 DEF BlockKept

(* The requests of the batch. *)
LEMMA MirrorKeeps ==
  ASSUME NEW c, CacheOk(kind, c), NEW batch \in Seq(Requests)
  PROVE  KeptHeld(c, MirrorToCPU(c, batch))
<1> DEFINE n == Len(batch)
<1>1. n \in Nat /\ DOMAIN batch = 1 .. n /\ \A k \in 1 .. n : batch[k] \in Requests
  OBVIOUS
<1>2. BatchKept(0, c, 0, c) BY DEF BatchKept, KeptHeld
<1> HIDE DEF n
<1>3. ASSUME NEW x, NEW r \in Requests, KeptHeld(c, x) PROVE KeptHeld(c, MirrorRequest(x, r))
  <2>1. CacheOk(kind, x) BY <1>3 DEF KeptHeld
  <2>2. KeptHeld(x, MirrorRequest(x, r)) BY <2>1, MirrorRequestKeeps
  <2> QED BY <1>3, <2>2 DEF KeptHeld
<1>4. \A k \in 1 .. n : \A x :
        BatchKept(0, c, k - 1, x) => BatchKept(0, c, k, BatchOp(0, x, batch[k]))
  BY <1>1, <1>3 DEF BatchKept, BatchOp
<1>5. BatchKept(0, c, n, PerRequest!Folded(0, c, batch))
  BY <1>1, <1>2, <1>4, PerRequest!Loop
<1>6. PerRequest!Folded(0, c, batch) = MirrorToCPU(c, batch)
  BY DEF PerRequest!Folded, BatchOp, MirrorToCPU, FoldLeft, MapThenFoldSet,
         PerRequest!FoldLeft, PerRequest!MapThenFoldSet, PerRequest!Max, Max
<1> QED BY <1>5, <1>6 DEF BatchKept

------------------------------
(* Transfers that land. *)

(* completeStore, over the keys of a job. *)
ReadyOp(a, x, k) == CompleteStore(x, k)
ReadyKept(a, w, n, x) == CPUOk(x) /\ Completed(w.cpu, x, {w.keys[i] : i \in 1 .. n})
Readying == INSTANCE Folding WITH Op <- ReadyOp, P <- ReadyKept

(* The slots of a promotion become blocks. *)
LEMMA ReadyAll ==
  ASSUME NEW t, CPUOk(t), NEW keys \in Seq(Keys)
  PROVE  LET u == FoldLeft(CompleteStore, t, keys)
         IN  CPUOk(u) /\ Completed(t, u, ToSet(keys))
<1> DEFINE n == Len(keys)
           w == [cpu |-> t, keys |-> keys]
           upTo(k) == {keys[i] : i \in 1 .. k}
<1>1. n \in Nat /\ DOMAIN keys = 1 .. n OBVIOUS
<1>2. w.cpu = t /\ w.keys = keys OBVIOUS
<1> HIDE DEF w, n
<1>3. ReadyKept(0, w, 0, t)
  <2>1. {w.keys[i] : i \in 1 .. 0} = {} OBVIOUS
  <2> QED BY <1>2, <2>1 DEF ReadyKept, Completed
<1>4. \A k \in 1 .. n : \A x : ReadyKept(0, w, k - 1, x)
                               => ReadyKept(0, w, k, ReadyOp(0, x, keys[k]))
  <2> SUFFICES ASSUME NEW k \in 1 .. n, NEW x, ReadyKept(0, w, k - 1, x)
               PROVE  ReadyKept(0, w, k, CompleteStore(x, keys[k]))
    BY DEF ReadyOp
  <2> DEFINE u == CompleteStore(x, keys[k])
  <2>1. CPUOk(x) /\ Completed(t, x, upTo(k - 1)) BY <1>2 DEF ReadyKept
  <2>2. /\ CPUOk(u) /\ DOMAIN u.ref = DOMAIN x.ref
        /\ \A y \in DOMAIN x.ref :
             u.ref[y] = IF y = keys[k] /\ x.ref[y] = -1 THEN 0 ELSE x.ref[y]
    BY <2>1, CompleteKeeps
  <2>3. upTo(k) = upTo(k - 1) \cup {keys[k]}
    <3>1. k \in Nat /\ k # 0 BY <1>1
    <3>2. 1 .. k = (1 .. k - 1) \cup {k} BY <3>1
    <3> QED BY <3>2
  <2> HIDE DEF u, upTo
  <2>4. \A y \in DOMAIN t.ref :
          u.ref[y] = IF y \in upTo(k) /\ t.ref[y] = -1 THEN 0 ELSE t.ref[y]
    <3> TAKE y \in DOMAIN t.ref
    <3>1. x.ref[y] = IF y \in upTo(k - 1) /\ t.ref[y] = -1 THEN 0 ELSE t.ref[y]
      BY <2>1 DEF Completed
    <3>2. u.ref[y] = IF y = keys[k] /\ x.ref[y] = -1 THEN 0 ELSE x.ref[y]
      BY <2>1, <2>2 DEF Completed
    <3> QED BY <2>3, <3>1, <3>2
  <2>5. Completed(t, u, upTo(k)) BY <2>1, <2>2, <2>4 DEF Completed
  <2> QED BY <1>2, <2>2, <2>5 DEF ReadyKept, u, upTo
<1>5. ReadyKept(0, w, n, Readying!Folded(0, t, keys))
  BY <1>1, <1>3, <1>4, Readying!Loop
<1>6. Readying!Folded(0, t, keys) = FoldLeft(CompleteStore, t, keys)
  BY DEF Readying!Folded, ReadyOp, FoldLeft, MapThenFoldSet,
         Readying!FoldLeft, Readying!MapThenFoldSet, Readying!Max, Max
<1>7. {keys[i] : i \in 1 .. n} = ToSet(keys) BY <1>1 DEF ToSet
<1> QED BY <1>2, <1>5, <1>6, <1>7 DEF ReadyKept

(* unpin, for the one block of a write job. *)
UnpinOp(a, x, k) == Unpin(x, k)
UnpinKept(a, w, n, x) == x = IF n = 0 THEN w.cpu ELSE Unpin(w.cpu, w.k)
Unpinning == INSTANCE Folding WITH Op <- UnpinOp, P <- UnpinKept

(* A write job that lands unpins its block once. *)
LEMMA UnpinOne ==
  ASSUME NEW t, NEW keys \in Seq(Keys), Len(keys) = 1
  PROVE  ToSet(keys) = {keys[1]} /\ FoldLeft(Unpin, t, keys) = Unpin(t, keys[1])
<1> DEFINE w == [cpu |-> t, k |-> keys[1]]
<1>1. DOMAIN keys = 1 .. 1 /\ 1 .. 1 = {1} OBVIOUS
<1>2. w.cpu = t /\ w.k = keys[1] OBVIOUS
<1> HIDE DEF w
<1>3. UnpinKept(0, w, 0, t) BY <1>2 DEF UnpinKept
<1>4. \A k \in 1 .. 1 : \A x : UnpinKept(0, w, k - 1, x)
                               => UnpinKept(0, w, k, UnpinOp(0, x, keys[k]))
  <2> SUFFICES ASSUME NEW x, UnpinKept(0, w, 0, x)
               PROVE  UnpinKept(0, w, 1, UnpinOp(0, x, keys[1]))
    BY <1>1
  <2> QED BY <1>2 DEF UnpinKept, UnpinOp
<1>5. UnpinKept(0, w, 1, Unpinning!Folded(0, t, keys))
  <2>1. 1 \in Nat /\ DOMAIN keys = 1 .. 1 BY <1>1
  <2> QED BY <1>3, <1>4, <2>1, Unpinning!Loop
<1>6. Unpinning!Folded(0, t, keys) = FoldLeft(Unpin, t, keys)
  BY DEF Unpinning!Folded, UnpinOp, FoldLeft, MapThenFoldSet,
         Unpinning!FoldLeft, Unpinning!MapThenFoldSet, Unpinning!Max, Max
<1>7. ToSet(keys) = {keys[1]} BY <1>1 DEF ToSet
<1>8. Unpinning!Folded(0, t, keys) = Unpin(t, keys[1])
  <2>1. 1 # 0 OBVIOUS
  <2>2. Unpinning!Folded(0, t, keys) = Unpin(w.cpu, w.k) BY <1>5, <2>1 DEF UnpinKept
  <2> QED BY <1>2, <2>2
<1> QED BY <1>6, <1>7, <1>8

------------------------------
(* Completions. *)

(* What processCompletions keeps: those it has not come to and those that  *)
(* are not complete still hold their blocks, and nobody else does.         *)
CompleteOp(at, x, r) == CompleteRequest(at, x, r)
CompleteKept(at, w, k, x) ==
  /\ DOMAIN x = {"kv", "remaining"} /\ CacheOk(kind, x.kv)
  /\ x.remaining \in Seq(Requests) /\ IsInjective(x.remaining)
  /\ ToSet(x.remaining) \subseteq {w.batch[i] : i \in 1 .. k}
  /\ \A q \in Requests : x.kv.owned[q] # <<>> =>
       q \in w.queued \cup ToSet(x.remaining) \cup {w.batch[i] : i \in k + 1 .. w.n}
Completing == INSTANCE Folding WITH Op <- CompleteOp, P <- CompleteKept

(* A completed request stores its last token if that fits, and leaves. *)
LEMMA LeaveKeeps ==
  ASSUME NEW c, CacheOk(kind, c), NEW r \in Requests, NEW at \in Nat,
         at >= CompletionProgress(r)
  PROVE  LET u == ReleaseKVBlocks(StoreLastToken(c, r, at), r)
         IN  CacheOk(kind, u) /\ OwnedBut(c, u, r) /\ u.owned[r] = <<>>
<1> DEFINE g == AllocateKVBlocks(c, r, FALSE, at, at + 1, <<>>)
           u == ReleaseKVBlocks(g.c, r)
<1>1. ArgsOk(r, FALSE, at, at + 1, <<>>)
  <2>1. PromptLen(r) \in Nat /\ OutputLen[r] \in Nat \ {0}
    BY PromptIs, OffloadAssumption
  <2>2. at >= PromptLen(r)
    <3>1. at >= PromptLen(r) + OutputLen[r] - 1 BY DEF CompletionProgress
    <3> QED BY <2>1, <3>1
  <2>3. <<>> \in Seq(Blocks) /\ Len(<<>>) <= PromptLen(r) /\ at + 1 \in Nat
    BY <2>1
  <2> QED BY <2>2, <2>3 DEF ArgsOk
<1>2. GivenOk(c, g, r) BY <1>1, AllocateGives
<1> HIDE DEF g
<1>3. CacheOk(kind, g.c) /\ OwnedBut(c, g.c, r) BY <1>2 DEF GivenOk
<1>4. CacheOk(kind, u) /\ OwnedBut(g.c, u, r) /\ u.owned[r] = <<>>
  BY <1>3, ReleaseKeeps
<1>5. StoreLastToken(c, r, at) = g.c BY DEF StoreLastToken, g
<1> HIDE DEF u
<1>6. OwnedBut(c, u, r) BY <1>3, <1>4 DEF OwnedBut
<1> QED BY <1>4, <1>5, <1>6 DEF u

(* One request of the batch. *)
LEMMA CompleteOneKeeps ==
  ASSUME NEW at \in [Requests -> Nat], NEW w, w.batch \in Seq(Requests), IsInjective(w.batch),
         w.n = Len(w.batch), NEW k \in 1 .. w.n, NEW x, CompleteKept(at, w, k - 1, x)
  PROVE  CompleteKept(at, w, k, CompleteRequest(at, x, w.batch[k]))
<1> DEFINE b == w.batch
           n == w.n
           r == b[k]
           done(m) == {b[i] : i \in 1 .. m}
           left(m) == {b[i] : i \in m + 1 .. n}
           u == CompleteRequest(at, x, r)
<1>1. /\ n \in Nat /\ k \in Nat /\ k # 0 /\ k <= n /\ r \in Requests
      /\ at[r] \in Nat
  OBVIOUS
<1>2. /\ DOMAIN x = {"kv", "remaining"} /\ CacheOk(kind, x.kv)
      /\ x.remaining \in Seq(Requests) /\ IsInjective(x.remaining)
      /\ ToSet(x.remaining) \subseteq done(k - 1)
      /\ \A q \in Requests : x.kv.owned[q] # <<>> =>
           q \in w.queued \cup ToSet(x.remaining) \cup left(k - 1)
  BY DEF CompleteKept
<1>3. done(k) = done(k - 1) \cup {r}
  <2>1. 1 .. k = (1 .. k - 1) \cup {k} BY <1>1
  <2> QED BY <2>1
<1>4. left(k - 1) = left(k) \cup {r}
  <2>1. (k - 1) + 1 = k BY <1>1
  <2>2. k .. n = {k} \cup (k + 1 .. n) BY <1>1
  <2> QED BY <2>1, <2>2
<1>5. r \notin done(k - 1)
  <2>1. \A i \in 1 .. k - 1 : i \in DOMAIN b /\ i # k BY <1>1
  <2>2. k \in DOMAIN b BY <1>1
  <2> QED BY <2>1, <2>2 DEF IsInjective
<1> HIDE DEF done, left, r, u
<1>6. CASE at[r] >= CompletionProgress(r)
  <2> DEFINE v == ReleaseKVBlocks(StoreLastToken(x.kv, r, at[r]), r)
  <2>1. CacheOk(kind, v) /\ OwnedBut(x.kv, v, r) /\ v.owned[r] = <<>>
    BY <1>1, <1>2, <1>6, LeaveKeeps
  <2>2. u = [x EXCEPT !.kv = v]
    <3>1. u = [x EXCEPT !.kv = ReleaseKVBlocks(StoreLastToken(@, r, at[r]), r)]
      BY <1>6 DEF CompleteRequest, u
    <3> QED BY <1>2, <3>1
  <2> HIDE DEF v
  <2>3. DOMAIN u = {"kv", "remaining"} /\ u.kv = v /\ u.remaining = x.remaining
    BY <1>2, <2>2
  <2>4. ToSet(u.remaining) \subseteq done(k) BY <1>2, <1>3, <2>3
  <2>5. \A q \in Requests : u.kv.owned[q] # <<>> =>
          q \in w.queued \cup ToSet(u.remaining) \cup left(k)
    <3> TAKE q \in Requests
    <3>1. CASE q = r BY <2>1, <2>3, <3>1
    <3>2. CASE q # r
      <4>1. u.kv.owned[q] = x.kv.owned[q] BY <2>1, <2>3, <3>2 DEF OwnedBut
      <4> QED BY <1>2, <1>4, <2>3, <3>2, <4>1
    <3> QED BY <3>1, <3>2
  <2>6. CompleteKept(at, w, k, u)
    BY <1>2, <2>1, <2>3, <2>4, <2>5 DEF CompleteKept, done, left
  <2> QED BY <2>6 DEF u, r
<1>7. CASE ~(at[r] >= CompletionProgress(r))
  <2> DEFINE s == x.remaining
             v == Append(s, r)
  <2>1. /\ v \in Seq(Requests) /\ ToSet(v) = ToSet(s) \cup {r} /\ IsInjective(v)
    <3>1. s \in Seq(Requests) /\ IsInjective(s) /\ r \notin ToSet(s) BY <1>2, <1>5
    <3> HIDE DEF s
    <3> QED BY <1>1, <3>1, AppendIs
  <2>2. u = [x EXCEPT !.remaining = v]
    <3>1. u = [x EXCEPT !.remaining = Append(@, r)] BY <1>7 DEF CompleteRequest, u
    <3> QED BY <1>2, <3>1
  <2> HIDE DEF v
  <2>3. DOMAIN u = {"kv", "remaining"} /\ u.kv = x.kv /\ u.remaining = v
    BY <1>2, <2>2
  <2>4. ToSet(u.remaining) \subseteq done(k) BY <1>2, <1>3, <2>1, <2>3
  <2>5. \A q \in Requests : u.kv.owned[q] # <<>> =>
          q \in w.queued \cup ToSet(u.remaining) \cup left(k)
    BY <1>2, <1>4, <2>1, <2>3
  <2>6. CompleteKept(at, w, k, u)
    BY <1>2, <2>1, <2>3, <2>4, <2>5 DEF CompleteKept, done, left
  <2> QED BY <2>6 DEF u, r
<1> QED BY <1>6, <1>7

(* All the completions of a step. *)
LEMMA CompletionsKeep ==
  ASSUME NEW at \in [Requests -> Nat], NEW batch \in Seq(Requests), IsInjective(batch),
         NEW c, CacheOk(kind, c), NEW Q,
         \A q \in Requests : c.owned[q] # <<>> => q \in Q \cup ToSet(batch)
  PROVE  LET end == Completions(at, c, batch)
         IN  /\ CacheOk(kind, end.kv)
             /\ end.remaining \in Seq(Requests) /\ IsInjective(end.remaining)
             /\ ToSet(end.remaining) \subseteq ToSet(batch)
             /\ \A q \in Requests : end.kv.owned[q] # <<>> => q \in Q \cup ToSet(end.remaining)
<1> DEFINE n == Len(batch)
           w == [batch |-> batch, queued |-> Q, n |-> n]
           base == [kv |-> c, remaining |-> <<>>]
           end == Completions(at, c, batch)
<1>1. n \in Nat /\ DOMAIN batch = 1 .. n OBVIOUS
<1>2. w.batch = batch /\ w.queued = Q /\ w.n = n OBVIOUS
<1> HIDE DEF w
<1>3. ToSet(batch) = {batch[i] : i \in 1 .. n} BY <1>1 DEF ToSet
<1>4. CompleteKept(at, w, 0, base)
  <2>1. base.remaining = <<>> /\ base.kv = c /\ DOMAIN base = {"kv", "remaining"} OBVIOUS
  <2>2. <<>> \in Seq(Requests) /\ IsInjective(<<>>) /\ ToSet(<<>>) = {}
    BY DEF IsInjective, ToSet
  <2>3. 0 + 1 = 1 OBVIOUS
  <2> HIDE DEF base, n
  <2> QED BY <1>2, <1>3, <2>1, <2>2, <2>3 DEF CompleteKept
<1>5. \A k \in 1 .. n : \A x : CompleteKept(at, w, k - 1, x)
                               => CompleteKept(at, w, k, CompleteOp(at, x, batch[k]))
  <2> SUFFICES ASSUME NEW k \in 1 .. n, NEW x, CompleteKept(at, w, k - 1, x)
               PROVE  CompleteKept(at, w, k, CompleteRequest(at, x, batch[k]))
    BY DEF CompleteOp
  <2>1. w.batch \in Seq(Requests) /\ IsInjective(w.batch) /\ w.n = Len(w.batch) /\ k \in 1 .. w.n
    BY <1>2
  <2> HIDE DEF n
  <2>2. CompleteKept(at, w, k, CompleteRequest(at, x, w.batch[k]))
    BY <2>1, CompleteOneKeeps
  <2> QED BY <1>2, <2>2
<1>6. CompleteKept(at, w, n, Completing!Folded(at, base, batch))
  <2> HIDE DEF base, n
  <2> QED BY <1>1, <1>4, <1>5, Completing!Loop
<1>7. Completing!Folded(at, base, batch) = end
  BY DEF Completing!Folded, CompleteOp, Completions, FoldLeft, MapThenFoldSet,
         Completing!FoldLeft, Completing!MapThenFoldSet, Completing!Max, Max
<1> HIDE DEF end
<1>8. CompleteKept(at, w, n, end) BY <1>6, <1>7
<1>9. n + 1 .. n = {} BY <1>1
<1> HIDE DEF n
<1>10. /\ CacheOk(kind, end.kv)
       /\ end.remaining \in Seq(Requests) /\ IsInjective(end.remaining)
       /\ ToSet(end.remaining) \subseteq ToSet(batch)
       /\ \A q \in Requests : end.kv.owned[q] # <<>> => q \in Q \cup ToSet(end.remaining)
  BY <1>2, <1>3, <1>8, <1>9 DEF CompleteKept
<1> QED BY <1>10 DEF end

------------------------------
(* The inductive invariant. *)

(* An empty map is a map. *)
LEMMA EmptyMap ==
  ASSUME NEW K, NEW V
  PROVE  IsMap(<<>>, K, V) /\ DOMAIN <<>> = {} /\ <<>> \in Seq(K) /\ IsInjective(<<>>)
         /\ ToSet(<<>>) = {} /\ Len(<<>>) = 0
<1>1. DOMAIN <<>> = {} /\ <<>> = [x \in {} |-> <<>>[x]] OBVIOUS
<1>2. IsMap(<<>>, K, V) BY <1>1 DEF IsMap
<1>3. IsInjective(<<>>) /\ ToSet(<<>>) = {} BY DEF IsInjective, ToSet
<1> QED BY <1>1, <1>2, <1>3

(* A new tier of the station is in order and moves nothing. *)
LEMMA NewTierOk ==
  TierOk(NewTier) /\ \A d, k : Covers(NewTier, d, k) = {}
<1>1. /\ NewTier.readQ = <<>> /\ NewTier.writeQ = <<>> /\ NewTier.active = <<>>
      /\ NewTier.freeRead = NRead /\ NewTier.freeWrite = NWrite
      /\ NewTier = [readQ |-> <<>>, writeQ |-> <<>>, active |-> <<>>,
                    freeRead |-> NRead, freeWrite |-> NWrite]
  BY DEF NewTier
<1>2. NRead \in Nat /\ NWrite \in Nat BY TierAssumption
<1>3. /\ <<>> \in Seq(Jobs) /\ DOMAIN <<>> = {} /\ Len(<<>>) = 0
      /\ <<>> \o <<>> = <<>>
  OBVIOUS
<1> DEFINE s == NewTier
<1> HIDE DEF s
<1>4. TierShape(s) BY <1>1, <1>2, <1>3 DEF TierShape, s
<1>5. ServersKept(s) /\ ServersBusy(s)
  <2>1. NRead + NWrite + 0 = NRead + NWrite BY <1>2
  <2> QED BY <1>1, <1>3, <2>1 DEF ServersKept, ServersBusy, s
<1>6. \A d, k : Covers(s, d, k) = {}
  <2>1. InFlight(s) = <<>> BY <1>1, <1>3 DEF InFlight, s
  <2> QED BY <1>3, <2>1 DEF Covers
<1> QED BY <1>4, <1>5, <1>6 DEF TierOk, s

(* A new cache is in order. *)
LEMMA EmptyOk ==
  CacheOk(kind, EmptyCache) /\ \A r \in Requests : EmptyCache.owned[r] = <<>>
<1> DEFINE c == EmptyCache
           free == [i \in 1 .. GPUBlocks |-> i]
           owned == [r \in Requests |-> <<>>]
           hash == [b \in Blocks |-> NoHash]
           cpu == NewOffloadCPUTier
           sec == [t \in Tiers |-> {}]
           stn == [t \in Tiers |-> NewTier]
<1>1. /\ CacheShape(c) /\ c.free = free /\ c.hash = hash /\ c.index = <<>>
      /\ c.owned = owned /\ c.cpu = cpu /\ c.secondary = sec /\ c.station = stn
      /\ c.deferred = <<>>
  BY DEF EmptyCache, CacheShape
<1> HIDE DEF c
<1>2. GPUBlocks \in Nat BY OffloadAssumption
<1>3. GpuOk(free, hash, <<>>, owned)
  <2>1. free \in Seq(Blocks) /\ DOMAIN free = Blocks /\ \A i \in Blocks : free[i] = i
    BY <1>2 DEF Blocks
  <2>2. IsInjective(free) /\ ToSet(free) = Blocks
    BY <2>1 DEF IsInjective, ToSet
  <2>3. hash \in [Blocks -> Keys] BY DEF NoHash, Keys
  <2>4. IsMap(<<>>, Keys, Blocks) /\ DOMAIN <<>> = {} BY EmptyMap
  <2>5. owned \in [Requests -> Seq(Blocks)] OBVIOUS
  <2>6. Used(owned) = {}
    <3>1. \A r \in Requests : ToSet(owned[r]) = {} BY EmptyMap
    <3> HIDE DEF owned
    <3> QED BY <3>1 DEF Used
  <2> HIDE DEF free, hash, owned
  <2> QED BY <2>1, <2>2, <2>3, <2>4, <2>5, <2>6 DEF GpuOk
<1>4. cpu.ref = <<>> /\ cpu.lru = <<>> /\ cpu.used = 0 /\ cpu.evictable = 0
      /\ cpu = [ref |-> <<>>, lru |-> <<>>, used |-> 0, evictable |-> 0]
  BY DEF NewOffloadCPUTier
<1> HIDE DEF cpu
<1>5. CPUOk(cpu)
  <2>1. /\ IsMap(<<>>, Keys, {-1} \cup Nat) /\ DOMAIN <<>> = {} /\ <<>> \in Seq(Keys)
        /\ IsInjective(<<>>) /\ ToSet(<<>>) = {} /\ Len(<<>>) = 0
    BY EmptyMap
  <2>2. IsFiniteSet({}) /\ Cardinality({}) = 0 BY FS_EmptySet
  <2>3. 0 <= CPUCapacity BY TierAssumption
  <2> QED BY <1>4, <2>1, <2>2, <2>3 DEF CPUOk, CPUShape
<1>6. stn = [t \in Tiers |-> stn[t]] /\ \A t \in Tiers : TierOk(stn[t])
  BY NewTierOk
<1>7. sec \in [Tiers -> SUBSET Keys] /\ \A t \in Tiers : sec[t] = {} OBVIOUS
<1>8. PinsOk(cpu, stn)
  <2>1. \A k : Writes(stn, k) = {}
    <3> TAKE k
    <3>1. \A t \in Tiers : Covers(stn[t], "write", k) = {} BY NewTierOk
    <3> HIDE DEF stn
    <3> QED BY <3>1 DEF Writes
  <2>2. DOMAIN cpu.ref = {} BY <1>4
  <2>3. Cardinality({}) = 0 BY FS_EmptySet
  <2> HIDE DEF stn
  <2> QED BY <2>1, <2>2, <2>3 DEF PinsOk, Pins
<1>9. TransferOk(kind, cpu, sec, stn)
  <2>1. DOMAIN cpu.ref = {} BY <1>4
  <2>2. Through(cpu, sec, stn)
    <3> HIDE DEF sec, stn
    <3> QED BY <1>7, <2>1 DEF Through
  <2> HIDE DEF sec, stn
  <2> QED BY <1>5, <1>6, <1>7, <1>8, <2>1, <2>2 DEF TransferOk
<1>10. DeferOk(kind, <<>>, sec)
  <2>1. DOMAIN <<>> = {} /\ <<>> = [r \in {} |-> <<>>[r]] OBVIOUS
  <2> QED BY <2>1 DEF DeferOk
<1> HIDE DEF sec, stn, free, hash
<1>11. CacheOk(kind, c)
  <2> HIDE DEF owned
  <2> QED BY <1>1, <1>3, <1>9, <1>10 DEF CacheOk
<1>12. \A r \in Requests : c.owned[r] = <<>> BY <1>1
<1> QED BY <1>11, <1>12 DEF c

(* Init. *)
LEMMA InitHolds == Init => OffloadInv
<1> SUFFICES ASSUME Init PROVE OffloadInv OBVIOUS
<1>1. kind \in Kinds /\ kv = EmptyCache BY DEF Init
<1>2. CacheOk(kind, kv) /\ \A r \in Requests : kv.owned[r] = <<>>
  BY <1>1, EmptyOk
<1>3. /\ <<>> \in Seq(Requests) /\ IsInjective(<<>>) /\ ToSet(<<>>) = {} /\ Len(<<>>) = 0
  BY EmptyMap
<1>4. QueuesOk
  <2>1. /\ waitQ = <<>> /\ running = <<>> /\ todo = <<>> /\ future = Requests
        /\ phase = "between" /\ skipped = 0
        /\ progress \in [Requests -> Nat] /\ sched \in [Requests -> Nat]
    BY DEF Init
  <2> QED BY <1>3, <2>1 DEF QueuesOk
<1> QED BY <1>1, <1>2, <1>4 DEF OffloadInv, HoldersOk

(* Holders stay holders when the queues and the blocks held stay. *)
LEMMA SameHolders ==
  ASSUME HoldersOk, kv'.owned = kv.owned,
         ToSet(waitQ) \cup ToSet(running) \subseteq ToSet(waitQ') \cup ToSet(running')
  PROVE  HoldersOk'
  BY DEF HoldersOk

(* Arrive. *)
LEMMA ArriveKeeps ==
  ASSUME OffloadInv, NEW r \in Requests, Arrive(r)
  PROVE  OffloadInv'
<1>1. /\ phase = "between" /\ r \in future /\ future' = future \ {r}
      /\ waitQ' = Append(waitQ, r)
      /\ kind' = kind /\ kv' = kv /\ running' = running /\ progress' = progress
      /\ sched' = sched /\ phase' = phase /\ todo' = todo /\ skipped' = skipped
  BY DEF Arrive
<1>2. QueuesOk /\ waitQ \in Seq(Requests) /\ IsInjective(waitQ) /\ r \notin ToSet(waitQ)
  BY <1>1 DEF OffloadInv, QueuesOk
<1>3. /\ waitQ' \in Seq(Requests) /\ IsInjective(waitQ')
      /\ ToSet(waitQ') = ToSet(waitQ) \cup {r} /\ Len(waitQ') = Len(waitQ) + 1
  BY <1>1, <1>2, AppendIs
<1>4. skipped' \in Nat /\ skipped' <= Len(waitQ') /\ skipped' = 0
  <2>1. skipped = 0 /\ Len(waitQ) \in Nat BY <1>1, <1>2 DEF QueuesOk
  <2> QED BY <1>1, <1>3, <2>1
<1>5. QueuesOk' BY <1>1, <1>2, <1>3, <1>4 DEF QueuesOk
<1>6. HoldersOk' BY <1>1, <1>3, SameHolders DEF OffloadInv
<1> QED BY <1>1, <1>5, <1>6 DEF OffloadInv

(* Withdraw. *)
LEMMA WithdrawKeeps ==
  ASSUME OffloadInv, NEW r \in Requests, Withdraw(r)
  PROVE  OffloadInv'
<1> DEFINE c == ReleaseKVBlocks(kv, r)
<1>1. /\ phase = "between" /\ kv' = ClearDeferred(c, r)
      /\ waitQ' = Without(waitQ, r) /\ running' = Without(running, r)
      /\ progress' = [progress EXCEPT ![r] = 0]
      /\ kind' = kind /\ sched' = sched /\ phase' = phase /\ todo' = todo
      /\ skipped' = skipped /\ future' = future
  BY DEF Withdraw
<1>2. /\ QueuesOk /\ waitQ \in Seq(Requests) /\ IsInjective(waitQ)
      /\ running \in Seq(Requests) /\ IsInjective(running) /\ skipped = 0
  BY <1>1 DEF OffloadInv, QueuesOk
<1>3. CacheOk(kind, kv) /\ HoldersOk BY DEF OffloadInv
<1>4. CacheOk(kind, c) /\ OwnedBut(kv, c, r) /\ c.owned[r] = <<>>
  BY <1>3, ReleaseKeeps
<1> HIDE DEF c
<1>5. KeptHeld(c, kv')
  <2> DEFINE u == ClearDeferred(c, r)
  <2>1. KeptHeld(c, u) BY <1>4, ClearKeeps
  <2> HIDE DEF u
  <2>2. kv' = u BY <1>1 DEF u
  <2> QED BY <2>1, <2>2
<1>6. /\ waitQ' \in Seq(Requests) /\ IsInjective(waitQ')
      /\ ToSet(waitQ') = ToSet(waitQ) \ {r}
  BY <1>1, <1>2, WithoutIs
<1>7. /\ running' \in Seq(Requests) /\ IsInjective(running')
      /\ ToSet(running') = ToSet(running) \ {r}
  BY <1>1, <1>2, WithoutIs
<1>8. skipped' \in Nat /\ skipped' <= Len(waitQ') /\ skipped' = 0
  <2>1. Len(waitQ') \in Nat BY <1>6
  <2> QED BY <1>1, <1>2, <2>1
<1>9. progress' \in [Requests -> Nat] BY <1>1, <1>2 DEF QueuesOk
<1>10. QueuesOk' BY <1>1, <1>2, <1>6, <1>7, <1>8, <1>9 DEF QueuesOk
<1>11. HoldersOk'
  <2> SUFFICES ASSUME NEW q \in Requests, kv'.owned[q] # <<>>
               PROVE  q \in ToSet(waitQ') \cup ToSet(running')
    BY DEF HoldersOk
  <2>1. c.owned[q] # <<>> BY <1>5 DEF KeptHeld
  <2>2. q # r BY <1>4, <2>1
  <2>3. kv.owned[q] # <<>> BY <1>4, <2>1, <2>2 DEF OwnedBut
  <2> QED BY <1>3, <1>6, <1>7, <2>2, <2>3 DEF HoldersOk
<1>12. CacheOk(kind, kv') BY <1>5 DEF KeptHeld
<1> QED BY <1>1, <1>10, <1>11, <1>12 DEF OffloadInv

(* BeginStep, StartBatch and EndScan move the step on. *)
LEMMA PhaseKeeps ==
  ASSUME OffloadInv, BeginStep \/ StartBatch \/ EndScan
  PROVE  OffloadInv'
<1>1. /\ kind' = kind /\ kv' = kv /\ waitQ' = waitQ /\ running' = running
      /\ progress' = progress /\ sched' = sched /\ skipped' = skipped /\ future' = future
      /\ \/ phase = "between" /\ phase' = "poll" /\ todo' = todo
         \/ phase = "poll" /\ phase' = "run" /\ todo' = running
         \/ phase = "wait" /\ phase' = "exec" /\ todo' = todo
  BY DEF BeginStep, StartBatch, EndScan
<1>2. QueuesOk' BY <1>1 DEF OffloadInv, QueuesOk
<1>3. HoldersOk' BY <1>1 DEF OffloadInv, HoldersOk
<1> QED BY <1>1, <1>2, <1>3 DEF OffloadInv

(* A transfer lands. *)
LEMMA LandsKeeps ==
  ASSUME OffloadInv, NEW t \in Tiers, NEW i, TransferLands(t, i)
  PROVE  OffloadInv'
<1> DEFINE j == kv.station[t].active[i]
           stn == [kv.station EXCEPT ![t] = Land(@, i)]
           c == [kv EXCEPT !.station[t] = Land(@, i)]
           p == FoldLeft(CompleteStore, kv.cpu, j.keys)
           q == FoldLeft(Unpin, kv.cpu, j.keys)
           sec == [kv.secondary EXCEPT ![t] = @ \cup ToSet(j.keys)]
<1>1. /\ HasStation /\ i \in DOMAIN kv.station[t].active
      /\ kv' = IF j.dir = "read"
               THEN [c EXCEPT !.cpu = FoldLeft(CompleteStore, @, j.keys)]
               ELSE [c EXCEPT !.cpu = FoldLeft(Unpin, @, j.keys),
                              !.secondary[t] = @ \cup ToSet(j.keys)]
      /\ UNCHANGED <<kind, schedVars>>
  BY DEF TransferLands
<1>2. /\ CacheOk(kind, kv) /\ CacheShape(kv)
      /\ GpuOk(kv.free, kv.hash, kv.index, kv.owned)
      /\ DeferOk(kind, kv.deferred, kv.secondary)
      /\ TransferOk(kind, kv.cpu, kv.secondary, kv.station)
  BY DEF OffloadInv, CacheOk
<1>3. /\ CPUOk(kv.cpu) /\ kv.station = [x \in Tiers |-> kv.station[x]]
      /\ TierOk(kv.station[t]) /\ kv.secondary \in [Tiers -> SUBSET Keys]
  BY <1>2 DEF TransferOk
<1>4. j \in Jobs /\ OneBlock(j) /\ j.keys \in Seq(Keys)
  <2>1. j \in Jobs /\ OneBlock(j) BY <1>1, <1>3, LandKeeps
  <2> QED BY <2>1 DEF Jobs
<1>5. /\ CacheShape(c) /\ SameGpu(kv, c) /\ c.cpu = kv.cpu /\ c.secondary = kv.secondary
      /\ c.station = stn /\ c.deferred = kv.deferred
  BY SMTT(60), <1>2 DEF CacheShape, SameGpu
<1> HIDE DEF c
<1>6. CASE j.dir = "read"
  <2>1. kv' = [c EXCEPT !.cpu = p] BY SMTT(60), <1>1, <1>5, <1>6 DEF CacheShape
  <2>2. CPUOk(p) /\ Completed(kv.cpu, p, ToSet(j.keys)) BY <1>3, <1>4, ReadyAll
  <2> HIDE DEF p
  <2>3. TransferOk(kind, p, kv.secondary, stn)
    BY <1>1, <1>2, <1>6, <2>2, ReadLands
  <2>4. /\ CacheShape(kv') /\ SameGpu(kv, kv') /\ kv'.cpu = p /\ kv'.secondary = kv.secondary
        /\ kv'.station = stn /\ kv'.deferred = kv.deferred
    <3> HIDE DEF stn
    <3> QED BY <1>5, <2>1 DEF CacheShape, SameGpu
  <2> HIDE DEF stn
  <2>5. CacheOk(kind, kv') /\ kv'.owned = kv.owned
    BY <1>2, <2>3, <2>4 DEF CacheOk, SameGpu
  <2> QED BY <1>1, <2>5 DEF OffloadInv, QueuesOk, HoldersOk, schedVars
<1>7. CASE j.dir # "read"
  <2>1. j.dir = "write" /\ Len(j.keys) = 1 BY <1>4, <1>7 DEF Jobs, OneBlock
  <2> DEFINE k == j.keys[1]
             v == Unpin(kv.cpu, k)
  <2>2. ToSet(j.keys) = {k} /\ q = v BY <1>4, <2>1, UnpinOne
  <2>3. /\ k \in Keys
        /\ TransferOk(kind, v, [kv.secondary EXCEPT ![t] = @ \cup {k}], stn)
    <3>1. Station(kind) BY SMTT(60), <1>1 DEF HasStation, Station
    <3> HIDE DEF k
    <3> QED BY <1>1, <1>2, <2>1, <2>2, <3>1, WriteLands
  <2>4. sec = [kv.secondary EXCEPT ![t] = @ \cup {k}] BY <2>2
  <2>5. kv' = [c EXCEPT !.cpu = q, !.secondary = sec]
    <3>1. kv' = [c EXCEPT !.cpu = FoldLeft(Unpin, @, j.keys),
                          !.secondary[t] = @ \cup ToSet(j.keys)]
      BY <1>1, <1>7
    <3> HIDE DEF j
    <3> QED BY <1>5, <3>1 DEF CacheShape
  <2> HIDE DEF k, v, q
  <2>6. TransferOk(kind, q, sec, stn) BY <2>2, <2>3, <2>4
  <2> HIDE DEF stn
  <2>7. /\ CacheShape(kv') /\ SameGpu(kv, kv') /\ kv'.cpu = q /\ kv'.secondary = sec
        /\ kv'.station = stn /\ kv'.deferred = kv.deferred
    <3> HIDE DEF sec
    <3> QED BY SMTT(60), <1>5, <2>5 DEF CacheShape, SameGpu
  <2>8. \A x \in Tiers : kv.secondary[x] \subseteq sec[x] BY <1>3
  <2> HIDE DEF sec
  <2>9. DeferOk(kind, kv.deferred, sec) BY <1>2, <2>8 DEF DeferOk, EpisodeOk
  <2>10. CacheOk(kind, kv') /\ kv'.owned = kv.owned
    BY <1>2, <2>6, <2>7, <2>9 DEF CacheOk, SameGpu
  <2> QED BY <1>1, <2>10 DEF OffloadInv, QueuesOk, HoldersOk, schedVars
<1> QED BY <1>6, <1>7

(* PollDeferred. *)
LEMMA PollStepKeeps ==
  ASSUME OffloadInv, PollDeferred
  PROVE  OffloadInv'
<1>1. /\ phase = "run" /\ phase' = "wait" /\ skipped' = 0 /\ kind' = kind
      /\ waitQ' = waitQ /\ running' = running /\ progress' = progress
      /\ sched' = sched /\ todo' = todo /\ future' = future
  BY DEF PollDeferred
<1>2. PICK late : kv' = PollAll(kv, late) BY DEF PollDeferred
<1>3. KeptHeld(kv, kv')
  <2>1. CacheOk(kind, kv) BY DEF OffloadInv
  <2> DEFINE u == PollAll(kv, late)
  <2>2. KeptHeld(kv, u) BY <2>1, PollKeeps
  <2>3. kv' = u BY <1>2
  <2> HIDE DEF u
  <2> QED BY <2>2, <2>3
<1>4. CacheOk(kind, kv') /\ kv'.owned = kv.owned BY <1>3 DEF KeptHeld
<1>5. QueuesOk'
  <2>1. Len(waitQ) \in Nat BY DEF OffloadInv, QueuesOk
  <2>2. 0 \in Nat /\ 0 <= Len(waitQ) BY <2>1
  <2> QED BY <1>1, <2>2 DEF OffloadInv, QueuesOk
<1>6. HoldersOk' BY <1>1, <1>4 DEF OffloadInv, HoldersOk
<1> QED BY <1>1, <1>4, <1>5, <1>6 DEF OffloadInv

(* ContinueNext: a chunk fits, or the last running request makes room. *)
LEMMA ContinueKeeps ==
  ASSUME OffloadInv, ContinueNext
  PROVE  OffloadInv'
<1> DEFINE r == Head(todo)
           victim == LastOf(running)
           prefill == progress[r] < PromptLen(r)
<1>1. /\ phase = "run" /\ todo # <<>> /\ phase' = phase /\ kind' = kind
      /\ skipped' = skipped /\ future' = future
  BY DEF ContinueNext
<1>2. /\ QueuesOk /\ HoldersOk /\ CacheOk(kind, kv)
      /\ waitQ \in Seq(Requests) /\ running \in Seq(Requests)
      /\ IsInjective(waitQ) /\ IsInjective(running)
      /\ ToSet(waitQ) \cap ToSet(running) = {}
      /\ (ToSet(waitQ) \cup ToSet(running)) \cap future = {}
      /\ todo \in Seq(Requests) /\ IsInjective(todo) /\ ToSet(todo) \subseteq ToSet(running)
      /\ progress \in [Requests -> Nat] /\ sched \in [Requests -> Nat]
      /\ skipped = 0
  BY <1>1 DEF OffloadInv, QueuesOk
<1>3. /\ r \in Requests /\ r \in ToSet(running)
      /\ Tail(todo) \in Seq(Requests) /\ IsInjective(Tail(todo))
      /\ ToSet(Tail(todo)) \subseteq ToSet(running)
  BY <1>1, <1>2, HeadIs
<1> HIDE DEF r
<1> DEFINE Moved(end, done) ==
      IF done.ok
      THEN /\ kv' = done.c
           /\ sched' = [sched EXCEPT ![r] = end]
           /\ todo' = Tail(todo)
           /\ waitQ' = waitQ /\ running' = running /\ progress' = progress
      ELSE /\ kv' = ReleaseKVBlocks(done.c, victim)
           /\ running' = Front(running)
           /\ waitQ' = <<victim>> \o waitQ
           /\ progress' = [progress EXCEPT ![victim] = 0]
           /\ todo' = IF victim = r THEN <<>> ELSE Without(todo, victim)
           /\ sched' = sched
<1>4. PICK end \in (IF progress[r] < PromptLen(r)
                   THEN {progress[r] + 1, PromptLen(r)} ELSE {progress[r] + 1}) :
        \E done \in {AllocateKVBlocks(kv, r, progress[r] < PromptLen(r), progress[r], end, <<>>)} : Moved(end, done)
  BY DEF ContinueNext, r
<1>4a. PICK done \in {AllocateKVBlocks(kv, r, progress[r] < PromptLen(r), progress[r], end, <<>>)} : Moved(end, done)
  BY <1>4
<1> HIDE DEF victim
<1>5. PromptLen(r) \in Nat \ {0} /\ progress[r] \in Nat BY <1>2, <1>3, PromptIs
<1>6. end \in Nat /\ (prefill => end <= PromptLen(r)) BY <1>4, <1>5
<1>7. ArgsOk(r, prefill, progress[r], end, <<>>)
  <2>1. <<>> \in Seq(Blocks) /\ Len(<<>>) <= PromptLen(r) BY <1>5
  <2>2. ~prefill => progress[r] >= PromptLen(r) BY <1>5
  <2>3. prefill \in BOOLEAN OBVIOUS
  <2> HIDE DEF prefill
  <2> QED BY <1>3, <1>5, <1>6, <2>1, <2>2, <2>3 DEF ArgsOk
<1>8. GivenOk(kv, done, r)
  <2> DEFINE g == AllocateKVBlocks(kv, r, prefill, progress[r], end, <<>>)
  <2>1. done = g BY <1>4
  <2>2. GivenOk(kv, g, r)
    <3> HIDE DEF prefill
    <3> QED BY <1>2, <1>7, AllocateGives
  <2> HIDE DEF g
  <2> QED BY <2>1, <2>2
<1> HIDE DEF prefill
<1>9. CacheOk(kind, done.c) /\ OwnedBut(kv, done.c, r) BY <1>8 DEF GivenOk
<1>10. \A q \in Requests : done.c.owned[q] # <<>> => q \in ToSet(waitQ) \cup ToSet(running)
  <2> TAKE q \in Requests
  <2>1. CASE q = r BY <1>3, <2>1
  <2>2. CASE q # r BY <1>2, <1>9, <2>2 DEF OwnedBut, HoldersOk
  <2> QED BY <2>1, <2>2
<1>11. CASE done.ok
  <2>1. /\ kv' = done.c /\ sched' = [sched EXCEPT ![r] = end] /\ todo' = Tail(todo)
        /\ waitQ' = waitQ /\ running' = running /\ progress' = progress
    BY <1>4a, <1>11
  <2>2. sched' \in [Requests -> Nat] BY <1>2, <1>6, <2>1
  <2>3. QueuesOk' BY <1>1, <1>2, <1>3, <2>1, <2>2 DEF QueuesOk
  <2>4. HoldersOk' BY <1>10, <2>1 DEF HoldersOk
  <2> QED BY <1>1, <1>9, <2>1, <2>3, <2>4 DEF OffloadInv
<1>12. CASE ~done.ok
  <2> DEFINE u == ReleaseKVBlocks(done.c, victim)
  <2>1. /\ kv' = u /\ running' = Front(running) /\ waitQ' = <<victim>> \o waitQ
        /\ progress' = [progress EXCEPT ![victim] = 0]
        /\ todo' = IF victim = r THEN <<>> ELSE Without(todo, victim)
        /\ sched' = sched
    BY <1>4a, <1>12
  <2>2. running # <<>>
    <3>1. ToSet(<<>>) = {} BY EmptyMap
    <3> QED BY <1>3, <3>1
  <2>3. /\ running' \in Seq(Requests) /\ IsInjective(running')
        /\ victim \in Requests /\ ToSet(running) = ToSet(running') \cup {victim}
        /\ ToSet(running') = ToSet(running) \ {victim}
    BY <1>2, <2>1, <2>2, FrontIs DEF victim
  <2>4. /\ waitQ' \in Seq(Requests) /\ IsInjective(waitQ')
        /\ ToSet(waitQ') = ToSet(waitQ) \cup {victim}
    <3> DEFINE s == <<victim>>
    <3>1. s \in Seq(Requests) /\ ToSet(s) = {victim} /\ IsInjective(s)
      BY <2>3 DEF ToSet, IsInjective
    <3>2. ToSet(s) \cap ToSet(waitQ) = {} BY <1>2, <2>3, <3>1
    <3>3. waitQ' = s \o waitQ BY <2>1
    <3> HIDE DEF s
    <3>4. /\ s \o waitQ \in Seq(Requests) /\ IsInjective(s \o waitQ)
          /\ ToSet(s \o waitQ) = ToSet(s) \cup ToSet(waitQ)
      BY <1>2, <3>1, <3>2, ConcatIs
    <3> QED BY <3>1, <3>3, <3>4
  <2>5. todo' \in Seq(Requests) /\ IsInjective(todo') /\ ToSet(todo') \subseteq ToSet(running')
    <3>1. CASE victim = r
      <4>1. todo' = <<>> BY <2>1, <3>1
      <4>2. <<>> \in Seq(Requests) /\ IsInjective(<<>>) /\ ToSet(<<>>) = {} BY EmptyMap
      <4> QED BY <4>1, <4>2
    <3>2. CASE victim # r
      <4>1. todo' = Without(todo, victim) BY <2>1, <3>2
      <4>2. /\ todo' \in Seq(Requests) /\ IsInjective(todo')
            /\ ToSet(todo') = ToSet(todo) \ {victim}
        BY SMTT(60), <1>2, <4>1, WithoutIs
      <4> QED BY <1>2, <2>3, <4>2
    <3> QED BY <3>1, <3>2
  <2>6. CacheOk(kind, u) /\ OwnedBut(done.c, u, victim) /\ u.owned[victim] = <<>>
    BY <1>9, <2>3, ReleaseKeeps
  <2> HIDE DEF u
  <2>7. progress' \in [Requests -> Nat] BY <1>2, <2>1
  <2>8. skipped' \in Nat /\ skipped' <= Len(waitQ') /\ skipped' = 0
    <3>1. Len(waitQ') \in Nat BY <2>4
    <3> QED BY <1>1, <1>2, <3>1
  <2>9. QueuesOk'
    <3>1. ToSet(waitQ') \cap ToSet(running') = {} BY <1>2, <2>3, <2>4
    <3>2. (ToSet(waitQ') \cup ToSet(running')) \cap future' = {}
      BY <1>1, <1>2, <2>3, <2>4
    <3>3. future \subseteq Requests BY <1>2 DEF QueuesOk
    <3> QED BY <1>1, <1>2, <2>1, <2>3, <2>4, <2>5, <2>7, <2>8, <3>1, <3>2, <3>3 DEF QueuesOk
  <2>10. HoldersOk'
    <3> SUFFICES ASSUME NEW q \in Requests, kv'.owned[q] # <<>>
                 PROVE  q \in ToSet(waitQ') \cup ToSet(running')
      BY DEF HoldersOk
    <3>1. CASE q = victim BY <2>4, <3>1
    <3>2. CASE q # victim
      <4>1. done.c.owned[q] # <<>> BY <2>1, <2>6, <3>2 DEF OwnedBut
      <4> QED BY <1>10, <2>3, <2>4, <4>1
    <3> QED BY <3>1, <3>2
  <2> QED BY <1>1, <2>1, <2>6, <2>9, <2>10 DEF OffloadInv
<1> QED BY <1>11, <1>12

(* AdmitNext: the request at the scan cursor is skipped, admitted or left. *)
LEMMA AdmitKeeps ==
  ASSUME OffloadInv, AdmitNext
  PROVE  OffloadInv'
<1> DEFINE r == waitQ[skipped + 1]
           cached == GetCachedBlocks(kv, Prompt[r])
           from == ReloadablePrefixEnd(kv, r, cached)
<1>1. /\ phase = "wait" /\ skipped < Len(waitQ) /\ kind' = kind /\ progress' = progress
      /\ todo' = todo /\ future' = future
  BY DEF AdmitNext, CanAdmit
<1>2. /\ QueuesOk /\ HoldersOk /\ CacheOk(kind, kv)
      /\ waitQ \in Seq(Requests) /\ running \in Seq(Requests)
      /\ IsInjective(waitQ) /\ IsInjective(running)
      /\ ToSet(waitQ) \cap ToSet(running) = {}
      /\ (ToSet(waitQ) \cup ToSet(running)) \cap future = {}
      /\ sched \in [Requests -> Nat] /\ skipped \in Nat
  BY <1>1 DEF OffloadInv, QueuesOk
<1>3. r \in Requests /\ r \in ToSet(waitQ)
  <2>1. skipped + 1 \in DOMAIN waitQ BY SMTT(60), <1>1, <1>2
  <2> QED BY <1>2, <2>1 DEF ToSet
<1> DEFINE Moved(end, done) ==
      IF Waiting(kv, r)
      THEN /\ skipped' = skipped + 1
           /\ kv' = kv /\ waitQ' = waitQ /\ running' = running /\ sched' = sched
           /\ phase' = phase
      ELSE /\ kv' = done.c
           /\ IF done.ok
              THEN /\ waitQ' = Without(waitQ, r)
                   /\ running' = Append(running, r)
                   /\ sched' = [sched EXCEPT ![r] = end]
                   /\ skipped' = skipped /\ phase' = phase
              ELSE /\ \/ skipped' = skipped + 1 /\ phase' = phase
                      \/ phase' = "exec" /\ skipped' = skipped
                   /\ waitQ' = waitQ /\ running' = running /\ sched' = sched
<1>4. PICK end \in (IF from < PromptLen(r) THEN {from + 1, PromptLen(r)} ELSE {from}) :
        \E done \in {AllocateKVBlocks(kv, r, TRUE, Len(cached), end, cached)} : Moved(end, done)
  BY DEF AdmitNext
<1>4a. PICK done \in {AllocateKVBlocks(kv, r, TRUE, Len(cached), end, cached)} : Moved(end, done)
  BY <1>4
<1> HIDE DEF r
<1>5. cached \in Seq(Blocks) /\ Len(cached) <= PromptLen(r) /\ PromptLen(r) \in Nat
      /\ Len(cached) \in Nat
  <2>1. Prompt[r] \in Seq(Tokens) /\ PromptLen(r) = Len(Prompt[r]) /\ PromptLen(r) \in Nat
    BY <1>3, PromptIs
  <2>2. cached \in Seq(Blocks) /\ Len(cached) <= Len(Prompt[r])
    BY <1>2, <2>1, CachedIs
  <2> HIDE DEF cached
  <2> QED BY <2>1, <2>2
<1> HIDE DEF cached
<1>6. from \in Nat /\ from <= PromptLen(r) BY <1>2, <1>3, <1>5, PrefixEndIs
<1> HIDE DEF from
<1>7. end \in Nat /\ end <= PromptLen(r)
  <2>1. CASE from < PromptLen(r)
    <3>1. end = from + 1 \/ end = PromptLen(r) BY <1>4, <2>1
    <3> QED BY <1>5, <1>6, <2>1, <3>1
  <2>2. CASE ~(from < PromptLen(r)) BY <1>4, <1>6, <2>2
  <2> QED BY <2>1, <2>2
<1>8. GivenOk(kv, done, r)
  <2> DEFINE g == AllocateKVBlocks(kv, r, TRUE, Len(cached), end, cached)
  <2>1. ArgsOk(r, TRUE, Len(cached), end, cached) BY <1>3, <1>5, <1>7 DEF ArgsOk
  <2>2. GivenOk(kv, g, r) BY <1>2, <2>1, AllocateGives
  <2>3. done = g BY <1>4
  <2> HIDE DEF g
  <2> QED BY <2>2, <2>3
<1>9. CacheOk(kind, done.c) /\ OwnedBut(kv, done.c, r) BY <1>8 DEF GivenOk
<1>10. \A q \in Requests : done.c.owned[q] # <<>> => q \in ToSet(waitQ) \cup ToSet(running)
  <2> TAKE q \in Requests
  <2>1. CASE q = r BY <1>3, <2>1
  <2>2. CASE q # r BY <1>2, <1>9, <2>2 DEF OwnedBut, HoldersOk
  <2> QED BY <2>1, <2>2
<1>11. CASE ~Waiting(kv, r) /\ done.ok
  <2>1. /\ kv' = done.c /\ waitQ' = Without(waitQ, r) /\ running' = Append(running, r)
        /\ sched' = [sched EXCEPT ![r] = end] /\ skipped' = skipped /\ phase' = phase
    BY <1>4a, <1>11
  <2>2. /\ waitQ' \in Seq(Requests) /\ IsInjective(waitQ')
        /\ ToSet(waitQ') = ToSet(waitQ) \ {r}
        /\ Len(waitQ') = IF r \in ToSet(waitQ) THEN Len(waitQ) - 1 ELSE Len(waitQ)
    BY <1>2, <2>1, WithoutIs
  <2>3. /\ running' \in Seq(Requests) /\ IsInjective(running')
        /\ ToSet(running') = ToSet(running) \cup {r}
    <3>1. r \notin ToSet(running) BY <1>2, <1>3
    <3> QED BY <1>2, <1>3, <2>1, <3>1, AppendIs
  <2>4. sched' \in [Requests -> Nat] BY ZenonT(60), <1>2, <1>7, <2>1
  <2>5. skipped' \in Nat /\ skipped' <= Len(waitQ')
    <3>1. Len(waitQ') = Len(waitQ) - 1 /\ Len(waitQ) \in Nat BY <1>2, <1>3, <2>2
    <3> QED BY <1>1, <1>2, <2>1, <3>1
  <2>6. QueuesOk'
    <3>1. ToSet(waitQ') \cap ToSet(running') = {} BY <1>2, <2>2, <2>3
    <3>2. (ToSet(waitQ') \cup ToSet(running')) \cap future' = {}
      BY <1>1, <1>2, <1>3, <2>2, <2>3
    <3>3. /\ future \subseteq Requests /\ todo \in Seq(Requests) /\ IsInjective(todo)
          /\ progress \in [Requests -> Nat]
      BY <1>2 DEF QueuesOk
    <3> QED BY ZenonT(60), <1>1, <1>2, <2>1, <2>2, <2>3, <2>4, <2>5, <3>1, <3>2, <3>3 DEF QueuesOk
  <2>7. HoldersOk'
    <3> SUFFICES ASSUME NEW q \in Requests, kv'.owned[q] # <<>>
                 PROVE  q \in ToSet(waitQ') \cup ToSet(running')
      BY DEF HoldersOk
    <3>1. q \in ToSet(waitQ) \cup ToSet(running) BY <1>10, <2>1
    <3> QED BY <2>2, <2>3, <3>1
  <2> QED BY ZenonT(60), <1>1, <1>9, <2>1, <2>6, <2>7 DEF OffloadInv
<1>12. CASE ~(~Waiting(kv, r) /\ done.ok)
  <2>1. /\ kv' = kv \/ kv' = done.c
        /\ waitQ' = waitQ /\ running' = running /\ sched' = sched
        /\ \/ skipped' = skipped + 1 /\ phase' = phase
           \/ phase' = "exec" /\ skipped' = skipped
    BY ZenonT(60), <1>4a, <1>12
  <2>2. QueuesOk'
    <3>1. skipped' \in Nat /\ skipped' <= Len(waitQ')
      <4>1. Len(waitQ) \in Nat BY <1>2
      <4> QED BY <1>1, <1>2, <2>1, <4>1
    <3> QED BY SMTT(60), <1>1, <1>2, <2>1, <3>1 DEF QueuesOk
  <2>3. HoldersOk'
    <3>1. CASE kv' = kv BY <1>2, <2>1, <3>1 DEF HoldersOk
    <3>2. CASE kv' = done.c BY ZenonT(60), <1>10, <2>1, <3>2 DEF HoldersOk
    <3> QED BY <2>1, <3>1, <3>2
  <2>4. CacheOk(kind, kv')
    <3>1. CASE kv' = kv BY <1>2, <3>1
    <3>2. CASE kv' = done.c BY ZenonT(60), <1>9, <3>2
    <3> QED BY <2>1, <3>1, <3>2
  <2> QED BY <1>1, <2>2, <2>3, <2>4 DEF OffloadInv
<1> QED BY <1>11, <1>12

(* EndStep: the blocks are mirrored, then the completed requests leave. *)
LEMMA EndStepKeeps ==
  ASSUME OffloadInv, EndStep
  PROVE  OffloadInv'
<1> DEFINE at == [r \in Requests |-> IF sched[r] > 0 /\ r \in ToSet(running)
                                     THEN sched[r] ELSE progress[r]]
           m == MirrorToCPU(kv, running)
           c == [m EXCEPT !.latency = 0]
           end == Completions(at, c, running)
<1>1. /\ phase = "exec" /\ running' = end.remaining /\ kv' = end.kv
      /\ progress' = [r \in Requests |->
                        IF r \in ToSet(running) \ ToSet(end.remaining) THEN 0 ELSE at[r]]
      /\ sched' = [r \in Requests |-> 0] /\ phase' = "between" /\ skipped' = 0
      /\ kind' = kind /\ waitQ' = waitQ /\ todo' = todo /\ future' = future
  BY DEF EndStep
<1>2. /\ QueuesOk /\ HoldersOk /\ CacheOk(kind, kv)
      /\ waitQ \in Seq(Requests) /\ IsInjective(waitQ)
      /\ running \in Seq(Requests) /\ IsInjective(running)
      /\ ToSet(waitQ) \cap ToSet(running) = {}
      /\ future \subseteq Requests /\ (ToSet(waitQ) \cup ToSet(running)) \cap future = {}
      /\ todo \in Seq(Requests) /\ IsInjective(todo)
      /\ progress \in [Requests -> Nat] /\ sched \in [Requests -> Nat]
  BY DEF OffloadInv, QueuesOk
<1>3. at \in [Requests -> Nat] BY <1>2
<1> HIDE DEF at
<1>4. CacheOk(kind, m) /\ m.owned = kv.owned
  <2>1. KeptHeld(kv, m) BY <1>2, MirrorKeeps
  <2> HIDE DEF m
  <2> QED BY <2>1 DEF KeptHeld
<1> HIDE DEF m
<1>5. CacheOk(kind, c) /\ c.owned = kv.owned
  <2>1. /\ CacheShape(c) /\ SameGpu(m, c) /\ c.cpu = m.cpu /\ c.secondary = m.secondary
        /\ c.station = m.station /\ c.deferred = m.deferred
    BY <1>4 DEF CacheOk, CacheShape, SameGpu
  <2> HIDE DEF c
  <2> QED BY <1>4, <2>1 DEF CacheOk, SameGpu
<1> HIDE DEF c
<1>6. \A q \in Requests : c.owned[q] # <<>> => q \in ToSet(waitQ) \cup ToSet(running)
  BY <1>2, <1>5 DEF HoldersOk
<1>7. /\ CacheOk(kind, end.kv)
      /\ end.remaining \in Seq(Requests) /\ IsInjective(end.remaining)
      /\ ToSet(end.remaining) \subseteq ToSet(running)
      /\ \A q \in Requests : end.kv.owned[q] # <<>> => q \in ToSet(waitQ) \cup ToSet(end.remaining)
  BY <1>2, <1>3, <1>5, <1>6, CompletionsKeep
<1> HIDE DEF end
<1>8. progress' \in [Requests -> Nat] /\ sched' \in [Requests -> Nat]
  BY <1>1, <1>3
<1>9. skipped' \in Nat /\ skipped' <= Len(waitQ')
  <2>1. Len(waitQ) \in Nat BY <1>2
  <2> QED BY <1>1, <2>1
<1>10. QueuesOk'
  <2>1. ToSet(waitQ') \cap ToSet(running') = {} BY <1>1, <1>2, <1>7
  <2>2. (ToSet(waitQ') \cup ToSet(running')) \cap future' = {} BY <1>1, <1>2, <1>7
  <2> QED BY <1>1, <1>2, <1>7, <1>8, <1>9, <2>1, <2>2 DEF QueuesOk
<1>11. HoldersOk' BY <1>1, <1>7 DEF HoldersOk
<1> QED BY <1>1, <1>7, <1>10, <1>11 DEF OffloadInv

(* Every step keeps the invariant. *)
LEMMA NextKeeps ==
  ASSUME OffloadInv, [Next]_vars
  PROVE  OffloadInv'
<1>1. ASSUME NEW r \in Requests, Arrive(r) PROVE OffloadInv'
  BY <1>1, ArriveKeeps
<1>2. ASSUME NEW r \in Requests, Withdraw(r) PROVE OffloadInv'
  BY <1>2, WithdrawKeeps
<1>3. CASE BeginStep BY <1>3, PhaseKeeps
<1>4. CASE StartBatch BY <1>4, PhaseKeeps
<1>5. CASE ContinueNext BY <1>5, ContinueKeeps
<1>6. CASE PollDeferred BY <1>6, PollStepKeeps
<1>7. CASE AdmitNext BY <1>7, AdmitKeeps
<1>8. CASE EndScan BY <1>8, PhaseKeeps
<1>9. CASE EndStep BY <1>9, EndStepKeeps
<1>10. ASSUME NEW t \in Tiers, NEW i, TransferLands(t, i) PROVE OffloadInv'
  BY <1>10, LandsKeeps
<1>11. CASE UNCHANGED vars
  BY <1>11 DEF vars, schedVars, OffloadInv, QueuesOk, HoldersOk
<1> QED BY <1>1, <1>2, <1>3, <1>4, <1>5, <1>6, <1>7, <1>8, <1>9, <1>10, <1>11
  DEF Next, StepNext

------------------------------
(* What the invariant says. *)

(* A queue without duplicates has no more than all the requests. *)
LEMMA QueueFits ==
  ASSUME NEW s \in Seq(Requests), IsInjective(s)
  PROVE  Len(s) \in Nat /\ Len(s) <= NumRequests
<1>1. NumRequests \in Nat BY OffloadAssumption
<1>2. IsFiniteSet(Requests) /\ Cardinality(Requests) = NumRequests
  <2>1. 1 \in Int /\ NumRequests \in Int BY <1>1
  <2>2. /\ IsFiniteSet(1 .. NumRequests)
        /\ Cardinality(1 .. NumRequests) = IF 1 > NumRequests THEN 0 ELSE NumRequests - 1 + 1
    BY ONLY <2>1, FS_Interval
  <2> QED BY <1>1, <2>2 DEF Requests
<1>3. ToSet(s) \in SUBSET Requests BY DEF ToSet
<1>4. Cardinality(ToSet(s)) <= NumRequests BY <1>2, <1>3, FS_Subset
<1>5. Cardinality(ToSet(s)) = Len(s) BY SMTT(60), CardToSet
<1> QED BY SMTT(60), <1>4, <1>5

(* The types. *)
LEMMA InvTypeOK == OffloadInv => TypeOK
<1> SUFFICES ASSUME OffloadInv PROVE TypeOK OBVIOUS
<1>1. /\ kind \in Kinds /\ QueuesOk
      /\ GpuOk(kv.free, kv.hash, kv.index, kv.owned)
      /\ DeferOk(kind, kv.deferred, kv.secondary)
  BY DEF OffloadInv, CacheOk
<1>2. /\ kv.free \in Seq(Blocks) /\ kv.owned \in [Requests -> Seq(Blocks)]
      /\ DOMAIN kv.deferred \subseteq Requests
  BY <1>1 DEF GpuOk, DeferOk
<1>3. ToSet(kv.free) \subseteq Blocks BY <1>2 DEF ToSet
<1>4. \A r \in Requests : ToSet(kv.owned[r]) \subseteq Blocks
  <2> TAKE r \in Requests
  <2>1. kv.owned[r] \in Seq(Blocks) BY <1>2
  <2> QED BY <2>1 DEF ToSet
<1>5. ToSet(waitQ) \cup ToSet(running) \subseteq Requests \ future
  <2>1. waitQ \in Seq(Requests) /\ running \in Seq(Requests)
        /\ (ToSet(waitQ) \cup ToSet(running)) \cap future = {}
    BY <1>1 DEF QueuesOk
  <2>2. ToSet(waitQ) \subseteq Requests /\ ToSet(running) \subseteq Requests
    BY <2>1 DEF ToSet
  <2> QED BY SMTT(60), <2>1, <2>2
<1>6. skipped \in 0 .. NumRequests
  <2>1. waitQ \in Seq(Requests) /\ IsInjective(waitQ) /\ skipped \in Nat /\ skipped <= Len(waitQ)
    BY <1>1 DEF QueuesOk
  <2>2. Len(waitQ) \in Nat /\ Len(waitQ) <= NumRequests BY <2>1, QueueFits
  <2>3. NumRequests \in Nat BY OffloadAssumption
  <2> QED BY <2>1, <2>2, <2>3
<1>7. phase \in {"between", "poll", "run", "wait", "exec"} BY <1>1 DEF QueuesOk
<1> QED BY <1>1, <1>2, <1>3, <1>4, <1>5, <1>6, <1>7 DEF TypeOK

(* The GPU tier. *)
LEMMA InvGPU == OffloadInv => GPUConserved
<1> SUFFICES ASSUME OffloadInv PROVE GPUConserved OBVIOUS
<1>1. GpuOk(kv.free, kv.hash, kv.index, kv.owned) /\ HoldersOk
  BY DEF OffloadInv, CacheOk
<1> QED BY <1>1 DEF GpuOk, Used, HoldersOk, GPUConserved

(* The CPU tier. *)
LEMMA InvCPU == OffloadInv => CPUTierExact
<1> SUFFICES ASSUME OffloadInv PROVE CPUTierExact OBVIOUS
<1>1. CPUOk(kv.cpu) BY DEF OffloadInv, CacheOk, TransferOk
<1> QED BY <1>1 DEF CPUOk, CPUTierExact

(* The pins. *)
LEMMA InvPins == OffloadInv => PinsAreTransfers
<1> SUFFICES ASSUME OffloadInv, NEW k \in DOMAIN kv.cpu.ref
             PROVE  IF kv.cpu.ref[k] = -1
                    THEN \E t \in Tiers : Covers(kv.station[t], "read", k) # {}
                    ELSE kv.cpu.ref[k] = Cardinality(WritesOf(kv, k))
  BY DEF PinsAreTransfers
<1>1. CPUOk(kv.cpu) /\ PinsOk(kv.cpu, kv.station)
  BY DEF OffloadInv, CacheOk, TransferOk
<1>2. kv.cpu.ref[k] \in {-1} \cup Nat BY <1>1 DEF CPUOk, CPUShape, IsMap
<1>3. WritesOf(kv, k) = Writes(kv.station, k) BY DEF WritesOf, Writes
<1>4. Cardinality(Writes(kv.station, k)) = Pins(kv.cpu, k) BY <1>1 DEF PinsOk
<1>5. CASE kv.cpu.ref[k] = -1 BY <1>1, <1>5 DEF PinsOk
<1>6. CASE kv.cpu.ref[k] # -1
  <2>1. Pins(kv.cpu, k) = kv.cpu.ref[k] BY SMTT(60), <1>2, <1>6 DEF Pins
  <2> QED BY <1>3, <1>4, <1>6, <2>1
<1> QED BY SMTT(60), <1>5, <1>6

(* The station. *)
LEMMA InvStation == OffloadInv => StationWorkConserving
<1> SUFFICES ASSUME OffloadInv, NEW t \in Tiers
             PROVE  LET s == kv.station[t]
                    IN  /\ s.freeRead + s.freeWrite + Len(s.active) = NRead + NWrite
                        /\ s.freeRead >= 0 /\ s.freeWrite >= 0
                        /\ s.readQ \o s.writeQ # <<>> => s.freeRead + s.freeWrite = 0
  BY DEF StationWorkConserving
<1> DEFINE s == kv.station[t]
<1>1. TierOk(s) BY DEF OffloadInv, CacheOk, TransferOk
<1> HIDE DEF s
<1>2. s.freeRead \in Nat /\ s.freeWrite \in Nat BY <1>1 DEF TierOk, TierShape
<1>3. s.freeRead + s.freeWrite + Len(s.active) = NRead + NWrite
  BY <1>1 DEF TierOk, ServersKept
<1>4. s.readQ \o s.writeQ # <<>> => s.freeRead + s.freeWrite = 0
  <2>1. <<>> \o <<>> = <<>> OBVIOUS
  <2>2. ServersBusy(s) BY <1>1 DEF TierOk
  <2> QED BY <2>1, <2>2 DEF ServersBusy
<1>5. s.freeRead >= 0 /\ s.freeWrite >= 0 BY <1>2
<1> QED BY <1>3, <1>4, <1>5 DEF s

(* The write-through. *)
LEMMA InvThrough == OffloadInv => WriteThrough
<1> SUFFICES ASSUME OffloadInv, HasStation PROVE WriteThrough
  BY DEF WriteThrough
<1>1. Through(kv.cpu, kv.secondary, kv.station)
  BY DEF OffloadInv, CacheOk, TransferOk, HasStation, Station
<1> QED BY <1>1 DEF Through, Sent, WriteThrough

------------------------------
(* The theorems. *)

(* The inductive invariant holds in every state. *)
THEOREM OffloadInvariant == Spec => []OffloadInv
<1>1. OffloadInv /\ [Next]_vars => OffloadInv' BY NextKeeps
<1> QED BY InitHolds, <1>1, PTL DEF Spec

(* GPU blocks, CPU slots, pins and transfer servers are accounted for:     *)
(* whatever mix of reloads, promotions, deferrals, write-throughs,         *)
(* preemptions, completions and withdrawals, each is free or held by       *)
(* exactly what uses it (TiersExact).                                      *)
THEOREM OffloadExact == Spec => []TiersExact
<1>1. OffloadInv => TiersExact
  BY InvTypeOK, InvGPU, InvCPU, InvPins, InvStation DEF TiersExact
<1> QED BY OffloadInvariant, <1>1, PTL

(* BC-C7a: what the CPU tier or a secondary tier has, every secondary tier *)
(* holds or is being sent (WriteThrough).                                  *)
THEOREM NothingLost == Spec => []WriteThrough
<1> QED BY OffloadInvariant, InvThrough, PTL
=============================================================================
