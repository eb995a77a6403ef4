--------------------------- MODULE GatewayProofs ----------------------------
(***************************************************************************)
(* Proofs of the safety properties of module Gateway, for any requests,    *)
(* tenants, priorities, instances, arrival and load times and              *)
(* configurations.                                                         *)
(*                                                                         *)
(* The first half is about the operators of the gateway queue: each of     *)
(* them maps a good queue to a good queue, none of them panics, and the    *)
(* entry DequeueGated gives up is the one the order of bands and of flows  *)
(* calls for.  Minima and maxima of finite sets are CHOOSE expressions;    *)
(* that there is one to choose is proved from the well-foundedness of the  *)
(* naturals.                                                               *)
(*                                                                         *)
(* The invariant of the second half is about numbers of events: how many   *)
(* of the heap's events carry a request through the pipeline, how many are *)
(* dispatch ticks, how many will evict a given request.  Pushing and       *)
(* popping change such a number by one or not at all, whatever the order   *)
(* of the heap; the order is needed only for time never to run backwards,  *)
(* on which it rests that no instance acts while an eviction is on its     *)
(* way.                                                                    *)
(***************************************************************************)
EXTENDS Gateway, TLAPS, FiniteSetTheorems, SequenceTheorems, WellFoundedInduction

(* What holds of a queue at any time, n being the last sequence number     *)
(* given out.  Beyond QueueConsistent: no request is queued twice, and     *)
(* flows hold their own requests in the order of their numbers.            *)
Band(q, p) == {pos \in Positions(q) : pos.p = p}

Counted(q) ==
  /\ IsFiniteSet(Positions(q))
  /\ q.totalLen = Cardinality(Positions(q))
  /\ \A p \in Priorities : q.bandLen[p] = Cardinality(Band(q, p))

Alone(q) ==
  \A x, y \in Positions(q) : At(q, x).req = At(q, y).req => x = y

Indexed(q) ==
  /\ DOMAIN q.requestIndex = Queued(q)
  /\ \A x \in Positions(q) : q.requestIndex[At(q, x).req] = <<x.p, x.t>>

GoodQueue(q, n) ==
  /\ q \in Queues
  /\ Counted(q)
  /\ Alone(q)
  /\ Indexed(q)
  /\ FlowsOrdered(q)
  /\ \A p \in Priorities : q.bandLen[p] > 0 => p \in q.bands
  /\ \A x \in Positions(q) : At(q, x).seqID <= n

------------------------------
(* Least and greatest elements. *)

(* The naturals under < in the form the theorem on minimal elements wants. *)
LEMMA LessThanWellFounded ==
  \E R : /\ IsWellFoundedOn(R, Nat)
         /\ \A x, y \in Nat : x < y => <<x, y>> \in R
<1> DEFINE R == {ss \in Nat \X Nat : ss[1] < ss[2]}
<1>1. IsWellFoundedOn(OpToRel(<, Nat), Nat) BY NatLessThanWellFounded
<1>2. OpToRel(<, Nat) = R BY DEF OpToRel
<1>3. \A x, y \in Nat : x < y => <<x, y>> \in R OBVIOUS
<1> QED BY <1>1, <1>2, <1>3

(* A nonempty set of naturals has a least element. *)
LEMMA LeastNatural ==
  ASSUME NEW S, S \subseteq Nat, S # {}
  PROVE  \E x \in S : \A y \in S : x <= y
<1>1. PICK R : /\ IsWellFoundedOn(R, Nat)
               /\ \A x, y \in Nat : x < y => <<x, y>> \in R
  BY LessThanWellFounded
<1>2. IsWellFoundedOn(R, Nat) BY <1>1
<1>3. \E x \in S : \A y \in S : ~(<<y, x>> \in R) BY <1>2, WFMin, Zenon
<1>4. PICK x \in S : \A y \in S : ~(<<y, x>> \in R) BY <1>3
<1>5. \A y \in S : x \in Nat /\ y \in Nat /\ ~(y < x) BY <1>1, <1>4
<1> QED BY <1>5

(* Min of the community modules, on naturals. *)
LEMMA MinIsLeast ==
  ASSUME NEW S, S \subseteq Nat, S # {}
  PROVE  /\ Min(S) \in S
         /\ \A y \in S : Min(S) <= y
<1>1. \E x \in S : \A y \in S : x =< y BY LeastNatural
<1> QED BY <1>1 DEF Min

(* Max of the community modules, on finite sets of integers: the element   *)
(* with the fewest elements above it.                                      *)
LEMMA MaxIsGreatest ==
  ASSUME NEW S, S \subseteq Int, IsFiniteSet(S), S # {}
  PROVE  /\ Max(S) \in S
         /\ \A y \in S : y <= Max(S)
<1> DEFINE Above(x) == {y \in S : y > x}
           Sizes == {Cardinality(Above(x)) : x \in S}
<1>1. \A x \in S : IsFiniteSet(Above(x)) /\ Cardinality(Above(x)) \in Nat
  <2> TAKE x \in S
  <2>1. Above(x) \in SUBSET S OBVIOUS
  <2> HIDE DEF Above
  <2> QED BY <2>1, FS_Subset, FS_CardinalityType
<1>2. \A x, y \in S : y > x => Cardinality(Above(y)) < Cardinality(Above(x))
  <2> SUFFICES ASSUME NEW x \in S, NEW y \in S, y > x
               PROVE  Cardinality(Above(y)) < Cardinality(Above(x))
    OBVIOUS
  <2>0. \A z \in S : z \in Int /\ (z > y => z > x) /\ ~(y > y) OBVIOUS
  <2>1. Above(y) \in SUBSET Above(x) /\ y \in Above(x) /\ y \notin Above(y)
    BY <2>0
  <2> HIDE DEF Above
  <2>2. Cardinality(Above(y)) <= Cardinality(Above(x))
        /\ (Cardinality(Above(x)) = Cardinality(Above(y)) => Above(x) = Above(y))
    BY <1>1, <2>1, FS_Subset
  <2> QED BY <1>1, <2>1, <2>2
<1> HIDE DEF Above
<1>3. Sizes \subseteq Nat /\ Sizes # {} BY <1>1
<1>4. PICK n \in Sizes : \A m \in Sizes : n <= m BY <1>3, LeastNatural
<1>5. PICK x \in S : n = Cardinality(Above(x)) BY <1>4
<1>6. \A y \in S : n <= Cardinality(Above(y)) BY <1>4
<1>7. \A y \in S : x >= y
  <2> SUFFICES ASSUME NEW y \in S, y > x PROVE FALSE OBVIOUS
  <2>1. Cardinality(Above(y)) < Cardinality(Above(x)) BY <1>2
  <2> QED BY <1>1, <1>5, <1>6, <2>1
<1>8. \E m \in S : \A y \in S : m >= y BY <1>7
<1>9. Max(S) \in S /\ \A y \in S : Max(S) >= y BY <1>8 DEF Max
<1>10. Max(S) \in Int /\ \A y \in S : y \in Int BY <1>9
<1> QED BY <1>9, <1>10

------------------------------
(* Queues and their places. *)

(* The fields of a queue. *)
LEMMA QueueFields ==
  ASSUME NEW q \in Queues
  PROVE  /\ q.bands \subseteq Priorities
         /\ q.flows \in [Priorities -> [Tenants -> Seq(Entries)]]
         /\ q.bandLen \in [Priorities -> Nat]
         /\ q.totalLen \in Nat
         /\ DOMAIN q.requestIndex \subseteq Requests
         /\ \A r \in DOMAIN q.requestIndex : q.requestIndex[r] \in Priorities \X Tenants
         /\ q.requestIndex = [r \in DOMAIN q.requestIndex |-> q.requestIndex[r]]
         /\ q.cursors \in [Priorities -> Tenants \cup {NoTenant}]
         /\ q.shedCount \in Nat /\ q.rejectedCount \in Nat /\ q.panic \in BOOLEAN
  BY DEF Queues

(* An index of requests by place. *)
LEMMA IndexType ==
  ASSUME NEW S, S \subseteq Requests, NEW f \in [S -> Priorities \X Tenants]
  PROVE  f \in UNION {[R -> Priorities \X Tenants] : R \in SUBSET Requests}
  OBVIOUS

(* A place is an index into one of the flows. *)
LEMMA PlaceIs ==
  ASSUME NEW q
  PROVE  /\ \A p \in Priorities, t \in Tenants : \A i \in DOMAIN q.flows[p][t] :
              [p |-> p, t |-> t, i |-> i] \in Positions(q)
         /\ \A x \in Positions(q) :
              /\ x.p \in Priorities /\ x.t \in Tenants
              /\ x.i \in DOMAIN q.flows[x.p][x.t]
              /\ x = [p |-> x.p, t |-> x.t, i |-> x.i]
<1>1. \A x : x \in Positions(q) <=>
        \E p \in Priorities, t \in Tenants : \E i \in DOMAIN q.flows[p][t] :
          x = [p |-> p, t |-> t, i |-> i]
  <2> DEFINE Of(p, t) == {[p |-> p, t |-> t, i |-> i] : i \in DOMAIN q.flows[p][t]}
             All == {Of(p, t) : p \in Priorities, t \in Tenants}
  <2>1. \A x, p, t : x \in Of(p, t) <=> \E i \in DOMAIN q.flows[p][t] :
                                          x = [p |-> p, t |-> t, i |-> i]
    OBVIOUS
  <2>2. Positions(q) = UNION All BY DEF Positions
  <2> HIDE DEF Of
  <2>3. \A x : x \in UNION All <=> \E p \in Priorities, t \in Tenants : x \in Of(p, t)
    OBVIOUS
  <2> QED BY <2>1, <2>2, <2>3
<1>2. ASSUME NEW x \in Positions(q)
      PROVE  /\ x.p \in Priorities /\ x.t \in Tenants
             /\ x.i \in DOMAIN q.flows[x.p][x.t]
             /\ x = [p |-> x.p, t |-> x.t, i |-> x.i]
  <2>1. PICK p \in Priorities, t \in Tenants : \E i \in DOMAIN q.flows[p][t] :
          x = [p |-> p, t |-> t, i |-> i]
    BY <1>1
  <2>2. PICK i \in DOMAIN q.flows[p][t] : x = [p |-> p, t |-> t, i |-> i]
    BY <2>1
  <2>3. x.p = p /\ x.t = t /\ x.i = i BY <2>2
  <2> QED BY <2>2, <2>3
<1>3. ASSUME NEW p \in Priorities, NEW t \in Tenants, NEW i \in DOMAIN q.flows[p][t]
      PROVE  [p |-> p, t |-> t, i |-> i] \in Positions(q)
  BY <1>1
<1> QED BY <1>2, <1>3

(* The entry at a place. *)
LEMMA EntryAt ==
  ASSUME NEW q \in Queues, NEW x \in Positions(q)
  PROVE  /\ x.p \in Priorities /\ x.t \in Tenants
         /\ q.flows[x.p][x.t] \in Seq(Entries)
         /\ x.i \in 1 .. Len(q.flows[x.p][x.t])
         /\ At(q, x) \in Entries
         /\ At(q, x).req \in Requests /\ At(q, x).seqID \in Nat
<1>1. x.p \in Priorities /\ x.t \in Tenants /\ x.i \in DOMAIN q.flows[x.p][x.t]
  BY PlaceIs
<1>2. q.flows[x.p][x.t] \in Seq(Entries)
  <2>1. q.flows \in [Priorities -> [Tenants -> Seq(Entries)]] BY QueueFields
  <2> QED BY <1>1, <2>1
<1>3. x.i \in 1 .. Len(q.flows[x.p][x.t]) /\ q.flows[x.p][x.t][x.i] \in Entries
  BY <1>1, <1>2
<1>4. \A e \in Entries : e.req \in Requests /\ e.seqID \in Nat BY DEF Entries
<1> QED BY <1>1, <1>2, <1>3, <1>4 DEF At

(* A flow without its i-th entry. *)
LEMMA DropEntryShifts ==
  ASSUME NEW S, NEW s \in Seq(S), NEW i \in 1 .. Len(s)
  PROVE  /\ DropEntry(s, i) \in Seq(S)
         /\ Len(DropEntry(s, i)) = Len(s) - 1
         /\ DOMAIN DropEntry(s, i) = 1 .. Len(s) - 1
         /\ \A j \in 1 .. Len(s) - 1 :
              DropEntry(s, i)[j] = s[IF j < i THEN j ELSE j + 1]
<1> DEFINE a == SubSeq(s, 1, i - 1)
           b == SubSeq(s, i + 1, Len(s))
           n == Len(s)
<1>1. n \in Nat /\ i \in 1 .. n /\ \A j \in 1 .. n : s[j] \in S BY ElementOfSeq
<1>2. /\ a \in Seq(S) /\ Len(a) = i - 1
      /\ \A j \in 1 .. i - 1 : a[j] = s[j]
  <2>1. \A j \in 1 .. i - 1 : s[j] \in S BY <1>1
  <2>2. /\ a \in Seq(S) /\ Len(a) = IF 1 <= i - 1 THEN i - 1 - 1 + 1 ELSE 0
        /\ \A j \in 1 .. i - 1 - 1 + 1 : a[j] = s[1 + j - 1]
    BY <2>1, SubSeqProperties
  <2> HIDE DEF a
  <2> QED BY <1>1, <2>2
<1>3. /\ b \in Seq(S) /\ Len(b) = n - i
      /\ \A j \in 1 .. n - i : b[j] = s[i + j]
  <2>1. \A j \in i + 1 .. n : s[j] \in S BY <1>1
  <2>2. /\ b \in Seq(S) /\ Len(b) = IF i + 1 <= n THEN n - (i + 1) + 1 ELSE 0
        /\ \A j \in 1 .. n - (i + 1) + 1 : b[j] = s[i + 1 + j - 1]
    BY <1>1, <2>1, SubSeqProperties
  <2> HIDE DEF b
  <2> QED BY SMTT(60), <1>1, <2>2
<1> HIDE DEF a, b
<1>4. /\ a \o b \in Seq(S)
      /\ Len(a \o b) = Len(a) + Len(b)
      /\ \A j \in 1 .. Len(a) + Len(b) :
           (a \o b)[j] = IF j <= Len(a) THEN a[j] ELSE b[j - Len(a)]
  BY ZenonT(60), <1>2, <1>3, ConcatProperties
<1>5. Len(a) + Len(b) = n - 1 BY <1>1, <1>2, <1>3
<1>6. \A j \in 1 .. n - 1 : (a \o b)[j] = s[IF j < i THEN j ELSE j + 1]
  <2> TAKE j \in 1 .. n - 1
  <2>1. (a \o b)[j] = IF j <= Len(a) THEN a[j] ELSE b[j - Len(a)] BY <1>4, <1>5
  <2>2. CASE j < i BY <1>1, <1>2, <2>1, <2>2
  <2>3. CASE ~(j < i)
    <3>1. j - Len(a) \in 1 .. n - i /\ ~(j <= Len(a)) /\ i + (j - Len(a)) = j + 1
      BY <1>1, <1>2, <2>3
    <3> QED BY <1>3, <2>1, <2>3, <3>1
  <2> QED BY <2>2, <2>3
<1>7. DropEntry(s, i) = a \o b BY DEF DropEntry, a, b
<1>8. DropEntry(s, i) \in Seq(S) /\ Len(DropEntry(s, i)) = n - 1
  BY <1>4, <1>5, <1>7
<1>9. DOMAIN DropEntry(s, i) = 1 .. n - 1 BY <1>8, LenProperties
<1> QED BY <1>6, <1>7, <1>8, <1>9

------------------------------
(* Removal. *)

(* What TakeOut leaves, field by field. *)
LEMMA TakeOutFields ==
  ASSUME NEW q \in Queues, NEW pos \in Positions(q),
         q.totalLen > 0, q.bandLen[pos.p] > 0
  PROVE  LET f == q.flows[pos.p][pos.t]
             z == TakeOut(q, pos)
         IN  /\ z \in Queues
             /\ \A p \in Priorities, t \in Tenants :
                  z.flows[p][t] = IF p = pos.p /\ t = pos.t
                                  THEN DropEntry(f, pos.i) ELSE q.flows[p][t]
             /\ \A p \in Priorities :
                  z.bandLen[p] = IF p = pos.p THEN q.bandLen[p] - 1 ELSE q.bandLen[p]
             /\ z.totalLen = q.totalLen - 1
             /\ DOMAIN z.requestIndex = DOMAIN q.requestIndex \ {At(q, pos).req}
             /\ \A r \in DOMAIN z.requestIndex : z.requestIndex[r] = q.requestIndex[r]
             /\ z.bands = q.bands /\ z.cursors = q.cursors /\ z.panic = q.panic
             /\ z.shedCount = q.shedCount /\ z.rejectedCount = q.rejectedCount
<1> DEFINE f == q.flows[pos.p][pos.t]
           g == DropEntry(f, pos.i)
           z == TakeOut(q, pos)
           R == DOMAIN q.requestIndex \ {At(q, pos).req}
           index == [r \in R |-> q.requestIndex[r]]
           flows == [q.flows EXCEPT ![pos.p][pos.t] = g]
           bandLen == [q.bandLen EXCEPT ![pos.p] = @ - 1]
<1>1. z = [q EXCEPT !.flows = flows, !.requestIndex = index,
                    !.bandLen = bandLen, !.totalLen = @ - 1]
  BY DEF TakeOut, Queues
<1>2. /\ z.flows = flows /\ z.requestIndex = index /\ z.bandLen = bandLen
      /\ z.totalLen = q.totalLen - 1
      /\ z.bands = q.bands /\ z.cursors = q.cursors /\ z.panic = q.panic
      /\ z.shedCount = q.shedCount /\ z.rejectedCount = q.rejectedCount
  BY <1>1 DEF Queues
<1>3. pos.p \in Priorities /\ pos.t \in Tenants /\ g \in Seq(Entries)
  BY EntryAt, DropEntryShifts
<1>4. q.flows \in [Priorities -> [Tenants -> Seq(Entries)]]
      /\ q.bandLen \in [Priorities -> Nat] /\ q.totalLen \in Nat
  BY QueueFields
<1> HIDE DEF g, f
<1>5. /\ flows \in [Priorities -> [Tenants -> Seq(Entries)]]
      /\ \A p \in Priorities, t \in Tenants :
           flows[p][t] = IF p = pos.p /\ t = pos.t THEN g ELSE q.flows[p][t]
  BY <1>3, <1>4
<1>6. /\ bandLen \in [Priorities -> Nat] /\ q.totalLen - 1 \in Nat
      /\ \A p \in Priorities :
           bandLen[p] = IF p = pos.p THEN q.bandLen[p] - 1 ELSE q.bandLen[p]
  BY <1>3, <1>4, SMTT(40)
<1>7. /\ index \in UNION {[S -> Priorities \X Tenants] : S \in SUBSET Requests}
      /\ DOMAIN index = R /\ \A r \in R : index[r] = q.requestIndex[r]
  <2>1. R \subseteq Requests /\ index \in [R -> Priorities \X Tenants]
    BY QueueFields
  <2> QED BY <2>1, IndexType
<1>8. z \in Queues
  <2> HIDE DEF z, flows, bandLen, index
  <2> QED BY <1>1, <1>2, <1>5, <1>6, <1>7 DEF Queues
<1> HIDE DEF z, flows, bandLen, index
<1> QED BY <1>2, <1>5, <1>6, <1>7, <1>8 DEF z, f, g

(* Where the entry at place x was before the removal of the entry at pos. *)
Lift(pos, x) ==
  IF x.p = pos.p /\ x.t = pos.t /\ x.i >= pos.i
  THEN [p |-> x.p, t |-> x.t, i |-> x.i + 1] ELSE x

(* What holds of a queue with at least one entry. *)
LEMMA CountsAreNaturals ==
  ASSUME NEW q, NEW pos \in Positions(q), q \in Queues, Counted(q)
  PROVE  /\ q.totalLen > 0 /\ q.bandLen[pos.p] > 0
         /\ \A p \in Priorities : IsFiniteSet(Band(q, p))
<1>1. pos.p \in Priorities /\ pos \in Band(q, pos.p) BY PlaceIs DEF Band
<1>2. \A p \in Priorities : Band(q, p) \in SUBSET Positions(q) BY DEF Band
<1>3. \A p \in Priorities : IsFiniteSet(Band(q, p))
  BY <1>2, FS_Subset DEF Counted
<1>4. q.totalLen # 0 /\ q.bandLen[pos.p] # 0
  BY <1>1, <1>3, FS_EmptySet DEF Counted
<1>5. q.totalLen \in Nat /\ q.bandLen[pos.p] \in Nat BY <1>1, QueueFields
<1> QED BY <1>3, <1>4, <1>5


(* The places left by a removal are those of before but the last of the    *)
(* flow; the entry of each is one of before, the entry taken out excepted. *)
LEMMA TakeOutPlaces ==
  ASSUME NEW q, NEW pos \in Positions(q), q \in Queues, Counted(q)
  PROVE  LET z == TakeOut(q, pos)
             last == [p |-> pos.p, t |-> pos.t, i |-> Len(q.flows[pos.p][pos.t])]
         IN  /\ last \in Positions(q)
             /\ Positions(z) = Positions(q) \ {last}
             /\ \A x \in Positions(z) :
                  /\ Lift(pos, x) \in Positions(q) \ {pos}
                  /\ Lift(pos, x).p = x.p /\ Lift(pos, x).t = x.t
                  /\ At(z, x) = At(q, Lift(pos, x))
             /\ \A x, y \in Positions(z) : Lift(pos, x) = Lift(pos, y) => x = y
             /\ \A y \in Positions(q) \ {pos} : \E x \in Positions(z) : y = Lift(pos, x)
<1> DEFINE f == q.flows[pos.p][pos.t]
           z == TakeOut(q, pos)
           last == [p |-> pos.p, t |-> pos.t, i |-> Len(f)]
<1>1. /\ z \in Queues
      /\ \A p \in Priorities, t \in Tenants :
           z.flows[p][t] = IF p = pos.p /\ t = pos.t
                           THEN DropEntry(f, pos.i) ELSE q.flows[p][t]
  BY TakeOutFields, CountsAreNaturals
<1>2. /\ pos.p \in Priorities /\ pos.t \in Tenants
      /\ f \in Seq(Entries) /\ pos.i \in 1 .. Len(f)
      /\ pos = [p |-> pos.p, t |-> pos.t, i |-> pos.i]
  BY EntryAt, PlaceIs
<1>3. /\ DOMAIN z.flows[pos.p][pos.t] = 1 .. Len(f) - 1
      /\ \A j \in 1 .. Len(f) - 1 :
           z.flows[pos.p][pos.t][j] = f[IF j < pos.i THEN j ELSE j + 1]
  <2>1. z.flows[pos.p][pos.t] = DropEntry(f, pos.i) BY <1>1, <1>2
  <2> HIDE DEF z, f
  <2> QED BY <1>2, <2>1, DropEntryShifts
<1>4. Len(f) \in Nat /\ DOMAIN f = 1 .. Len(f) BY <1>2, LenProperties
<1> HIDE DEF z
<1>5. ASSUME NEW p \in Priorities, NEW t \in Tenants, ~(p = pos.p /\ t = pos.t)
      PROVE  z.flows[p][t] = q.flows[p][t]
  BY <1>1, <1>5
<1>6. last \in Positions(q) BY <1>2, <1>4, PlaceIs
<1>7. ASSUME NEW x \in Positions(z)
      PROVE  /\ x \in Positions(q) \ {last}
             /\ Lift(pos, x) \in Positions(q) \ {pos}
             /\ Lift(pos, x).p = x.p /\ Lift(pos, x).t = x.t
             /\ At(z, x) = At(q, Lift(pos, x))
  <2>1. /\ x.p \in Priorities /\ x.t \in Tenants
        /\ x.i \in DOMAIN z.flows[x.p][x.t]
        /\ x = [p |-> x.p, t |-> x.t, i |-> x.i]
    BY PlaceIs
  <2>2. CASE ~(x.p = pos.p /\ x.t = pos.t)
    <3>1. x \in Positions(q) BY <1>5, <2>1, <2>2, PlaceIs, SMTT(40)
    <3>2. Lift(pos, x) = x /\ x # pos /\ x # last BY <2>2 DEF Lift
    <3> QED BY <1>5, <2>1, <2>2, <3>1, <3>2 DEF At
  <2>3. CASE x.p = pos.p /\ x.t = pos.t
    <3>1. x.i \in 1 .. Len(f) - 1 BY <1>3, <2>1, <2>3
    <3>2. x.i \in DOMAIN f /\ x.i + 1 \in DOMAIN f /\ x.i # Len(f)
      <4> HIDE DEF f
      <4>1. \A n \in Nat : \A i \in 1 .. n - 1 :
              i \in 1 .. n /\ i + 1 \in 1 .. n /\ i # n
        OBVIOUS
      <4> QED BY <1>4, <3>1, <4>1
    <3>3. x \in Positions(q) /\ [p |-> x.p, t |-> x.t, i |-> x.i + 1] \in Positions(q)
      BY <2>1, <2>3, <3>2, PlaceIs
    <3>4. x # last BY <3>2
    <3>5. CASE x.i >= pos.i
      <4>1. Lift(pos, x) = [p |-> x.p, t |-> x.t, i |-> x.i + 1]
        BY <2>3, <3>5 DEF Lift
      <4>2. x.i + 1 # pos.i BY <1>2, <3>1, <3>5
      <4>3. z.flows[pos.p][pos.t][x.i] = f[x.i + 1]
        <5>1. ~(x.i < pos.i) BY <1>2, <3>1, <3>5
        <5> HIDE DEF f
        <5> QED BY <1>3, <3>1, <5>1
      <4> QED BY <2>3, <3>3, <3>4, <4>1, <4>2, <4>3 DEF At
    <3>6. CASE ~(x.i >= pos.i)
      <4>1. Lift(pos, x) = x BY <3>6 DEF Lift
      <4>2. x.i # pos.i BY <1>2, <3>1, <3>6
      <4>3. z.flows[pos.p][pos.t][x.i] = f[x.i]
        BY <1>2, <1>3, <3>1, <3>6, SMTT(40)
      <4> QED BY <2>3, <3>3, <3>4, <4>1, <4>2, <4>3 DEF At
    <3> QED BY <3>5, <3>6
  <2> QED BY <2>2, <2>3
<1>8. ASSUME NEW y \in Positions(q), y # last
      PROVE  y \in Positions(z)
  <2>1. /\ y.p \in Priorities /\ y.t \in Tenants
        /\ y.i \in DOMAIN q.flows[y.p][y.t]
        /\ y = [p |-> y.p, t |-> y.t, i |-> y.i]
    BY PlaceIs
  <2>2. CASE ~(y.p = pos.p /\ y.t = pos.t)
    BY <1>5, <2>1, <2>2, PlaceIs, SMTT(40)
  <2>3. CASE y.p = pos.p /\ y.t = pos.t
    <3>1. y.i \in 1 .. Len(f) - 1 BY <1>4, <1>8, <2>1, <2>3, SMTT(40)
    <3> QED BY <1>3, <2>1, <2>3, <3>1, PlaceIs, SMTT(40)
  <2> QED BY <2>2, <2>3
<1>9. ASSUME NEW x \in Positions(z), NEW y \in Positions(z), Lift(pos, x) = Lift(pos, y)
      PROVE  x = y
  <2>1. x.p = y.p /\ x.t = y.t BY <1>7, <1>9
  <2>2. /\ x = [p |-> x.p, t |-> x.t, i |-> x.i]
        /\ y = [p |-> y.p, t |-> y.t, i |-> y.i]
    BY PlaceIs
  <2>3. x.i \in Nat /\ y.i \in Nat BY <1>1, EntryAt
  <2>4. x.i = y.i BY <1>2, <1>9, <2>1, <2>3 DEF Lift
  <2> QED BY <2>1, <2>2, <2>4
<1>10. ASSUME NEW y \in Positions(q), y # pos
       PROVE  \E x \in Positions(z) : y = Lift(pos, x)
  <2>1. /\ y.p \in Priorities /\ y.t \in Tenants
        /\ y.i \in DOMAIN q.flows[y.p][y.t]
        /\ y = [p |-> y.p, t |-> y.t, i |-> y.i]
    BY PlaceIs
  <2>2. CASE ~(y.p = pos.p /\ y.t = pos.t)
    <3>1. y \in Positions(z) BY <1>8, <2>2
    <3> QED BY <2>2, <3>1 DEF Lift
  <2>3. CASE y.p = pos.p /\ y.t = pos.t
    <3>1. y.i \in 1 .. Len(f) /\ y.i # pos.i BY <1>2, <1>4, <1>10, <2>1, <2>3
    <3>2. CASE y.i < pos.i
      <4>1. y.i \in 1 .. Len(f) - 1 /\ ~(y.i >= pos.i)
        BY <1>2, <3>1, <3>2, SMTT(40)
      <4>2. y \in Positions(z) BY SMTT(60), <1>3, <2>1, <2>3, <4>1, PlaceIs
      <4> QED BY <4>1, <4>2 DEF Lift
    <3>3. CASE y.i > pos.i
      <4> DEFINE x == [p |-> y.p, t |-> y.t, i |-> y.i - 1]
      <4>1. y.i - 1 \in 1 .. Len(f) - 1 /\ y.i - 1 >= pos.i /\ y.i - 1 + 1 = y.i
        BY SMTT(60), <1>2, <3>1, <3>3
      <4>2. x \in Positions(z) BY <1>3, <2>1, <2>3, <4>1, PlaceIs
      <4>3. y = Lift(pos, x) BY <2>1, <2>3, <4>1 DEF Lift
      <4> QED BY <4>2, <4>3
    <3> QED BY <1>2, <3>1, <3>2, <3>3
  <2> QED BY <2>2, <2>3
<1>11. Positions(z) = Positions(q) \ {last} BY <1>7, <1>8
<1> QED BY <1>6, <1>7, <1>9, <1>10, <1>11 DEF z

(* A removal takes one request out of a good queue and leaves a good one. *)
LEMMA TakeOutGood ==
  ASSUME NEW q, NEW n, GoodQueue(q, n), NEW pos \in Positions(q)
  PROVE  LET z == TakeOut(q, pos)
         IN  /\ GoodQueue(z, n)
             /\ Queued(z) = Queued(q) \ {At(q, pos).req}
             /\ z.panic = q.panic /\ z.bands = q.bands
             /\ z.shedCount = q.shedCount /\ z.rejectedCount = q.rejectedCount
<1> DEFINE f == q.flows[pos.p][pos.t]
           z == TakeOut(q, pos)
           last == [p |-> pos.p, t |-> pos.t, i |-> Len(f)]
<1>1. /\ q \in Queues /\ Counted(q) /\ Alone(q) /\ Indexed(q) /\ FlowsOrdered(q)
      /\ \A p \in Priorities : q.bandLen[p] > 0 => p \in q.bands
      /\ \A x \in Positions(q) : At(q, x).seqID <= n
  BY DEF GoodQueue
<1>2. /\ q.totalLen > 0 /\ q.bandLen[pos.p] > 0
      /\ \A p \in Priorities : IsFiniteSet(Band(q, p))
  BY <1>1, CountsAreNaturals
<1>3. /\ z \in Queues
      /\ \A p \in Priorities, t \in Tenants :
           z.flows[p][t] = IF p = pos.p /\ t = pos.t
                           THEN DropEntry(f, pos.i) ELSE q.flows[p][t]
      /\ \A p \in Priorities :
           z.bandLen[p] = IF p = pos.p THEN q.bandLen[p] - 1 ELSE q.bandLen[p]
      /\ z.totalLen = q.totalLen - 1
      /\ DOMAIN z.requestIndex = DOMAIN q.requestIndex \ {At(q, pos).req}
      /\ \A r \in DOMAIN z.requestIndex : z.requestIndex[r] = q.requestIndex[r]
      /\ z.bands = q.bands /\ z.panic = q.panic
      /\ z.shedCount = q.shedCount /\ z.rejectedCount = q.rejectedCount
  BY <1>1, <1>2, TakeOutFields
<1>4. /\ last \in Positions(q)
      /\ Positions(z) = Positions(q) \ {last}
      /\ \A x \in Positions(z) :
           /\ Lift(pos, x) \in Positions(q) \ {pos}
           /\ Lift(pos, x).p = x.p /\ Lift(pos, x).t = x.t
           /\ At(z, x) = At(q, Lift(pos, x))
      /\ \A x, y \in Positions(z) : Lift(pos, x) = Lift(pos, y) => x = y
      /\ \A y \in Positions(q) \ {pos} : \E x \in Positions(z) : y = Lift(pos, x)
  BY <1>1, TakeOutPlaces
<1>5. /\ pos.p \in Priorities /\ pos.t \in Tenants
      /\ f \in Seq(Entries) /\ pos.i \in 1 .. Len(f)
  BY <1>1, EntryAt
<1>6. last.p = pos.p OBVIOUS
<1> HIDE DEF z, last
<1>7. Counted(z)
  <2>1. IsFiniteSet(Positions(z)) /\ z.totalLen = Cardinality(Positions(z))
    BY <1>1, <1>3, <1>4, FS_RemoveElement DEF Counted
  <2>2. ASSUME NEW p \in Priorities
        PROVE  z.bandLen[p] = Cardinality(Band(z, p))
    <3>1. q.bandLen[p] = Cardinality(Band(q, p)) /\ IsFiniteSet(Band(q, p))
      BY <1>1, <1>2 DEF Counted
    <3>2. CASE p = pos.p
      <4>1. Band(z, p) = Band(q, p) \ {last} /\ last \in Band(q, p)
        BY <1>4, <1>6, <3>2 DEF Band
      <4>2. Cardinality(Band(z, p)) = Cardinality(Band(q, p)) - 1
        BY <3>1, <4>1, FS_RemoveElement
      <4>3. z.bandLen[p] = q.bandLen[p] - 1 BY <1>3, <3>2
      <4> QED BY <3>1, <4>2, <4>3
    <3>3. CASE p # pos.p
      <4>1. Band(z, p) = Band(q, p) BY <1>4, <1>6, <3>3 DEF Band
      <4> QED BY <1>3, <3>1, <3>3, <4>1
    <3> QED BY <3>2, <3>3
  <2> QED BY <2>1, <2>2 DEF Counted
<1>8. Alone(z)
  <2>1. \A x, y \in Positions(z) : At(z, x).req = At(z, y).req =>
          Lift(pos, x) = Lift(pos, y)
    BY <1>1, <1>4 DEF Alone
  <2> QED BY <1>4, <2>1 DEF Alone
<1>9. Queued(z) = Queued(q) \ {At(q, pos).req}
  <2>1. \A x \in Positions(z) : At(z, x).req \in Queued(q) \ {At(q, pos).req}
    <3> TAKE x \in Positions(z)
    <3>1. Lift(pos, x) \in Positions(q) /\ Lift(pos, x) # pos
          /\ At(z, x) = At(q, Lift(pos, x))
      BY <1>4
    <3>2. At(q, Lift(pos, x)).req # At(q, pos).req BY <1>1, <3>1 DEF Alone
    <3> QED BY <3>1, <3>2 DEF Queued
  <2>2. \A y \in Positions(q) : At(q, y).req # At(q, pos).req =>
          At(q, y).req \in Queued(z)
    <3> SUFFICES ASSUME NEW y \in Positions(q), At(q, y).req # At(q, pos).req
                 PROVE  At(q, y).req \in Queued(z)
      OBVIOUS
    <3>1. PICK x \in Positions(z) : y = Lift(pos, x) BY <1>4
    <3> QED BY <1>4, <3>1 DEF Queued
  <2> QED BY <2>1, <2>2 DEF Queued
<1>10. Indexed(z)
  <2>1. DOMAIN z.requestIndex = Queued(z) BY <1>1, <1>3, <1>9 DEF Indexed
  <2>2. \A x \in Positions(z) : z.requestIndex[At(z, x).req] = <<x.p, x.t>>
    <3> TAKE x \in Positions(z)
    <3>1. At(z, x).req \in DOMAIN z.requestIndex BY <2>1 DEF Queued
    <3>2. q.requestIndex[At(q, Lift(pos, x)).req] = <<Lift(pos, x).p, Lift(pos, x).t>>
      BY <1>1, <1>4 DEF Indexed
    <3> QED BY <1>3, <1>4, <3>1, <3>2
  <2> QED BY <2>1, <2>2 DEF Indexed
<1>11. FlowsOrdered(z)
  <2> SUFFICES ASSUME NEW p \in Priorities, NEW t \in Tenants
               PROVE  /\ \A i, j \in DOMAIN z.flows[p][t] : i < j =>
                           z.flows[p][t][i].seqID < z.flows[p][t][j].seqID
                      /\ \A i \in DOMAIN z.flows[p][t] :
                           /\ Priority[z.flows[p][t][i].req] = p
                           /\ Tenant[z.flows[p][t][i].req] = t
    BY DEF FlowsOrdered
  <2>1. /\ \A i, j \in DOMAIN q.flows[p][t] : i < j =>
             q.flows[p][t][i].seqID < q.flows[p][t][j].seqID
        /\ \A i \in DOMAIN q.flows[p][t] :
             /\ Priority[q.flows[p][t][i].req] = p
             /\ Tenant[q.flows[p][t][i].req] = t
    BY <1>1 DEF FlowsOrdered
  <2>2. CASE ~(p = pos.p /\ t = pos.t) BY SMTT(60), <1>3, <2>1, <2>2
  <2>3. CASE p = pos.p /\ t = pos.t
    <3> DEFINE g == z.flows[p][t]
               from(i) == IF i < pos.i THEN i ELSE i + 1
    <3>1. g = DropEntry(f, pos.i) /\ f = q.flows[p][t] BY <1>3, <2>3
    <3> HIDE DEF g, f
    <3>2. DOMAIN g = 1 .. Len(f) - 1 /\ \A i \in 1 .. Len(f) - 1 : g[i] = f[from(i)]
      BY <1>5, <3>1, DropEntryShifts
    <3>3. Len(f) \in Nat /\ DOMAIN f = 1 .. Len(f) BY <1>5, LenProperties
    <3>4. \A i, j \in 1 .. Len(f) - 1 :
            from(i) \in 1 .. Len(f) /\ (i < j => from(i) < from(j))
      BY <1>5, <3>3
    <3> HIDE DEF from
    <3>5. \A i, j \in 1 .. Len(f) :
            /\ i < j => f[i].seqID < f[j].seqID
            /\ Priority[f[i].req] = p /\ Tenant[f[i].req] = t
      BY <2>1, <3>1, <3>3
    <3>6. \A i, j \in DOMAIN g : i < j => g[i].seqID < g[j].seqID
      BY SMTT(60), <3>2, <3>4, <3>5
    <3>7. \A i \in DOMAIN g : Priority[g[i].req] = p /\ Tenant[g[i].req] = t
      BY <3>2, <3>4, <3>5
    <3> QED BY <3>6, <3>7 DEF g
  <2> QED BY <2>2, <2>3
<1>12. \A p \in Priorities : z.bandLen[p] > 0 => p \in z.bands
  <2>1. \A p \in Priorities : q.bandLen[p] \in Nat BY <1>1, QueueFields
  <2> QED BY <1>1, <1>3, <2>1
<1>13. \A x \in Positions(z) : At(z, x).seqID <= n BY <1>1, <1>4
<1>14. GoodQueue(z, n)
  BY <1>3, <1>7, <1>8, <1>10, <1>11, <1>12, <1>13 DEF GoodQueue
<1> QED BY <1>3, <1>9, <1>14 DEF z

------------------------------
(* Insertion. *)

Pushed(q, r, s, now) ==
  Append(q.flows[Priority[r]][Tenant[r]], [req |-> r, seqID |-> s, at |-> now])

(* What PushEntry leaves, field by field. *)
LEMMA PushEntryFields ==
  ASSUME NEW q, NEW r, NEW s, NEW now,
         q \in Queues, r \in Requests, s \in Nat, now \in Nat
  PROVE  LET z == PushEntry(q, r, s, now)
         IN  /\ z \in Queues
             /\ z.flows[Priority[r]][Tenant[r]] = Pushed(q, r, s, now)
             /\ \A p \in Priorities, t \in Tenants :
                  ~(p = Priority[r] /\ t = Tenant[r]) => z.flows[p][t] = q.flows[p][t]
             /\ \A p \in Priorities :
                  z.bandLen[p] = IF p = Priority[r] THEN q.bandLen[p] + 1 ELSE q.bandLen[p]
             /\ z.totalLen = q.totalLen + 1
             /\ DOMAIN z.requestIndex = DOMAIN q.requestIndex \cup {r}
             /\ z.requestIndex[r] = <<Priority[r], Tenant[r]>>
             /\ \A x \in DOMAIN q.requestIndex :
                  x # r => z.requestIndex[x] = q.requestIndex[x]
             /\ z.bands = q.bands /\ z.cursors = q.cursors /\ z.panic = q.panic
             /\ z.shedCount = q.shedCount /\ z.rejectedCount = q.rejectedCount
<1> DEFINE e == [req |-> r, seqID |-> s, at |-> now]
           z == PushEntry(q, r, s, now)
           P == Priority[r]
           T == Tenant[r]
           g == Append(q.flows[P][T], e)
           R == DOMAIN q.requestIndex \cup {r}
           index == [x \in R |-> IF x = r THEN <<P, T>> ELSE q.requestIndex[x]]
           flows == [q.flows EXCEPT ![P][T] = g]
           bandLen == [q.bandLen EXCEPT ![P] = @ + 1]
<1>1. z = [q EXCEPT !.flows = flows, !.bandLen = bandLen, !.totalLen = @ + 1,
                    !.requestIndex = index]
  BY DEF PushEntry, Queues
<1>2. /\ z.flows = flows /\ z.requestIndex = index /\ z.bandLen = bandLen
      /\ z.totalLen = q.totalLen + 1
      /\ z.bands = q.bands /\ z.cursors = q.cursors /\ z.panic = q.panic
      /\ z.shedCount = q.shedCount /\ z.rejectedCount = q.rejectedCount
  BY <1>1 DEF Queues
<1>3. q.flows \in [Priorities -> [Tenants -> Seq(Entries)]]
      /\ q.bandLen \in [Priorities -> Nat] /\ q.totalLen \in Nat
  BY QueueFields
<1>4. P \in Priorities /\ T \in Tenants
  BY GatewayQueueAssumption DEF Priorities
<1> HIDE DEF P, T
<1>5. g \in Seq(Entries)
  <2>1. q.flows[P][T] \in Seq(Entries) BY <1>3, <1>4
  <2>2. e \in Entries BY DEF Entries
  <2> HIDE DEF e
  <2> QED BY <2>1, <2>2, AppendProperties
<1> HIDE DEF g
<1>6. /\ flows \in [Priorities -> [Tenants -> Seq(Entries)]]
      /\ \A p \in Priorities, t \in Tenants :
           flows[p][t] = IF p = P /\ t = T THEN g ELSE q.flows[p][t]
  BY <1>3, <1>4, <1>5
<1>7. g = Pushed(q, r, s, now) BY DEF g, Pushed, P, T
<1>8. /\ bandLen \in [Priorities -> Nat] /\ q.totalLen + 1 \in Nat
      /\ \A p \in Priorities :
           bandLen[p] = IF p = P THEN q.bandLen[p] + 1 ELSE q.bandLen[p]
  BY <1>3, <1>4
<1>9. /\ index \in UNION {[S -> Priorities \X Tenants] : S \in SUBSET Requests}
      /\ DOMAIN index = R
      /\ \A x \in R : index[x] = IF x = r THEN <<P, T>> ELSE q.requestIndex[x]
  <2>1. R \subseteq Requests /\ index \in [R -> Priorities \X Tenants]
    BY <1>4, QueueFields
  <2> QED BY <2>1, IndexType
<1>10. z \in Queues
  <2> HIDE DEF z, flows, bandLen, index
  <2> QED BY <1>1, <1>2, <1>6, <1>8, <1>9 DEF Queues
<1> HIDE DEF z, flows, bandLen, index
<1>11. flows[P][T] = Pushed(q, r, s, now) BY <1>4, <1>6, <1>7
<1>12. index[r] = <<P, T>> /\ \A x \in DOMAIN q.requestIndex :
                               x # r => index[x] = q.requestIndex[x]
  BY <1>9
<1>13. \A p \in Priorities, t \in Tenants :
         ~(p = P /\ t = T) => flows[p][t] = q.flows[p][t]
  BY <1>6
<1> QED BY <1>2, <1>8, <1>9, <1>10, <1>11, <1>12, <1>13 DEF z, P, T

(* The places and entries after an insertion. *)
LEMMA PushEntryPlaces ==
  ASSUME NEW q, NEW r, NEW s, NEW now,
         q \in Queues, r \in Requests, s \in Nat, now \in Nat
  PROVE  LET z == PushEntry(q, r, s, now)
             last == [p |-> Priority[r], t |-> Tenant[r],
                      i |-> Len(q.flows[Priority[r]][Tenant[r]]) + 1]
         IN  /\ last \notin Positions(q)
             /\ Positions(z) = Positions(q) \cup {last}
             /\ At(z, last).req = r /\ At(z, last).seqID = s
             /\ \A x \in Positions(q) : At(z, x) = At(q, x)
<1> DEFINE e == [req |-> r, seqID |-> s, at |-> now]
           z == PushEntry(q, r, s, now)
           P == Priority[r]
           T == Tenant[r]
           f == q.flows[P][T]
           last == [p |-> P, t |-> T, i |-> Len(f) + 1]
<1>1. /\ z \in Queues
      /\ z.flows[P][T] = Pushed(q, r, s, now)
      /\ \A p \in Priorities, t \in Tenants :
           ~(p = P /\ t = T) => z.flows[p][t] = q.flows[p][t]
  BY PushEntryFields
<1>2. P \in Priorities /\ T \in Tenants /\ f \in Seq(Entries) /\ e \in Entries
  <2>1. P \in Priorities /\ T \in Tenants
    BY GatewayQueueAssumption DEF Priorities
  <2>2. q.flows \in [Priorities -> [Tenants -> Seq(Entries)]] BY QueueFields
  <2> QED BY <2>1, <2>2 DEF Entries
<1>3. Pushed(q, r, s, now) = Append(f, e) BY DEF Pushed
<1> HIDE DEF z, P, T, e, f
<1>4. z.flows[P][T] = Append(f, e) BY <1>1, <1>2, <1>3
<1>5. /\ Len(f) \in Nat /\ DOMAIN f = 1 .. Len(f)
      /\ DOMAIN z.flows[P][T] = 1 .. Len(f) + 1
      /\ z.flows[P][T][Len(f) + 1] = e
      /\ \A i \in 1 .. Len(f) : z.flows[P][T][i] = f[i]
  <2>1. /\ Append(f, e) \in Seq(Entries)
        /\ Len(Append(f, e)) = Len(f) + 1
        /\ \A i \in 1 .. Len(f) : Append(f, e)[i] = f[i]
        /\ Append(f, e)[Len(f) + 1] = e
    BY <1>2, AppendProperties
  <2>2. Len(f) \in Nat /\ DOMAIN f = 1 .. Len(f)
        /\ DOMAIN Append(f, e) = 1 .. Len(Append(f, e))
    BY <1>2, <2>1, LenProperties
  <2> QED BY <1>4, <2>1, <2>2
<1>6. last \notin Positions(q)
  <2>1. Len(f) + 1 \notin DOMAIN f BY <1>5
  <2> SUFFICES ASSUME last \in Positions(q) PROVE FALSE OBVIOUS
  <2>2. last.i \in DOMAIN q.flows[last.p][last.t] BY PlaceIs
  <2> QED BY <2>1, <2>2 DEF f
<1>7. ASSUME NEW x \in Positions(q)
      PROVE  x \in Positions(z) /\ At(z, x) = At(q, x)
  <2>1. /\ x.p \in Priorities /\ x.t \in Tenants
        /\ x.i \in DOMAIN q.flows[x.p][x.t]
        /\ x = [p |-> x.p, t |-> x.t, i |-> x.i]
    BY PlaceIs
  <2>2. CASE ~(x.p = P /\ x.t = T)
    <3>1. z.flows[x.p][x.t] = q.flows[x.p][x.t] BY <1>1, <2>1, <2>2
    <3>2. x.i \in DOMAIN z.flows[x.p][x.t] BY <2>1, <3>1
    <3> QED BY <2>1, <3>1, <3>2, PlaceIs DEF At
  <2>3. CASE x.p = P /\ x.t = T
    <3>1. x.i \in 1 .. Len(f) BY <1>5, <2>1, <2>3 DEF f
    <3>2. x.i \in DOMAIN z.flows[x.p][x.t] BY <1>5, <2>3, <3>1
    <3>3. z.flows[x.p][x.t][x.i] = q.flows[x.p][x.t][x.i]
      BY <1>5, <2>3, <3>1 DEF f
    <3> QED BY <2>1, <3>2, <3>3, PlaceIs DEF At
  <2> QED BY <2>2, <2>3
<1>8. last \in Positions(z) /\ At(z, last) = e
  <2>1. Len(f) + 1 \in DOMAIN z.flows[P][T] BY <1>5
  <2> QED BY <1>2, <1>5, <2>1, PlaceIs DEF At
<1>9. ASSUME NEW x \in Positions(z), x # last
      PROVE  x \in Positions(q)
  <2>1. /\ x.p \in Priorities /\ x.t \in Tenants
        /\ x.i \in DOMAIN z.flows[x.p][x.t]
        /\ x = [p |-> x.p, t |-> x.t, i |-> x.i]
    BY PlaceIs
  <2>2. CASE ~(x.p = P /\ x.t = T)
    <3>1. x.i \in DOMAIN q.flows[x.p][x.t] BY <1>1, <2>1, <2>2
    <3> QED BY <2>1, <3>1, PlaceIs
  <2>3. CASE x.p = P /\ x.t = T
    <3>1. x.i \in 1 .. Len(f) + 1 /\ x.i # Len(f) + 1 BY <1>5, <1>9, <2>1, <2>3
    <3>2. x.i \in DOMAIN q.flows[x.p][x.t] BY <1>5, <2>3, <3>1 DEF f
    <3> QED BY <2>1, <3>2, PlaceIs
  <2> QED BY <2>2, <2>3
<1>10. Positions(z) = Positions(q) \cup {last} BY <1>7, <1>8, <1>9
<1>11. At(z, last).req = r /\ At(z, last).seqID = s BY <1>8 DEF e
<1> QED BY <1>6, <1>7, <1>10, <1>11 DEF z, P, T, f

(* Appending the newest entry to its flow leaves a good queue. *)
LEMMA PushEntryGood ==
  ASSUME NEW q, NEW n \in Nat, GoodQueue(q, n),
         NEW r \in Requests, r \notin Queued(q), Priority[r] \in q.bands,
         NEW s \in Nat, n < s, NEW now \in Nat
  PROVE  LET z == PushEntry(q, r, s, now)
         IN  /\ GoodQueue(z, s)
             /\ Queued(z) = Queued(q) \cup {r}
             /\ z.panic = q.panic /\ z.bands = q.bands
             /\ z.shedCount = q.shedCount /\ z.rejectedCount = q.rejectedCount
<1> DEFINE z == PushEntry(q, r, s, now)
           P == Priority[r]
           T == Tenant[r]
           f == q.flows[P][T]
           e == [req |-> r, seqID |-> s, at |-> now]
           last == [p |-> P, t |-> T, i |-> Len(f) + 1]
<1>1. /\ q \in Queues /\ Counted(q) /\ Alone(q) /\ Indexed(q) /\ FlowsOrdered(q)
      /\ \A p \in Priorities : q.bandLen[p] > 0 => p \in q.bands
      /\ \A x \in Positions(q) : At(q, x).seqID <= n
  BY DEF GoodQueue
<1>2. /\ z \in Queues
      /\ z.flows[P][T] = Pushed(q, r, s, now)
      /\ \A p \in Priorities, t \in Tenants :
           ~(p = P /\ t = T) => z.flows[p][t] = q.flows[p][t]
      /\ \A p \in Priorities :
           z.bandLen[p] = IF p = P THEN q.bandLen[p] + 1 ELSE q.bandLen[p]
      /\ z.totalLen = q.totalLen + 1
      /\ DOMAIN z.requestIndex = DOMAIN q.requestIndex \cup {r}
      /\ z.requestIndex[r] = <<P, T>>
      /\ \A x \in DOMAIN q.requestIndex :
           x # r => z.requestIndex[x] = q.requestIndex[x]
      /\ z.bands = q.bands /\ z.panic = q.panic
      /\ z.shedCount = q.shedCount /\ z.rejectedCount = q.rejectedCount
  BY <1>1, PushEntryFields
<1>3. /\ last \notin Positions(q)
      /\ Positions(z) = Positions(q) \cup {last}
      /\ At(z, last).req = r /\ At(z, last).seqID = s
      /\ \A x \in Positions(q) : At(z, x) = At(q, x)
  BY <1>1, PushEntryPlaces
<1>4. P \in Priorities /\ T \in Tenants /\ last.p = P /\ last.t = T
  BY GatewayQueueAssumption DEF Priorities
<1>5. e.req = r /\ e.seqID = s OBVIOUS
<1>6. \A x \in Positions(q) : At(q, x).req \in Queued(q) /\ At(q, x).seqID \in Nat
  BY <1>1, EntryAt DEF Queued
<1>7. Pushed(q, r, s, now) = Append(f, e) BY DEF Pushed
<1> HIDE DEF z, last, e, f, P, T
<1>8. Counted(z)
  <2>1. IsFiniteSet(Positions(z)) /\ z.totalLen = Cardinality(Positions(z))
    BY <1>1, <1>2, <1>3, FS_AddElement DEF Counted
  <2>2. ASSUME NEW p \in Priorities
        PROVE  z.bandLen[p] = Cardinality(Band(z, p))
    <3>1. Band(q, p) \in SUBSET Positions(q) BY DEF Band
    <3>2. q.bandLen[p] = Cardinality(Band(q, p)) /\ IsFiniteSet(Band(q, p))
      BY <1>1, <3>1, FS_Subset DEF Counted
    <3>3. CASE p = P
      <4>1. Band(z, p) = Band(q, p) \cup {last} /\ last \notin Band(q, p)
        BY <1>3, <1>4, <3>3 DEF Band
      <4>2. Cardinality(Band(z, p)) = Cardinality(Band(q, p)) + 1
        BY ZenonT(60), <3>2, <4>1, FS_AddElement
      <4>3. z.bandLen[p] = q.bandLen[p] + 1 BY <1>2, <3>3
      <4> QED BY <3>2, <4>2, <4>3
    <3>4. CASE p # P
      <4>1. Band(z, p) = Band(q, p) BY <1>3, <1>4, <3>4 DEF Band
      <4> QED BY <1>2, <3>2, <3>4, <4>1
    <3> QED BY <3>3, <3>4
  <2> QED BY <2>1, <2>2 DEF Counted
<1>9. Alone(z)
  <2> SUFFICES ASSUME NEW x \in Positions(z), NEW y \in Positions(z),
                      At(z, x).req = At(z, y).req
               PROVE  x = y
    BY DEF Alone
  <2>1. CASE x \in Positions(q) /\ y \in Positions(q)
    BY <1>1, <1>3, <2>1 DEF Alone
  <2>2. CASE x = last \/ y = last BY <1>3, <1>5, <1>6, <2>2
  <2> QED BY <1>3, <2>1, <2>2
<1>10. Queued(z) = Queued(q) \cup {r} BY <1>3, <1>5 DEF Queued
<1>11. Indexed(z)
  <2>1. DOMAIN z.requestIndex = Queued(z) BY <1>1, <1>2, <1>10 DEF Indexed
  <2>2. \A x \in Positions(z) : z.requestIndex[At(z, x).req] = <<x.p, x.t>>
    <3> TAKE x \in Positions(z)
    <3>1. CASE x = last BY <1>2, <1>3, <1>4, <1>5, <3>1
    <3>2. CASE x \in Positions(q)
      <4>1. At(q, x).req \in DOMAIN q.requestIndex /\ At(q, x).req # r
        BY <1>1, <1>6, <3>2 DEF Indexed
      <4>2. q.requestIndex[At(q, x).req] = <<x.p, x.t>>
        BY <1>1, <3>2 DEF Indexed
      <4> QED BY <1>2, <1>3, <3>2, <4>1, <4>2
    <3> QED BY <1>3, <3>1, <3>2
  <2> QED BY <2>1, <2>2 DEF Indexed
<1>12. FlowsOrdered(z)
  <2> SUFFICES ASSUME NEW p \in Priorities, NEW t \in Tenants
               PROVE  /\ \A i, j \in DOMAIN z.flows[p][t] : i < j =>
                           z.flows[p][t][i].seqID < z.flows[p][t][j].seqID
                      /\ \A i \in DOMAIN z.flows[p][t] :
                           /\ Priority[z.flows[p][t][i].req] = p
                           /\ Tenant[z.flows[p][t][i].req] = t
    BY DEF FlowsOrdered
  <2>1. /\ \A i, j \in DOMAIN q.flows[p][t] : i < j =>
             q.flows[p][t][i].seqID < q.flows[p][t][j].seqID
        /\ \A i \in DOMAIN q.flows[p][t] :
             /\ Priority[q.flows[p][t][i].req] = p
             /\ Tenant[q.flows[p][t][i].req] = t
    BY <1>1 DEF FlowsOrdered
  <2>2. CASE ~(p = P /\ t = T) BY SMTT(60), <1>2, <2>1, <2>2
  <2>3. CASE p = P /\ t = T
    <3> DEFINE g == z.flows[p][t]
    <3>1. g = Append(f, e) /\ f = q.flows[p][t] BY <1>2, <1>7, <2>3 DEF f
    <3>2. f \in Seq(Entries) /\ e \in Entries
      <4>1. q.flows \in [Priorities -> [Tenants -> Seq(Entries)]]
        BY <1>1, QueueFields
      <4> QED BY <3>1, <4>1 DEF e, Entries
    <3> HIDE DEF g
    <3>3. /\ Len(f) \in Nat /\ DOMAIN f = 1 .. Len(f)
          /\ DOMAIN g = 1 .. Len(f) + 1
          /\ g[Len(f) + 1] = e
          /\ \A i \in 1 .. Len(f) : g[i] = f[i]
      <4>1. /\ Append(f, e) \in Seq(Entries)
            /\ Len(Append(f, e)) = Len(f) + 1
            /\ \A i \in 1 .. Len(f) : Append(f, e)[i] = f[i]
            /\ Append(f, e)[Len(f) + 1] = e
        BY <3>2, AppendProperties
      <4>2. Len(f) \in Nat /\ DOMAIN f = 1 .. Len(f)
            /\ DOMAIN Append(f, e) = 1 .. Len(Append(f, e))
        BY <3>2, <4>1, LenProperties
      <4> QED BY <3>1, <4>1, <4>2
    <3>4. \A i \in 1 .. Len(f) : f[i].seqID \in Nat /\ f[i].seqID <= n
      <4> TAKE i \in 1 .. Len(f)
      <4> DEFINE x == [p |-> P, t |-> T, i |-> i]
      <4>1. x \in Positions(q) /\ At(q, x) = f[i]
        BY SMTT(60), <1>4, <2>3, <3>1, <3>3, PlaceIs DEF At
      <4> QED BY <1>1, <1>6, <4>1
    <3>5. \A i, j \in 1 .. Len(f) :
            /\ i < j => f[i].seqID < f[j].seqID
            /\ Priority[f[i].req] = p /\ Tenant[f[i].req] = t
      BY <2>1, <3>1, <3>3
    <3>6. \A i, j \in DOMAIN g : i < j => g[i].seqID < g[j].seqID
      <4> SUFFICES ASSUME NEW i \in 1 .. Len(f) + 1, NEW j \in 1 .. Len(f) + 1, i < j
                   PROVE  g[i].seqID < g[j].seqID
        BY <3>3
      <4>1. i \in 1 .. Len(f) /\ g[i] = f[i] BY <3>3
      <4>2. CASE j \in 1 .. Len(f) BY <3>3, <3>5, <4>1, <4>2
      <4>3. CASE j = Len(f) + 1 BY <1>5, <3>3, <3>4, <4>1, <4>3
      <4> QED BY <3>3, <4>2, <4>3, SMTT(40)
    <3>7. \A i \in DOMAIN g : Priority[g[i].req] = p /\ Tenant[g[i].req] = t
      <4> SUFFICES ASSUME NEW i \in 1 .. Len(f) + 1
                   PROVE  Priority[g[i].req] = p /\ Tenant[g[i].req] = t
        BY <3>3
      <4>1. CASE i \in 1 .. Len(f) BY <3>3, <3>5, <4>1
      <4>2. CASE i = Len(f) + 1 BY <1>5, <2>3, <3>3, <4>2 DEF P, T
      <4> QED BY <3>3, <4>1, <4>2
    <3> QED BY <3>6, <3>7 DEF g
  <2> QED BY <2>2, <2>3
<1>13. \A p \in Priorities : z.bandLen[p] > 0 => p \in z.bands
  BY <1>1, <1>2 DEF P
<1>14. \A x \in Positions(z) : At(z, x).seqID <= s BY <1>1, <1>3, <1>5, <1>6
<1>15. GoodQueue(z, s)
  BY <1>2, <1>8, <1>9, <1>11, <1>12, <1>13, <1>14 DEF GoodQueue
<1> QED BY <1>2, <1>10, <1>15 DEF z

------------------------------
(* The operations of the queue. *)

(* Bands, cursors and the counts of what was turned away are not part of   *)
(* what makes a queue good, but bands must not disappear.                  *)
LEMMA SameFlowsGood ==
  ASSUME NEW q, NEW n \in Nat, GoodQueue(q, n), NEW m \in Nat, n <= m,
         NEW z, z \in Queues,
         z.flows = q.flows, z.bandLen = q.bandLen, z.totalLen = q.totalLen,
         z.requestIndex = q.requestIndex, q.bands \subseteq z.bands
  PROVE  /\ GoodQueue(z, m)
         /\ Queued(z) = Queued(q)
         /\ Positions(z) = Positions(q)
         /\ \A x : At(z, x) = At(q, x)
<1>1. \A x : At(z, x) = At(q, x) BY DEF At
<1>2. Positions(z) = Positions(q) BY DEF Positions
<1>3. Queued(z) = Queued(q) BY <1>1, <1>2 DEF Queued
<1>4. \A p : Band(z, p) = Band(q, p) BY <1>2 DEF Band
<1>5. Counted(z) BY <1>2, <1>4 DEF GoodQueue, Counted
<1>6. Alone(z) /\ Indexed(z) BY <1>1, <1>2, <1>3 DEF GoodQueue, Alone, Indexed
<1>7. FlowsOrdered(z) BY DEF GoodQueue, FlowsOrdered
<1>8. \A p \in Priorities : z.bandLen[p] > 0 => p \in z.bands BY DEF GoodQueue
<1>9. \A x \in Positions(z) : At(z, x).seqID <= m
  <2>1. \A x \in Positions(q) : At(q, x).seqID \in Nat /\ At(q, x).seqID <= n
    BY EntryAt DEF GoodQueue
  <2> QED BY <1>1, <1>2, <2>1
<1> QED BY <1>1, <1>2, <1>3, <1>5, <1>6, <1>7, <1>8, <1>9 DEF GoodQueue

(* A shed victim is the last of its flow: later entries of the flow have   *)
(* the same priority and larger numbers, so they would be shed before it.  *)
LEMMA VictimIsTail ==
  ASSUME NEW q, NEW n, GoodQueue(q, n), NEW priority, NEW s,
         NEW v \in FindGlobalShedVictim(q, priority, s)
  PROVE  /\ v \in Positions(q)
         /\ IsSheddable(At(q, v).req)
         /\ v.i = Len(q.flows[v.p][v.t])
<1> DEFINE S == {pos \in Positions(q) : IsSheddable(At(q, pos).req)}
           f == q.flows[v.p][v.t]
           last == [p |-> v.p, t |-> v.t, i |-> Len(f)]
<1>1. v \in S /\ \A y \in S \ {v} : ShedBefore(q, v, y)
  BY DEF FindGlobalShedVictim
<1>2. q \in Queues /\ FlowsOrdered(q) BY SMTT(40) DEF GoodQueue
<1>3. /\ v.p \in Priorities /\ v.t \in Tenants
      /\ f \in Seq(Entries) /\ v.i \in 1 .. Len(f)
      /\ v = [p |-> v.p, t |-> v.t, i |-> v.i]
      /\ At(q, v) = f[v.i] /\ At(q, v).seqID \in Nat
  BY <1>1, <1>2, EntryAt, PlaceIs, ZenonT(40) DEF At
<1>4. Len(f) \in Nat /\ DOMAIN f = 1 .. Len(f) BY <1>3, LenProperties
<1>5. ASSUME v.i # Len(f) PROVE FALSE
  <2>1. Len(f) \in DOMAIN f /\ v.i \in DOMAIN f /\ v.i < Len(f)
    BY <1>3, <1>4, <1>5
  <2>2. last \in Positions(q) /\ At(q, last) = f[Len(f)]
    BY <1>3, <2>1, PlaceIs, SMTT(40) DEF At
  <2>3. /\ f[v.i].seqID < f[Len(f)].seqID
        /\ Priority[f[v.i].req] = Priority[f[Len(f)].req]
    BY <1>2, <1>3, <2>1, SMTT(40) DEF FlowsOrdered
  <2>4. last \in S \ {v}
    BY <1>1, <1>3, <1>5, <2>2, <2>3, SMTT(40) DEF IsSheddable
  <2>5. last.p = v.p /\ v.p \in Int /\ At(q, last).seqID \in Nat
    BY <1>2, <1>3, <2>2, EntryAt, GatewayQueueAssumption DEF Priorities
  <2>6. ShedBefore(q, v, last) BY <1>1, <2>4
  <2> HIDE DEF f, last, S
  <2> QED BY <1>3, <2>2, <2>3, <2>5, <2>6 DEF ShedBefore
<1> QED BY <1>1, <1>5

(* The band of a newcomer exists before its entry is looked for a place. *)
WithBand(q, r) == [q EXCEPT !.bands = @ \cup {Priority[r]}]

(* Creating a band changes nothing else. *)
LEMMA WithBandGood ==
  ASSUME NEW q, NEW n \in Nat, GoodQueue(q, n), NEW r \in Requests
  PROVE  LET z == WithBand(q, r)
         IN  /\ GoodQueue(z, n) /\ Queued(z) = Queued(q)
             /\ Priority[r] \in z.bands
             /\ z.panic = q.panic /\ z.totalLen = q.totalLen
             /\ z.shedCount = q.shedCount /\ z.rejectedCount = q.rejectedCount
<1> DEFINE z == WithBand(q, r)
<1>1. q \in Queues /\ q.bands \subseteq Priorities /\ Priority[r] \in Priorities
  BY QueueFields DEF GoodQueue, Priorities
<1>2. /\ z \in Queues
      /\ z.flows = q.flows /\ z.bandLen = q.bandLen /\ z.totalLen = q.totalLen
      /\ z.requestIndex = q.requestIndex /\ z.bands = q.bands \cup {Priority[r]}
      /\ z.panic = q.panic
      /\ z.shedCount = q.shedCount /\ z.rejectedCount = q.rejectedCount
  BY <1>1 DEF WithBand, Queues
<1> HIDE DEF z
<1>3. GoodQueue(z, n) /\ Queued(z) = Queued(q) BY <1>2, SameFlowsGood
<1> QED BY <1>2, <1>3 DEF z

(* The counters of the turned away. *)
LEMMA RejectGood ==
  ASSUME NEW q, NEW n \in Nat, GoodQueue(q, n), NEW m \in Nat, n <= m
  PROVE  LET e == Reject(q)
         IN  /\ e.outcome = "Rejected" /\ e.victims = {}
             /\ GoodQueue(e.queue, m) /\ Queued(e.queue) = Queued(q)
             /\ e.queue.panic = q.panic /\ e.queue.shedCount = q.shedCount
             /\ e.queue.rejectedCount = q.rejectedCount + 1
             /\ e.queue.totalLen = q.totalLen
<1> DEFINE z == [q EXCEPT !.rejectedCount = @ + 1]
<1>1. q \in Queues BY DEF GoodQueue
<1>2. /\ z \in Queues
      /\ z.flows = q.flows /\ z.bandLen = q.bandLen /\ z.totalLen = q.totalLen
      /\ z.requestIndex = q.requestIndex /\ z.bands = q.bands
      /\ z.panic = q.panic
      /\ z.shedCount = q.shedCount /\ z.rejectedCount = q.rejectedCount + 1
  <2>1. q.rejectedCount \in Nat BY <1>1 DEF Queues
  <2> DEFINE k == q.rejectedCount + 1
  <2>2. z = [q EXCEPT !.rejectedCount = k] BY <1>1 DEF Queues
  <2>3. k \in Nat BY <2>1
  <2> HIDE DEF k, z
  <2>4. /\ z \in Queues
        /\ z.flows = q.flows /\ z.bandLen = q.bandLen /\ z.totalLen = q.totalLen
        /\ z.requestIndex = q.requestIndex /\ z.bands = q.bands
        /\ z.panic = q.panic /\ z.shedCount = q.shedCount /\ z.rejectedCount = k
    BY <1>1, <2>2, <2>3 DEF Queues
  <2> QED BY <2>4 DEF k
<1>3. /\ Reject(q).queue = z /\ Reject(q).outcome = "Rejected"
      /\ Reject(q).victims = {}
  BY DEF Reject, Outcome
<1> HIDE DEF z
<1>4. GoodQueue(z, m) /\ Queued(z) = Queued(q) BY <1>2, SameFlowsGood
<1> QED BY <1>2, <1>3, <1>4

(* Shedding replaces the tail of a flow by the newcomer, without a panic. *)
LEMMA ShedGood ==
  ASSUME NEW q, NEW n \in Nat, GoodQueue(q, n),
         NEW r \in Requests, r \notin Queued(q), Priority[r] \in q.bands,
         NEW s \in Nat, n < s, NEW now \in Nat,
         NEW priority, NEW v \in FindGlobalShedVictim(q, priority, s)
  PROVE  LET cut == RemoveEntryByIndex(q, v)
             z == PushEntry([cut EXCEPT !.shedCount = @ + 1], r, s, now)
             x == At(q, v).req
         IN  /\ x \in Queued(q) /\ IsSheddable(x)
             /\ GoodQueue(z, s)
             /\ Queued(z) = (Queued(q) \ {x}) \cup {r}
             /\ z.panic = q.panic
             /\ z.shedCount = q.shedCount + 1 /\ z.rejectedCount = q.rejectedCount
<1> DEFINE x == At(q, v).req
           cut == TakeOut(q, v)
           y == [cut EXCEPT !.shedCount = @ + 1]
<1>1. v \in Positions(q) /\ IsSheddable(x) /\ RemoveEntryByIndex(q, v) = cut
  BY VictimIsTail DEF RemoveEntryByIndex
<1>2. /\ GoodQueue(cut, n)
      /\ Queued(cut) = Queued(q) \ {x}
      /\ cut.panic = q.panic /\ cut.bands = q.bands
      /\ cut.shedCount = q.shedCount /\ cut.rejectedCount = q.rejectedCount
  BY <1>1, TakeOutGood
<1>3. x \in Queued(q) BY <1>1 DEF Queued
<1> HIDE DEF cut, x
<1>4. cut \in Queues BY <1>2 DEF GoodQueue
<1>5. /\ y \in Queues
      /\ y.flows = cut.flows /\ y.bandLen = cut.bandLen /\ y.totalLen = cut.totalLen
      /\ y.requestIndex = cut.requestIndex /\ y.bands = cut.bands
      /\ y.panic = cut.panic
      /\ y.shedCount = cut.shedCount + 1 /\ y.rejectedCount = cut.rejectedCount
  <2> DEFINE k == cut.shedCount + 1
  <2>1. cut.shedCount \in Nat BY <1>4 DEF Queues
  <2>2. y = [cut EXCEPT !.shedCount = k] BY <1>4 DEF Queues
  <2>3. k \in Nat BY <2>1
  <2> HIDE DEF k, y
  <2>4. /\ y \in Queues
        /\ y.flows = cut.flows /\ y.bandLen = cut.bandLen /\ y.totalLen = cut.totalLen
        /\ y.requestIndex = cut.requestIndex /\ y.bands = cut.bands
        /\ y.panic = cut.panic /\ y.shedCount = k
        /\ y.rejectedCount = cut.rejectedCount
    BY <1>4, <2>2, <2>3 DEF Queues
  <2> QED BY <2>4 DEF k
<1> HIDE DEF y
<1>6. GoodQueue(y, n) /\ Queued(y) = Queued(cut) BY <1>2, <1>5, SameFlowsGood
<1>7. r \notin Queued(y) /\ Priority[r] \in y.bands BY <1>2, <1>5, <1>6
<1> DEFINE z == PushEntry(y, r, s, now)
<1>8. /\ GoodQueue(z, s)
      /\ Queued(z) = Queued(y) \cup {r}
      /\ z.panic = y.panic
      /\ z.shedCount = y.shedCount /\ z.rejectedCount = y.rejectedCount
  BY <1>6, <1>7, PushEntryGood
<1> HIDE DEF z
<1>9. z = PushEntry([RemoveEntryByIndex(q, v) EXCEPT !.shedCount = @ + 1], r, s, now)
  BY <1>1 DEF z, y
<1> QED BY <1>1, <1>2, <1>3, <1>5, <1>6, <1>8, <1>9 DEF x

(* An enqueue leaves a good queue, and no panic of its own. *)
KeptGood(e, q, s) == GoodQueue(e.queue, s) /\ e.queue.panic = q.panic

(* A newcomer turned away leaves the entries and the shed count alone. *)
TurnedAway(e, q) ==
  /\ e.victims = {}
  /\ Queued(e.queue) = Queued(q)
  /\ e.queue.totalLen = q.totalLen
  /\ e.queue.shedCount = q.shedCount
  /\ e.queue.rejectedCount = q.rejectedCount + 1

(* A newcomer taken in waits, and the victims it displaced are counted. *)
TakenIn(e, q, r) ==
  /\ e.victims \subseteq Queued(q)
  /\ \A x \in e.victims : IsSheddable(x)
  /\ Queued(e.queue) = (Queued(q) \ e.victims) \cup {r}
  /\ e.queue.shedCount = q.shedCount + Cardinality(e.victims)
  /\ e.queue.rejectedCount = q.rejectedCount

(* Enqueue: the newcomer is turned away, waits, or displaces one sheddable *)
(* request.                                                                *)
LEMMA EnqueueGood ==
  ASSUME NEW q, NEW n \in Nat, GoodQueue(q, n), NEW c,
         NEW r \in Requests, r \notin Queued(q),
         NEW s \in Nat, n < s, NEW now \in Nat
  PROVE  LET e == Enqueue(q, c, r, s, now)
         IN  /\ KeptGood(e, q, s)
             /\ e.outcome = "Rejected" => TurnedAway(e, q)
             /\ e.outcome # "Rejected" => TakenIn(e, q, r)
<1> DEFINE z == WithBand(q, r)
           victims == FindGlobalShedVictim(z, Priority[r], s)
           v == CHOOSE pos \in victims : TRUE
           e == Enqueue(q, c, r, s, now)
           Shed(pos) ==
             LET cut == RemoveEntryByIndex(z, pos)
             IN Outcome(PushEntry([cut EXCEPT !.shedCount = @ + 1], r, s, now),
                        "ShedVictim", {At(z, pos).req})
<1>1. /\ GoodQueue(z, n) /\ Queued(z) = Queued(q)
      /\ Priority[r] \in z.bands
      /\ z.panic = q.panic /\ z.totalLen = q.totalLen
      /\ z.shedCount = q.shedCount /\ z.rejectedCount = q.rejectedCount
  BY WithBandGood
<1>2. \/ e = Reject(z)
      \/ e = Outcome(PushEntry(z, r, s, now), "Enqueued", {})
      \/ v \in victims /\ e = Shed(v)
  BY DEF Enqueue, WithBand
<1> HIDE DEF z, victims, v, e
<1>6. /\ q.shedCount \in Nat
      /\ Cardinality({}) = 0 /\ \A x : Cardinality({x}) = 1
  <2>1. q \in Queues BY DEF GoodQueue
  <2>2. q.shedCount \in Nat BY <2>1, QueueFields
  <2> QED BY <2>2, FS_EmptySet, FS_Singleton
<1>3. CASE e = Reject(z)
  <2> DEFINE g == Reject(z)
  <2>1. n <= s OBVIOUS
  <2>2. GoodQueue(z, n) BY <1>1
  <2>3. /\ g.outcome = "Rejected" /\ g.victims = {}
        /\ GoodQueue(g.queue, s) /\ Queued(g.queue) = Queued(z)
        /\ g.queue.panic = z.panic /\ g.queue.shedCount = z.shedCount
        /\ g.queue.rejectedCount = z.rejectedCount + 1
        /\ g.queue.totalLen = z.totalLen
    BY <2>1, <2>2, RejectGood
  <2>4. e = g BY <1>3
  <2> HIDE DEF g
  <2>5. KeptGood(e, q, s) BY <1>1, <2>3, <2>4 DEF KeptGood
  <2>6. TurnedAway(e, q) BY <1>1, <2>3, <2>4 DEF TurnedAway
  <2> QED BY <2>3, <2>4, <2>5, <2>6 DEF e
<1>4. CASE e = Outcome(PushEntry(z, r, s, now), "Enqueued", {})
  <2> DEFINE y == PushEntry(z, r, s, now)
  <2>1. /\ GoodQueue(y, s) /\ Queued(y) = Queued(z) \cup {r}
        /\ y.panic = z.panic
        /\ y.shedCount = z.shedCount /\ y.rejectedCount = z.rejectedCount
    BY <1>1, PushEntryGood
  <2>2. e.queue = y /\ e.outcome = "Enqueued" /\ e.victims = {}
    BY <1>4 DEF Outcome
  <2> HIDE DEF y
  <2>3. e.queue.shedCount = q.shedCount + Cardinality(e.victims)
    BY <1>1, <1>6, <2>1, <2>2
  <2> QED BY <1>1, <2>1, <2>2, <2>3 DEF e, KeptGood, TakenIn
<1>5. CASE v \in victims /\ e = Shed(v)
  <2> DEFINE y == PushEntry([RemoveEntryByIndex(z, v) EXCEPT !.shedCount = @ + 1],
                            r, s, now)
             x == At(z, v).req
  <2>1. v \in FindGlobalShedVictim(z, Priority[r], s) BY <1>5 DEF victims
  <2>2. /\ x \in Queued(z) /\ IsSheddable(x)
        /\ GoodQueue(y, s)
        /\ Queued(y) = (Queued(z) \ {x}) \cup {r}
        /\ y.panic = z.panic
        /\ y.shedCount = z.shedCount + 1 /\ y.rejectedCount = z.rejectedCount
    BY <1>1, <2>1, ShedGood
  <2>3. e.queue = y /\ e.outcome = "ShedVictim" /\ e.victims = {x}
    BY <1>5 DEF Outcome
  <2> HIDE DEF y, x
  <2>4. e.queue.shedCount = q.shedCount + Cardinality(e.victims)
    BY <1>1, <1>6, <2>2, <2>3
  <2> QED BY <1>1, <2>2, <2>3, <2>4 DEF e, KeptGood, TakenIn
<1> QED BY <1>2, <1>3, <1>4, <1>5

(* An insertion moves nobody. *)
LEMMA PushEntryStays ==
  ASSUME NEW q, q \in Queues, NEW r \in Requests, NEW s \in Nat, NEW now \in Nat
  PROVE  LET z == PushEntry(q, r, s, now)
         IN  \A x \in Positions(q) : x \in Positions(z) /\ At(z, x) = At(q, x)
<1> DEFINE z == PushEntry(q, r, s, now)
           P == Priority[r]
           T == Tenant[r]
           f == q.flows[P][T]
           last == [p |-> P, t |-> T, i |-> Len(f) + 1]
<1>1. /\ last \notin Positions(q)
      /\ Positions(z) = Positions(q) \cup {last}
      /\ At(z, last).req = r /\ At(z, last).seqID = s
      /\ \A x \in Positions(q) : At(z, x) = At(q, x)
  BY PushEntryPlaces, SMTT(40)
<1> HIDE DEF z, last
<1> QED BY <1>1 DEF z

(* Shedding moves nobody: the victim was the last of its flow. *)
LEMMA ShedStays ==
  ASSUME NEW q, NEW n \in Nat, GoodQueue(q, n),
         NEW r \in Requests, NEW s \in Nat, NEW now \in Nat,
         NEW priority, NEW v \in FindGlobalShedVictim(q, priority, s),
         NEW pos \in Positions(q), pos # v
  PROVE  LET cut == RemoveEntryByIndex(q, v)
             z == PushEntry([cut EXCEPT !.shedCount = @ + 1], r, s, now)
         IN  pos \in Positions(z) /\ At(z, pos) = At(q, pos)
<1> DEFINE cut == TakeOut(q, v)
           y == [cut EXCEPT !.shedCount = @ + 1]
           z == PushEntry(y, r, s, now)
           last == [p |-> v.p, t |-> v.t, i |-> Len(q.flows[v.p][v.t])]
<1>1. /\ v \in Positions(q) /\ v.i = Len(q.flows[v.p][v.t])
      /\ RemoveEntryByIndex(q, v) = cut
  BY VictimIsTail DEF RemoveEntryByIndex
<1>2. q \in Queues /\ Counted(q) BY DEF GoodQueue
<1>3. cut \in Queues
  <2>1. GoodQueue(cut, n) BY <1>1, TakeOutGood
  <2> QED BY <2>1 DEF GoodQueue
<1>4. /\ Positions(cut) = Positions(q) \ {last}
      /\ \A x \in Positions(cut) : At(cut, x) = At(q, Lift(v, x))
  BY <1>1, <1>2, TakeOutPlaces, ZenonT(40)
<1>5. last = v
  <2>1. v = [p |-> v.p, t |-> v.t, i |-> v.i] BY <1>1, PlaceIs
  <2> QED BY <1>1, <2>1
<1>6. Lift(v, pos) = pos
  <2>1. CASE pos.p = v.p /\ pos.t = v.t
    <3>1. /\ pos = [p |-> pos.p, t |-> pos.t, i |-> pos.i]
          /\ v = [p |-> v.p, t |-> v.t, i |-> v.i]
          /\ pos.i \in DOMAIN q.flows[v.p][v.t]
          /\ v.p \in Priorities /\ v.t \in Tenants
      BY <1>1, <2>1, PlaceIs
    <3>2. q.flows[v.p][v.t] \in Seq(Entries)
      <4>1. q.flows \in [Priorities -> [Tenants -> Seq(Entries)]]
        BY <1>2, QueueFields
      <4> QED BY <3>1, <4>1
    <3>3. pos.i \in 1 .. Len(q.flows[v.p][v.t]) /\ Len(q.flows[v.p][v.t]) \in Nat
      BY <3>1, <3>2, LenProperties
    <3>4. pos.i # v.i BY <2>1, <3>1
    <3>5. ~(pos.i >= v.i) BY <1>1, <3>3, <3>4, SMTT(40)
    <3> QED BY <3>5 DEF Lift
  <2>2. CASE ~(pos.p = v.p /\ pos.t = v.t) BY <2>2 DEF Lift
  <2> QED BY <2>1, <2>2
<1>7. pos \in Positions(cut) /\ At(cut, pos) = At(q, pos) BY <1>4, <1>5, <1>6
<1> HIDE DEF cut
<1>8. y \in Queues /\ y.flows = cut.flows
  <2> DEFINE k == cut.shedCount + 1
  <2>1. cut.shedCount \in Nat BY <1>3 DEF Queues
  <2>2. y = [cut EXCEPT !.shedCount = k] BY <1>3 DEF Queues
  <2>3. k \in Nat BY <2>1
  <2> HIDE DEF k, y
  <2> QED BY <1>3, <2>2, <2>3 DEF Queues
<1> HIDE DEF y
<1>9. pos \in Positions(y) /\ At(y, pos) = At(q, pos)
  BY <1>7, <1>8 DEF Positions, At
<1>10. pos \in Positions(z) /\ At(z, pos) = At(y, pos)
  BY <1>8, <1>9, PushEntryStays, ZenonT(40)
<1> QED BY <1>1, <1>9, <1>10 DEF y

(* Whoever waits and is not shed keeps its place when another is enqueued. *)
LEMMA EnqueueStays ==
  ASSUME NEW q, NEW n \in Nat, GoodQueue(q, n), NEW c,
         NEW r \in Requests, NEW s \in Nat, NEW now \in Nat,
         Enqueue(q, c, r, s, now).outcome # "Rejected",
         NEW pos \in Positions(q),
         At(q, pos).req \notin Enqueue(q, c, r, s, now).victims
  PROVE  LET e == Enqueue(q, c, r, s, now)
         IN  pos \in Positions(e.queue) /\ At(e.queue, pos) = At(q, pos)
<1> DEFINE z == WithBand(q, r)
           victims == FindGlobalShedVictim(z, Priority[r], s)
           v == CHOOSE x \in victims : TRUE
           e == Enqueue(q, c, r, s, now)
           Shed(x) ==
             LET cut == RemoveEntryByIndex(z, x)
             IN Outcome(PushEntry([cut EXCEPT !.shedCount = @ + 1], r, s, now),
                        "ShedVictim", {At(z, x).req})
<1>1. GoodQueue(z, n) /\ z \in Queues BY WithBandGood DEF GoodQueue
<1>2. z.flows = q.flows
  <2>1. q \in Queues BY DEF GoodQueue
  <2> QED BY <2>1 DEF WithBand, Queues
<1>3. \/ e = Reject(z)
      \/ e = Outcome(PushEntry(z, r, s, now), "Enqueued", {})
      \/ v \in victims /\ e = Shed(v)
  BY DEF Enqueue, WithBand
<1>4. e.outcome # "Rejected" /\ At(q, pos).req \notin e.victims OBVIOUS
<1> HIDE DEF z, victims, v, e
<1>5. pos \in Positions(z) /\ At(z, pos) = At(q, pos) BY <1>2 DEF Positions, At
<1>6. CASE e = Reject(z) BY <1>4, <1>6 DEF Reject, Outcome
<1>7. CASE e = Outcome(PushEntry(z, r, s, now), "Enqueued", {})
  <2> DEFINE y == PushEntry(z, r, s, now)
  <2>1. pos \in Positions(y) /\ At(y, pos) = At(z, pos)
    BY <1>1, <1>5, PushEntryStays
  <2>2. e.queue = y BY <1>7 DEF Outcome
  <2> HIDE DEF y
  <2> QED BY <1>5, <2>1, <2>2 DEF e
<1>8. CASE v \in victims /\ e = Shed(v)
  <2> DEFINE y == PushEntry([RemoveEntryByIndex(z, v) EXCEPT !.shedCount = @ + 1],
                            r, s, now)
  <2>1. v \in FindGlobalShedVictim(z, Priority[r], s) BY <1>8 DEF victims
  <2>2. e.queue = y /\ e.victims = {At(z, v).req} BY <1>8 DEF Outcome
  <2>3. pos # v BY <1>4, <1>5, <2>2
  <2>4. pos \in Positions(y) /\ At(y, pos) = At(z, pos)
    BY <1>1, <1>5, <2>1, <2>3, ShedStays
  <2> HIDE DEF y
  <2> QED BY <1>5, <2>2, <2>4 DEF e
<1> QED BY <1>3, <1>6, <1>7, <1>8

(* RemoveByRequestID finds what is queued where the index says. *)
LEMMA RemoveByRequestIDGood ==
  ASSUME NEW q, NEW n \in Nat, GoodQueue(q, n), NEW r
  PROVE  LET d == RemoveByRequestID(q, r)
         IN  /\ GoodQueue(d.queue, n)
             /\ d.queue.panic = q.panic
             /\ d.queue.shedCount = q.shedCount
             /\ d.queue.rejectedCount = q.rejectedCount
             /\ d.got = Queued(q) \cap {r}
             /\ Queued(d.queue) = Queued(q) \ {r}
<1> DEFINE d == RemoveByRequestID(q, r)
           loc == q.requestIndex[r]
           S == {pos \in Positions(q) :
                   pos.p = loc[1] /\ pos.t = loc[2] /\ At(q, pos).req = r}
           x == CHOOSE pos \in S : TRUE
<1>1. DOMAIN q.requestIndex = Queued(q) BY DEF GoodQueue, Indexed
<1>2. CASE r \notin Queued(q)
  <2>1. d.queue = q /\ d.got = {} BY <1>1, <1>2 DEF RemoveByRequestID
  <2> QED BY <1>2, <2>1 DEF d
<1>3. CASE r \in Queued(q)
  <2>1. PICK y \in Positions(q) : At(q, y).req = r BY <1>3 DEF Queued
  <2>2. loc = <<y.p, y.t>> BY <2>1 DEF GoodQueue, Indexed
  <2>3. y \in S BY <2>1, <2>2
  <2>4. x \in Positions(q) /\ At(q, x).req = r BY <2>3
  <2>5. d.queue = TakeOut(q, x) /\ d.got = {r}
    BY <1>1, <1>3, <2>3 DEF RemoveByRequestID
  <2> HIDE DEF x, d
  <2> QED BY <1>3, <2>4, <2>5, TakeOutGood DEF d
<1> QED BY <1>2, <1>3

------------------------------
(* Dispatch. *)

(* Whichever the fairness policy, it picks a flow with entries. *)
LEMMA PickHasEntries ==
  ASSUME NEW q \in Queues, NEW c, NEW p \in Priorities, FlowKeys(q, p) # {}
  PROVE  Pick(q, c, p) \in FlowKeys(q, p)
<1> DEFINE keys == FlowKeys(q, p)
           later == {t \in keys : t > q.cursors[p]}
<1>1. keys \subseteq Tenants /\ keys \subseteq Nat
  BY GatewayQueueAssumption DEF FlowKeys
<1>2. PickRoundRobin(q, p) \in keys
  <2>1. Min(keys) \in keys BY <1>1, MinIsLeast
  <2>2. later # {} => Min(later) \in keys
    <3>1. later \subseteq Nat /\ later \subseteq keys BY <1>1
    <3> HIDE DEF later
    <3> QED BY <3>1, MinIsLeast
  <2> QED BY <2>1, <2>2 DEF PickRoundRobin
<1>3. PickStrict(q, p) \in keys
  <2>1. \A t \in keys : HeadSeq(q, p, t) \in Nat
    <3> TAKE t \in keys
    <3>1. q.flows[p][t] \in Seq(Entries) /\ q.flows[p][t] # <<>>
      <4>1. q.flows \in [Priorities -> [Tenants -> Seq(Entries)]]
        BY QueueFields
      <4> QED BY <1>1, <4>1 DEF FlowKeys
    <3>2. 1 \in DOMAIN q.flows[p][t] /\ q.flows[p][t][1] \in Entries BY <3>1
    <3> QED BY <3>2 DEF HeadSeq, Entries
  <2> DEFINE S == {HeadSeq(q, p, t) : t \in keys}
  <2>2. S \subseteq Nat /\ S # {} BY <2>1
  <2>3. PICK k \in S : \A m \in S : k <= m BY <2>2, LeastNatural
  <2>4. \E t \in keys : \A u \in keys : HeadSeq(q, p, t) <= HeadSeq(q, p, u)
    BY <2>3
  <2> QED BY <2>4 DEF PickStrict
<1> QED BY <1>2, <1>3 DEF Pick

(* Some entry of a flow has the earliest deadline. *)
LEMMA EarliestExists ==
  ASSUME NEW f \in Seq(Entries), f # <<>>,
         \A i, j \in DOMAIN f : i < j => f[i].seqID < f[j].seqID
  PROVE  \E i \in DOMAIN f : \A j \in DOMAIN f \ {i} : EarlierDeadline(f[i], f[j])
<1> DEFINE has(i) == SLOTarget[f[i].req] > 0
           d(i) == f[i].at + SLOTarget[f[i].req]
           D == {i \in DOMAIN f : has(i)}
<1>1. DOMAIN f = 1 .. Len(f) /\ Len(f) \in Nat /\ 1 \in DOMAIN f
  BY LenProperties, EmptySeq
<1>2. \A i \in DOMAIN f :
        f[i].req \in Requests /\ f[i].seqID \in Nat /\ f[i].at \in Nat
  <2>1. \A i \in DOMAIN f : f[i] \in Entries BY <1>1, ElementOfSeq
  <2> QED BY <2>1 DEF Entries
<1>3. \A i \in DOMAIN f : SLOTarget[f[i].req] \in Nat /\ d(i) \in Nat
  BY <1>2, GatewayQueueAssumption
<1>4. \A i, j \in DOMAIN f : i # j /\ f[i].seqID <= f[j].seqID =>
        f[i].seqID < f[j].seqID
  BY <1>1, <1>2
<1>5. CASE D = {}
  <2>1. \A i \in DOMAIN f : ~has(i) BY <1>5
  <2>2. \A j \in DOMAIN f \ {1} : f[1].seqID < f[j].seqID BY <1>1
  <2>3. \A j \in DOMAIN f \ {1} : EarlierDeadline(f[1], f[j])
    BY <1>1, <2>1, <2>2 DEF EarlierDeadline
  <2> QED BY <1>1, <2>3
<1>6. CASE D # {}
  <2> DEFINE S == {d(i) : i \in D}
  <2>1. S \subseteq Nat /\ S # {} BY <1>3, <1>6
  <2>2. PICK least \in S : \A m \in S : least <= m BY <2>1, LeastNatural
  <2> DEFINE E == {i \in D : d(i) = least}
             N == {f[i].seqID : i \in E}
  <2>3. N \subseteq Nat /\ N # {} BY <1>2, <2>2
  <2>4. PICK first \in N : \A m \in N : first <= m BY <2>3, LeastNatural
  <2>5. PICK i \in E : f[i].seqID = first BY <2>4
  <2>6. i \in DOMAIN f /\ has(i) /\ d(i) = least BY <2>5
  <2>7. \A j \in D : least <= d(j) BY <2>2
  <2>8. \A j \in D : d(j) = least => f[i].seqID <= f[j].seqID BY <2>4, <2>5
  <2>9. ASSUME NEW j \in DOMAIN f, j # i
        PROVE  EarlierDeadline(f[i], f[j])
    <3>1. CASE ~has(j) BY <2>6, <3>1 DEF EarlierDeadline
    <3>2. CASE has(j)
      <4>1. d(i) <= d(j) /\ (d(j) = d(i) => f[i].seqID < f[j].seqID)
        BY <1>4, <2>6, <2>7, <2>8, <2>9, <3>2
      <4>2. d(i) \in Nat /\ d(j) \in Nat BY <1>3, <2>6
      <4>3. d(i) < d(j) \/ (d(i) = d(j) /\ f[i].seqID < f[j].seqID)
        BY <4>1, <4>2
      <4> QED BY <2>6, <3>2, <4>3 DEF EarlierDeadline
    <3> QED BY <3>1, <3>2
  <2> QED BY <2>6, <2>9
<1> QED BY <1>5, <1>6

(* The place a band gives up holds an entry, the first of its flow unless  *)
(* deadlines decide.                                                       *)
LEMMA BandChoiceIsPlace ==
  ASSUME NEW q, NEW n, GoodQueue(q, n), NEW c, NEW p \in Priorities,
         FlowKeys(q, p) # {}
  PROVE  LET x == BandChoice(q, c, p)
         IN  /\ x \in Positions(q) /\ x.p = p
             /\ c.order # "slo-deadline" => x.i = 1
<1> DEFINE t == Pick(q, c, p)
           f == q.flows[p][t]
           i == CHOOSE k \in DOMAIN f :
                  \A j \in DOMAIN f \ {k} : EarlierDeadline(f[k], f[j])
           x == BandChoice(q, c, p)
<1>1. q \in Queues BY DEF GoodQueue
<1>2. t \in FlowKeys(q, p) BY <1>1, PickHasEntries
<1> HIDE DEF t
<1>3. t \in Tenants /\ f \in Seq(Entries) /\ f # <<>>
  <2>1. q.flows \in [Priorities -> [Tenants -> Seq(Entries)]]
    BY <1>1, QueueFields
  <2> QED BY <1>2, <2>1 DEF FlowKeys
<1>4. \A j, k \in DOMAIN f : j < k => f[j].seqID < f[k].seqID
  BY <1>3 DEF GoodQueue, FlowsOrdered
<1>5. 1 \in DOMAIN f BY <1>3
<1>6. i \in DOMAIN f
  <2> HIDE DEF f
  <2>1. \E k \in DOMAIN f : \A j \in DOMAIN f \ {k} : EarlierDeadline(f[k], f[j])
    BY <1>3, <1>4, EarliestExists
  <2> QED BY <2>1
<1> HIDE DEF i
<1>7. x = [p |-> p, t |-> t, i |-> IF c.order = "slo-deadline" THEN i ELSE 1]
  BY DEF BandChoice, t, i
<1>8. CASE c.order = "slo-deadline"
  <2>1. x = [p |-> p, t |-> t, i |-> i] BY <1>7, <1>8
  <2> HIDE DEF x
  <2> QED BY <1>3, <1>6, <1>8, <2>1, PlaceIs DEF x
<1>9. CASE c.order # "slo-deadline"
  <2>1. x = [p |-> p, t |-> t, i |-> 1] BY <1>7, <1>9
  <2> HIDE DEF x
  <2> QED BY <1>3, <1>5, <2>1, PlaceIs DEF x
<1> QED BY <1>8, <1>9

(* There are finitely many bands. *)
LEMMA PrioritiesFinite ==
  IsFiniteSet(Priorities) /\ Priorities \subseteq Int
<1>1. Priority \in Surjection(Requests, Priorities)
  BY GatewayQueueAssumption DEF Surjection, Priorities
<1>2. Priorities \subseteq Int BY GatewayQueueAssumption DEF Priorities
<1> QED BY <1>1, <1>2, FS_Surjection, GatewayQueueAssumption

(* A band whose counter is positive has a flow with entries. *)
LEMMA CountedBandHasFlow ==
  ASSUME NEW q, NEW n, GoodQueue(q, n), NEW p \in Priorities, q.bandLen[p] > 0
  PROVE  FlowKeys(q, p) # {}
<1>1. q \in Queues /\ Counted(q) BY DEF GoodQueue
<1>2. Band(q, p) # {} BY <1>1, FS_EmptySet, SMTT(40) DEF Counted
<1>3. PICK x \in Positions(q) : x.p = p BY <1>2 DEF Band
<1>4. x.t \in Tenants /\ x.i \in DOMAIN q.flows[p][x.t] BY <1>3, PlaceIs
<1>5. q.flows[p][x.t] # <<>> BY <1>4
<1> QED BY <1>4, <1>5 DEF FlowKeys

(* DequeueGated: nothing, or one request, and then none more urgent waits  *)
(* and, unless deadlines decide, none of its flow came before it.          *)
LEMMA DequeueGatedGood ==
  ASSUME NEW q, NEW n \in Nat, GoodQueue(q, n), NEW c, NEW saturation
  PROVE  LET d == DequeueGated(q, c, saturation)
         IN  /\ GoodQueue(d.queue, n)
             /\ d.queue.panic = q.panic
             /\ d.queue.shedCount = q.shedCount
             /\ d.queue.rejectedCount = q.rejectedCount
             /\ Queued(d.queue) = Queued(q) \ d.got
             /\ \/ d.got = {}
                \/ \E r \in Queued(q) :
                     /\ d.got = {r}
                     /\ \A s \in Queued(q) : Priority[s] <= Priority[r]
                     /\ c.order # "slo-deadline" =>
                          \A x \in Positions(q) : At(q, x).req = r => x.i = 1
<1> DEFINE d == DequeueGated(q, c, saturation)
           open == OpenBands(q, c, saturation)
           p == Max(open)
           x == BandChoice(q, c, p)
           r == At(q, x).req
           out == TakeOut(q, x)
           served == IF c.fairness = "round-robin"
                     THEN [out EXCEPT !.cursors[p] = x.t] ELSE out
<1>1. CASE q.totalLen = 0 \/ open = {}
  <2>1. d.queue = q /\ d.got = {} BY <1>1 DEF DequeueGated
  <2> QED BY <2>1 DEF d
<1>2. CASE ~(q.totalLen = 0 \/ open = {})
  <2>1. q \in Queues /\ Counted(q) /\ Alone(q) /\ FlowsOrdered(q)
        /\ \A b \in Priorities : q.bandLen[b] > 0 => b \in q.bands
    BY DEF GoodQueue
  <2>2. open \subseteq Priorities /\ open \subseteq Int /\ IsFiniteSet(open)
    <3>1. open \in SUBSET Priorities BY <2>1, QueueFields DEF OpenBands
    <3> HIDE DEF open
    <3> QED BY <3>1, PrioritiesFinite, FS_Subset
  <2>3. p \in open /\ \A b \in open : b <= p
    <3> HIDE DEF open
    <3> QED BY <1>2, <2>2, MaxIsGreatest
  <2>4. /\ p \in Priorities /\ p \in q.bands /\ q.bandLen[p] > 0
        /\ \A b \in q.bands : b >= p => ~Halted(q, c, b, saturation)
    BY <2>2, <2>3 DEF OpenBands
  <2>5. FlowKeys(q, p) # {} BY <2>4, CountedBandHasFlow
  <2>6. /\ x \in Positions(q) /\ x.p = p /\ x.t \in Tenants
        /\ c.order # "slo-deadline" => x.i = 1
    <3> HIDE DEF p
    <3> QED BY <2>4, <2>5, BandChoiceIsPlace, PlaceIs
  <2>7. d = [queue |-> served, got |-> {r}] BY <1>2, <2>5 DEF DequeueGated
  <2>8. \A b \in q.bands : q.bandLen[b] > 0 => b <= p
    <3>1. q.bands \subseteq Int /\ p \in Int
      <4>1. q.bands \subseteq Priorities BY <2>1 DEF Queues
      <4> HIDE DEF p
      <4> QED BY <2>4, <4>1, PrioritiesFinite
    <3>2. ASSUME NEW b \in q.bands, q.bandLen[b] > 0, ~(b <= p) PROVE FALSE
      <4> HIDE DEF p
      <4>1. \A a \in q.bands : a >= b => ~Halted(q, c, a, saturation)
        BY <2>4, <3>1, <3>2
      <4>2. b \in open BY <3>2, <4>1 DEF OpenBands
      <4> HIDE DEF open
      <4> QED BY <2>3, <3>2, <4>2
    <3> QED BY <3>2
  <2> HIDE DEF p, open
  <2>9. /\ GoodQueue(out, n) /\ Queued(out) = Queued(q) \ {r}
        /\ out.panic = q.panic
        /\ out.shedCount = q.shedCount /\ out.rejectedCount = q.rejectedCount
    <3> HIDE DEF x
    <3> QED BY <2>6, TakeOutGood
  <2>10. r \in Queued(q) BY <2>6 DEF Queued
  <2>11. \A s \in Queued(q) : Priority[s] <= Priority[r]
    <3>1. \A y \in Positions(q) : Priority[At(q, y).req] = y.p
      BY PlaceIs DEF GoodQueue, FlowsOrdered, At
    <3>2. ASSUME NEW y \in Positions(q) PROVE y.p <= p
      <4>1. q.bandLen[y.p] > 0 /\ y.p \in Priorities
        BY <2>1, CountsAreNaturals, PlaceIs
      <4> QED BY <2>1, <2>8, <4>1
    <3> HIDE DEF x
    <3> QED BY <2>6, <3>1, <3>2, SMTT(40) DEF Queued
  <2>12. c.order # "slo-deadline" =>
           \A y \in Positions(q) : At(q, y).req = r => y.i = 1
    <3> HIDE DEF x
    <3> QED BY <2>1, <2>6 DEF Alone
  <2>13. /\ GoodQueue(served, n) /\ Queued(served) = Queued(out)
         /\ served.panic = out.panic
         /\ served.shedCount = out.shedCount
         /\ served.rejectedCount = out.rejectedCount
    <3> HIDE DEF out, x
    <3>1. out \in Queues BY <2>9 DEF GoodQueue
    <3>2. /\ served \in Queues
          /\ served.flows = out.flows /\ served.bandLen = out.bandLen
          /\ served.totalLen = out.totalLen
          /\ served.requestIndex = out.requestIndex
          /\ served.bands = out.bands /\ served.panic = out.panic
          /\ served.shedCount = out.shedCount
          /\ served.rejectedCount = out.rejectedCount
      BY <2>4, <2>6, <3>1 DEF Queues
    <3> HIDE DEF served
    <3> QED BY <2>9, <3>2, SameFlowsGood
  <2> HIDE DEF x, r, out, served, d
  <2>14. d.queue = served /\ d.got = {r} BY <2>7
  <2> QED BY <2>9, <2>10, <2>11, <2>12, <2>13, <2>14 DEF d
<1> QED BY <1>1, <1>2

------------------------------
(* What a good queue guarantees. *)

(* A queue that holds nobody is empty by its counter, and conversely. *)
LEMMA WaitingIsCounted ==
  ASSUME NEW q, NEW n, GoodQueue(q, n)
  PROVE  q.totalLen > 0 <=> Queued(q) # {}
<1>1. q \in Queues /\ Counted(q) BY DEF GoodQueue
<1>2. q.totalLen \in Nat /\ q.totalLen = Cardinality(Positions(q))
  BY <1>1, QueueFields DEF Counted
<1>3. Queued(q) # {} <=> Positions(q) # {} BY DEF Queued
<1>4. Positions(q) = {} <=> Cardinality(Positions(q)) = 0
  BY <1>1, FS_EmptySet DEF Counted
<1> QED BY <1>2, <1>3, <1>4

(* Counters and index say what the flows hold: INV-16. *)
LEMMA GoodIsConsistent ==
  ASSUME NEW q, NEW n, GoodQueue(q, n)
  PROVE  QueueConsistent(q)
<1> DEFINE f == [x \in Positions(q) |-> At(q, x).req]
<1>1. Counted(q) /\ Alone(q) /\ Indexed(q)
      /\ \A p \in Priorities : q.bandLen[p] > 0 => p \in q.bands
  BY DEF GoodQueue
<1>2. f \in Bijection(Positions(q), Queued(q))
  <2>1. f \in Injection(Positions(q), Queued(q))
    BY <1>1, Zenon DEF Injection, IsInjective, Alone, Queued
  <2>2. f \in Surjection(Positions(q), Queued(q)) BY DEF Surjection, Queued
  <2> QED BY <2>1, <2>2 DEF Bijection
<1>3. Cardinality(Queued(q)) = Cardinality(Positions(q))
  <2> HIDE DEF f
  <2>1. ExistsBijection(Positions(q), Queued(q)) BY <1>2 DEF ExistsBijection
  <2> QED BY <1>1, <2>1, FS_Bijection DEF Counted
<1>4. \A p \in Priorities :
        q.bandLen[p] = Cardinality({pos \in Positions(q) : pos.p = p})
  BY <1>1 DEF Counted, Band
<1> QED BY <1>1, <1>3, <1>4 DEF QueueConsistent, Counted, Indexed

(* The queue before the first request. *)
LEMMA EmptyQueueGood ==
  /\ GoodQueue(EmptyQueue, 0)
  /\ Queued(EmptyQueue) = {}
  /\ EmptyQueue.panic = FALSE /\ EmptyQueue.totalLen = 0
  /\ EmptyQueue.shedCount = 0 /\ EmptyQueue.rejectedCount = 0
<1> DEFINE q == EmptyQueue
           index == [r \in {} |-> <<>>]
<1>1. /\ q.bands = {} /\ q.requestIndex = index /\ q.totalLen = 0
      /\ \A p \in Priorities : q.bandLen[p] = 0
      /\ \A p \in Priorities, t \in Tenants : q.flows[p][t] = <<>>
      /\ q.panic = FALSE /\ q.shedCount = 0 /\ q.rejectedCount = 0
  BY DEF EmptyQueue
<1>2. q \in Queues
  <2>1. index \in [{} -> Priorities \X Tenants] /\ {} \in SUBSET Requests
    OBVIOUS
  <2>2. index \in UNION {[S -> Priorities \X Tenants] : S \in SUBSET Requests}
    <3> HIDE DEF index
    <3> QED BY <2>1, IndexType
  <2>3. <<>> \in Seq(Entries) OBVIOUS
  <2> QED BY <2>2, <2>3 DEF Queues, EmptyQueue
<1> HIDE DEF q
<1>3. Positions(q) = {}
  <2> SUFFICES ASSUME NEW x \in Positions(q) PROVE FALSE OBVIOUS
  <2>1. x.p \in Priorities /\ x.t \in Tenants /\ x.i \in DOMAIN q.flows[x.p][x.t]
    BY PlaceIs
  <2>2. x.i \in DOMAIN <<>> BY <1>1, <2>1
  <2> QED BY <2>2
<1>4. Queued(q) = {} BY <1>3 DEF Queued
<1>5. Counted(q) BY <1>1, <1>3, FS_EmptySet DEF Counted, Band
<1>6. Alone(q) /\ Indexed(q) BY <1>1, <1>3, <1>4 DEF Alone, Indexed
<1>7. FlowsOrdered(q)
  <2>1. \A p \in Priorities, t \in Tenants : DOMAIN q.flows[p][t] = {} BY <1>1
  <2> QED BY <2>1 DEF FlowsOrdered
<1> QED BY <1>1, <1>2, <1>3, <1>4, <1>5, <1>6, <1>7 DEF GoodQueue, q

------------------------------
(* The events a heap may hold: but loads and ticks, all are about a        *)
(* request.                                                                *)
GoodEvents ==
  {e \in Events : /\ e.kind \notin {"loaded", "tick"} => e.req \in Requests
                  /\ e.kind = "loaded" => e.inst \in Instances}

(* Kinds of events: those that carry request r, the ticks, and the         *)
(* evictions of r.                                                         *)
Travels(r) ==
  {e \in GoodEvents : e.kind \in {"arrival", "admission", "routing"} /\ e.req = r}
Ticks == {e \in GoodEvents : e.kind = "tick"}
Evictions(r) == {e \in GoodEvents : e.kind = "eviction" /\ e.req = r}

(* How many events of S the heap q holds. *)
Holding(q, S) == {k \in DOMAIN q : q[k] \in S}
Number(q, S) == Cardinality(Holding(q, S))
One(b) == IF b THEN 1 ELSE 0

------------------------------
(* The inductive invariant. *)

(* A heap at time t: no event is in the past, and evictions happen now. *)
Heap(q, t) ==
  /\ q \in Seq(GoodEvents)
  /\ Sorted(q)
  /\ \A k \in DOMAIN q : q[k].at >= t /\ (q[k].kind = "eviction" => q[k].at <= t)

(* Every request is in one place: carried by one event, in the gateway     *)
(* queue, on an instance, or counted in one bucket.                        *)
OnePlace(events, waiting, staged, counted) ==
  \A r \in Requests :
    Number(events, Travels(r)) + One(r \in waiting) + One(staged[r] # "none")
      + One(counted[r] # {}) = 1
OneBucket(counted) ==
  \A r \in Requests : counted[r] = {} \/ \E b \in Buckets : counted[r] = {b}

(* Ticks: at most one on its way, and one if anyone waits. *)
OneTick(events, len, pending) ==
  /\ len > 0 => pending
  /\ Number(events, Ticks) = One(pending)

(* A request has an instance while it is staged; what is tracked, or about *)
(* to be evicted, is staged and sheddable; never both, nor twice.          *)
Placed(staged, where) ==
  \A r \in Requests :
    IF staged[r] = "none" THEN where[r] = NoInstance ELSE where[r] \in Instances
Tracked(trk, staged, where) ==
  \A x \in trk :
    /\ IsSheddable(x.req) /\ staged[x.req] # "none" /\ where[x.req] = x.inst
    /\ \A y \in trk : x.req = y.req => x = y
Evicting(events, trk, staged) ==
  \A r \in Requests :
    /\ Number(events, Evictions(r)) <= 1
    /\ Number(events, Evictions(r)) > 0 =>
         /\ staged[r] # "none" /\ IsSheddable(r)
         /\ \A x \in trk : x.req # r

(* The counters: of requests in flight, of buckets and of tiers. *)
OnInstance(i, staged, where) == {r \in Requests : where[r] = i /\ staged[r] # "none"}
OfTenant(t, staged) == {r \in Requests : Tenant[r] = t /\ staged[r] # "none"}
InBucket(b, counted) == {r \in Requests : b \in counted[r]}
TierBuckets == {"rejected", "shed", "evicted", "expired"}
InTier(p, counted) ==
  {r \in Requests : Priority[r] = p /\ counted[r] \cap TierBuckets # {}}

FlightsCounted(flights, staged, where) ==
  \A i \in Instances : flights[i] = Cardinality(OnInstance(i, staged, where))
TenantsCounted(budgets, flights, staged) ==
  budgets => \A t \in Tenants : flights[t] = Cardinality(OfTenant(t, staged))
BucketsCounted(counts, counted, shed, refused) ==
  /\ \A b \in OwnCounters : counts[b] = Cardinality(InBucket(b, counted))
  /\ shed = Cardinality(InBucket("shed", counted))
  /\ refused = Cardinality(InBucket("queueRejected", counted))
TiersCounted(tiers, counted) ==
  \A p \in Priorities : tiers[p] = Cardinality(InTier(p, counted))

GatewayInv ==
  /\ TypeOK
  /\ Heap(eventQ, clock)
  /\ GoodQueue(queue, seqCounter) /\ queue.panic = FALSE
  /\ OnePlace(eventQ, Queued(queue), stage, ledger)
  /\ OneBucket(ledger)
  /\ OneTick(eventQ, queue.totalLen, tickPending)
  /\ Placed(stage, on)
  /\ Tracked(tracker, stage, on)
  /\ Evicting(eventQ, tracker, stage)
  /\ FlightsCounted(inFlight, stage, on)
  /\ TenantsCounted(conf.budgets, tenantInFlight, stage)
  /\ BucketsCounted(count, ledger, queue.shedCount, queue.rejectedCount)
  /\ TiersCounted(shedByTier, ledger)

------------------------------
(* The heap of events. *)

(* Before orders events totally, equals aside. *)
LEMMA BeforeOrders ==
  /\ \A e, f \in Events : Before(e, f) \/ Before(f, e)
  /\ \A e, f, g \in Events : Before(e, f) /\ Before(f, g) => Before(e, g)
<1>1. \A e \in Events : e.at \in Nat /\ EventPriority[e.kind] \in Int
  BY DEF Events, EventPriority
<1> QED BY <1>1 DEF Before

(* How many events of a heap go before e. *)
Slot(q, e) == Cardinality({j \in DOMAIN q : Before(q[j], e)})

(* Push makes room after them. *)
LEMMA PushShape ==
  ASSUME NEW E, NEW q \in Seq(E), NEW e \in E
  PROVE  /\ Slot(q, e) \in Nat /\ Slot(q, e) <= Len(q)
         /\ Push(q, e) \in Seq(E)
         /\ Len(Push(q, e)) = Len(q) + 1
         /\ \A j \in 1 .. Slot(q, e) : Push(q, e)[j] = q[j]
         /\ Push(q, e)[Slot(q, e) + 1] = e
         /\ \A j \in Slot(q, e) + 1 .. Len(q) : Push(q, e)[j + 1] = q[j]
<1> DEFINE k == Slot(q, e)
           a == SubSeq(q, 1, k)
           b == SubSeq(q, k + 1, Len(q))
<1>1. Len(q) \in Nat /\ DOMAIN q = 1 .. Len(q) OBVIOUS
<1>2. k \in Nat /\ k <= Len(q)
  <2>1. IsFiniteSet(1 .. Len(q)) /\ Cardinality(1 .. Len(q)) = Len(q)
    BY <1>1, FS_Interval, SMTT(40)
  <2>2. {j \in DOMAIN q : Before(q[j], e)} \in SUBSET (1 .. Len(q)) BY <1>1
  <2> QED BY <2>1, <2>2, FS_Subset, FS_CardinalityType DEF Slot
<1>3. Push(q, e) = (a \o <<e>>) \o b BY DEF Push, Slot
<1> HIDE DEF k
<1>4. a \in Seq(E) /\ Len(a) = k /\ \A j \in 1 .. k : a[j] = q[j]
  BY <1>1, <1>2, SubSeqProperties
<1>5. b \in Seq(E) /\ Len(b) = Len(q) - k
      /\ \A j \in 1 .. Len(q) - k : b[j] = q[k + j]
  <2>1. k + 1 \in Int /\ Len(q) \in Int /\ \A j \in k + 1 .. Len(q) : q[j] \in E
    BY <1>1, <1>2
  <2>2. /\ b \in Seq(E)
        /\ Len(b) = IF k + 1 <= Len(q) THEN Len(q) - (k + 1) + 1 ELSE 0
        /\ \A j \in 1 .. Len(q) - (k + 1) + 1 : b[j] = q[k + 1 + j - 1]
    BY <2>1, SubSeqProperties
  <2> HIDE DEF b
  <2>3. Len(b) = Len(q) - k
    <3> DEFINE n == Len(q)
    <3>1. n \in Nat /\ k <= n /\ Len(b) = IF k + 1 <= n THEN n - (k + 1) + 1 ELSE 0
      BY <1>1, <1>2, <2>2, ZenonT(40)
    <3> HIDE DEF n
    <3>2. Len(b) = n - k BY <1>2, <3>1
    <3> QED BY <3>2 DEF n
  <2>4. ASSUME NEW j \in 1 .. Len(q) - k PROVE b[j] = q[k + j]
    <3>1. j \in 1 .. Len(q) - (k + 1) + 1 /\ k + 1 + j - 1 = k + j
      BY <1>1, <1>2
    <3>2. b[j] = q[k + 1 + j - 1] BY <2>2, <3>1
    <3> QED BY <3>1, <3>2
  <2> QED BY <2>2, <2>3, <2>4
<1> HIDE DEF a, b
<1> DEFINE c == a \o <<e>>
           z == c \o b
<1>6. <<e>> \in Seq(E) /\ Len(<<e>>) = 1 /\ <<e>>[1] = e OBVIOUS
<1>7. /\ c \in Seq(E) /\ Len(c) = k + 1 /\ c[k + 1] = e
      /\ \A j \in 1 .. k : c[j] = q[j]
  <2>1. c \in Seq(E) /\ Len(c) = Len(a) + 1 BY <1>4, <1>6, ConcatProperties
  <2>2. \A j \in 1 .. Len(a) + 1 :
          c[j] = IF j <= Len(a) THEN a[j] ELSE <<e>>[j - Len(a)]
    BY <1>4, <1>6, ConcatProperties
  <2> HIDE DEF c
  <2> QED BY <1>2, <1>4, <1>6, <2>1, <2>2
<1> HIDE DEF c
<1>8. /\ z \in Seq(E) /\ Len(z) = Len(c) + Len(b)
      /\ \A j \in 1 .. Len(c) + Len(b) :
           z[j] = IF j <= Len(c) THEN c[j] ELSE b[j - Len(c)]
  BY <1>5, <1>7, ConcatProperties, ZenonT(40)
<1>9. Push(q, e) = z BY <1>3 DEF c
<1> HIDE DEF z
<1>10. Len(z) = Len(q) + 1 BY <1>1, <1>2, <1>5, <1>7, <1>8, SMTT(40)
<1>11. ASSUME NEW j \in 1 .. k PROVE z[j] = q[j]
  <2>1. j \in 1 .. Len(c) + Len(b) /\ j <= Len(c) BY <1>1, <1>2, <1>5, <1>7
  <2>2. z[j] = c[j] BY <1>8, <2>1
  <2> QED BY <1>7, <2>2
<1>12. z[k + 1] = e BY <1>1, <1>2, <1>5, <1>7, <1>8, SMTT(40)
<1>13. ASSUME NEW j \in k + 1 .. Len(q) PROVE z[j + 1] = q[j]
  <2>1. j \in Int /\ j + 1 \in 1 .. Len(c) + Len(b) /\ ~(j + 1 <= Len(c))
        /\ j - k \in 1 .. Len(q) - k
    BY <1>1, <1>2, <1>5, <1>7
  <2>2. z[j + 1] = b[j + 1 - Len(c)] BY <1>8, <2>1
  <2>3. j + 1 - Len(c) = j - k BY <1>2, <1>7, <2>1
  <2>4. b[j - k] = q[k + (j - k)] BY <1>5, <2>1
  <2>5. k + (j - k) = j BY <1>2, <2>1
  <2> QED BY <2>2, <2>3, <2>4, <2>5
<1> QED BY <1>2, <1>8, <1>9, <1>10, <1>11, <1>12, <1>13 DEF k

(* The number of events of a kind is a natural, zero if there is none. *)
LEMMA NumberType ==
  ASSUME NEW E, NEW q \in Seq(E), NEW S
  PROVE  /\ IsFiniteSet(Holding(q, S)) /\ Number(q, S) \in Nat
         /\ Number(q, S) = 0 <=> \A k \in DOMAIN q : q[k] \notin S
<1>1. Len(q) \in Nat /\ DOMAIN q = 1 .. Len(q) OBVIOUS
<1>2. IsFiniteSet(Holding(q, S))
  <2>1. IsFiniteSet(1 .. Len(q)) /\ Holding(q, S) \in SUBSET (1 .. Len(q))
    BY <1>1, FS_Interval DEF Holding
  <2> QED BY <2>1, FS_Subset
<1>3. Number(q, S) \in Nat BY <1>2, FS_CardinalityType DEF Number
<1>4. Number(q, S) = 0 <=> Holding(q, S) = {} BY <1>2, FS_EmptySet DEF Number
<1>5. Holding(q, S) = {} <=> \A k \in DOMAIN q : q[k] \notin S BY DEF Holding
<1> QED BY <1>2, <1>3, <1>4, <1>5

(* A push adds one event, popping the head takes one away. *)
LEMMA PushNumber ==
  ASSUME NEW E, NEW q \in Seq(E), NEW e \in E, NEW S
  PROVE  Number(Push(q, e), S) = Number(q, S) + One(e \in S)
<1> DEFINE k == Slot(q, e)
           z == Push(q, e)
           f == [j \in Holding(q, S) |-> IF j <= k THEN j ELSE j + 1]
           T == Holding(z, S) \ {k + 1}
<1>1. /\ k \in Nat /\ k <= Len(q) /\ z \in Seq(E) /\ Len(z) = Len(q) + 1
      /\ \A j \in 1 .. k : z[j] = q[j]
      /\ z[k + 1] = e
      /\ \A j \in k + 1 .. Len(q) : z[j + 1] = q[j]
  <2>1. Slot(q, e) \in Nat /\ Slot(q, e) <= Len(q) BY PushShape
  <2>2. Push(q, e) \in Seq(E) BY PushShape
  <2>3. Len(Push(q, e)) = Len(q) + 1 BY PushShape
  <2>4. \A j \in 1 .. Slot(q, e) : Push(q, e)[j] = q[j] BY PushShape
  <2>5. Push(q, e)[Slot(q, e) + 1] = e BY PushShape
  <2>6. \A j \in Slot(q, e) + 1 .. Len(q) : Push(q, e)[j + 1] = q[j]
    BY PushShape
  <2> QED BY <2>1, <2>2, <2>3, <2>4, <2>5, <2>6
<1>2. Len(q) \in Nat /\ DOMAIN q = 1 .. Len(q) /\ DOMAIN z = 1 .. Len(q) + 1
  BY <1>1
<1>3. IsFiniteSet(Holding(z, S)) /\ IsFiniteSet(Holding(q, S))
  BY <1>1, NumberType
<1> HIDE DEF k, z
<1>4. \A j \in Holding(q, S) : j \in 1 .. Len(q) /\ q[j] \in S
  BY <1>2 DEF Holding
<1>5. \A j \in T : j \in 1 .. Len(q) + 1 /\ j # k + 1 /\ z[j] \in S
  BY <1>2 DEF Holding
<1>6. ASSUME NEW j \in Holding(q, S) PROVE f[j] \in T
  <2>1. CASE j <= k
    <3>1. z[j] = q[j] /\ j \in 1 .. Len(q) + 1 /\ j # k + 1
      BY <1>1, <1>2, <1>4, <2>1
    <3> QED BY <1>2, <1>4, <2>1, <3>1 DEF Holding
  <2>2. CASE ~(j <= k)
    <3>1. z[j + 1] = q[j] /\ j + 1 \in 1 .. Len(q) + 1 /\ j + 1 # k + 1
      BY <1>1, <1>2, <1>4, <2>2
    <3> QED BY <1>2, <1>4, <2>2, <3>1 DEF Holding
  <2> QED BY <2>1, <2>2
<1>7. ASSUME NEW i \in Holding(q, S), NEW j \in Holding(q, S), f[i] = f[j]
      PROVE  i = j
  BY <1>1, <1>4, <1>7
<1>8. ASSUME NEW m \in T PROVE \E j \in Holding(q, S) : f[j] = m
  <2>1. CASE m <= k
    <3>1. m \in 1 .. k /\ m \in 1 .. Len(q) /\ z[m] = q[m]
      BY <1>1, <1>2, <1>5, <2>1
    <3>2. m \in Holding(q, S) BY <1>2, <1>5, <3>1 DEF Holding
    <3> QED BY <2>1, <3>2
  <2>2. CASE ~(m <= k)
    <3>1. m - 1 \in k + 1 .. Len(q) /\ (m - 1) + 1 = m /\ m - 1 \in 1 .. Len(q)
      <4>1. m \in Int /\ m <= Len(q) + 1 /\ m # k + 1 /\ ~(m <= k)
        BY <1>2, <1>5, <2>2
      <4> HIDE DEF T
      <4> QED BY <1>1, <1>2, <4>1
    <3>2. q[m - 1] = z[m] BY <1>1, <3>1
    <3>3. m - 1 \in Holding(q, S) BY <1>2, <1>5, <3>1, <3>2 DEF Holding
    <3>4. ~(m - 1 <= k) BY <1>1, <3>1
    <3> QED BY <3>1, <3>3, <3>4
  <2> QED BY <2>1, <2>2
<1>9. f \in Bijection(Holding(q, S), T)
  <2>1. f \in [Holding(q, S) -> T]
    <3>1. f = [j \in Holding(q, S) |-> f[j]] /\ DOMAIN f = Holding(q, S)
      OBVIOUS
    <3> HIDE DEF f, T
    <3> QED BY <1>6, <3>1
  <2> HIDE DEF f, T
  <2> QED BY <1>7, <1>8, <2>1 DEF Bijection, Injection, IsInjective, Surjection
<1> HIDE DEF f
<1>10. IsFiniteSet(T) /\ Cardinality(T) = Cardinality(Holding(q, S))
  BY <1>3, <1>9, FS_Bijection DEF ExistsBijection
<1>11. Cardinality(Holding(q, S)) \in Nat BY <1>3, FS_CardinalityType
<1>12. CASE e \in S
  <2>1. k + 1 \in Holding(z, S) BY <1>1, <1>2, <1>12 DEF Holding
  <2>2. Cardinality(T) = Cardinality(Holding(z, S)) - 1
        /\ Cardinality(Holding(z, S)) \in Nat
    BY <1>3, <2>1, FS_RemoveElement, FS_CardinalityType
  <2> HIDE DEF T
  <2> QED BY <1>10, <1>11, <1>12, <2>2 DEF Number, One, z
<1>13. CASE e \notin S
  <2>1. T = Holding(z, S) BY <1>1, <1>2, <1>13 DEF Holding
  <2> HIDE DEF T
  <2> QED BY <1>10, <1>11, <1>13, <2>1 DEF Number, One, z
<1> QED BY <1>12, <1>13

(* The rest of a heap. *)
LEMMA TailShape ==
  ASSUME NEW E, NEW q \in Seq(E), q # <<>>
  PROVE  /\ Len(q) \in Nat \ {0} /\ 1 \in DOMAIN q
         /\ Head(q) \in E /\ Head(q) = q[1]
         /\ Tail(q) \in Seq(E) /\ Len(Tail(q)) = Len(q) - 1
         /\ \A j \in 1 .. Len(q) - 1 : Tail(q)[j] = q[j + 1]
<1>1. Len(q) \in Nat \ {0} BY EmptySeq, LenProperties
<1>2. Head(q) \in E /\ Tail(q) \in Seq(E) BY HeadTailProperties
<1>3. Head(q) = q[1] OBVIOUS
<1>4. Len(Tail(q)) = Len(q) - 1 BY HeadTailProperties
<1>5. \A j \in 1 .. Len(q) - 1 : Tail(q)[j] = q[j + 1]
  <2>1. Len(q) - 1 = Len(Tail(q)) BY <1>4
  <2> QED BY <2>1, HeadTailProperties
<1> QED BY <1>1, <1>2, <1>3, <1>4, <1>5

(* Popping takes one event away. *)
LEMMA TailNumber ==
  ASSUME NEW E, NEW q \in Seq(E), q # <<>>, NEW S
  PROVE  Number(q, S) = Number(Tail(q), S) + One(Head(q) \in S)
<1> DEFINE z == Tail(q)
           f == [j \in Holding(z, S) |-> j + 1]
           T == Holding(q, S) \ {1}
<1>1. /\ Len(q) \in Nat \ {0} /\ Head(q) = q[1]
      /\ z \in Seq(E) /\ Len(z) = Len(q) - 1
  BY TailShape
<1>2. \A j \in 1 .. Len(q) - 1 : z[j] = q[j + 1] BY TailShape
<1>3. DOMAIN q = 1 .. Len(q) /\ DOMAIN z = 1 .. Len(q) - 1 BY <1>1
<1>4. IsFiniteSet(Holding(z, S)) /\ IsFiniteSet(Holding(q, S))
  BY <1>1, NumberType
<1> HIDE DEF z
<1>5. \A j \in Holding(z, S) : j \in 1 .. Len(q) - 1 /\ z[j] \in S
  BY <1>3 DEF Holding
<1>6. \A j \in T : j \in 1 .. Len(q) /\ j # 1 /\ q[j] \in S BY <1>3 DEF Holding
<1>7. ASSUME NEW j \in Holding(z, S) PROVE f[j] \in T
  <2>1. q[j + 1] = z[j] /\ j + 1 \in 1 .. Len(q) /\ j + 1 # 1
    BY <1>1, <1>2, <1>5
  <2> QED BY <1>3, <1>5, <2>1 DEF Holding
<1>8. ASSUME NEW i \in Holding(z, S), NEW j \in Holding(z, S), f[i] = f[j]
      PROVE  i = j
  BY <1>1, <1>5, <1>8
<1>9. ASSUME NEW m \in T PROVE \E j \in Holding(z, S) : f[j] = m
  <2>1. m \in Int /\ 1 < m /\ m <= Len(q) BY <1>1, <1>6
  <2> HIDE DEF T
  <2>2. m - 1 \in 1 .. Len(q) - 1 /\ (m - 1) + 1 = m BY <1>1, <2>1
  <2>3. z[m - 1] = q[m] BY <1>2, <2>2
  <2>4. m - 1 \in Holding(z, S) BY <1>3, <1>6, <2>2, <2>3 DEF Holding
  <2> QED BY <2>2, <2>4
<1>10. f \in Bijection(Holding(z, S), T)
  <2>1. f \in [Holding(z, S) -> T]
    <3>1. f = [j \in Holding(z, S) |-> f[j]] /\ DOMAIN f = Holding(z, S)
      OBVIOUS
    <3> HIDE DEF f, T
    <3> QED BY <1>7, <3>1
  <2> HIDE DEF f, T
  <2> QED BY <1>8, <1>9, <2>1 DEF Bijection, Injection, IsInjective, Surjection
<1> HIDE DEF f
<1>11. IsFiniteSet(T) /\ Cardinality(T) = Cardinality(Holding(z, S))
  BY <1>4, <1>10, FS_Bijection DEF ExistsBijection
<1>12. Cardinality(Holding(z, S)) \in Nat BY <1>4, FS_CardinalityType
<1>13. CASE Head(q) \in S
  <2>1. 1 \in Holding(q, S) BY <1>1, <1>3, <1>13 DEF Holding
  <2>2. Cardinality(T) = Cardinality(Holding(q, S)) - 1
        /\ Cardinality(Holding(q, S)) \in Nat
    BY <1>4, <2>1, FS_RemoveElement, FS_CardinalityType
  <2> HIDE DEF T
  <2> QED BY <1>11, <1>12, <1>13, <2>2 DEF Number, One, z
<1>14. CASE Head(q) \notin S
  <2>1. T = Holding(q, S) BY <1>1, <1>3, <1>14 DEF Holding
  <2> HIDE DEF T
  <2> QED BY <1>11, <1>12, <1>14, <2>1 DEF Number, One, z
<1> QED BY <1>13, <1>14

(* In a sorted heap the events that go before e are the first ones. *)
LEMMA SlotIsPrefix ==
  ASSUME NEW q \in Seq(Events), Sorted(q), NEW e \in Events
  PROVE  \A j \in 1 .. Len(q) : Before(q[j], e) <=> j <= Slot(q, e)
<1> DEFINE n == Len(q)
           B == {j \in DOMAIN q : Before(q[j], e)}
           C == {j \in 1 .. n : ~Before(q[j], e)}
<1>1. n \in Nat /\ DOMAIN q = 1 .. n /\ \A j \in 1 .. n : q[j] \in Events
  BY ElementOfSeq, LenProperties
<1>2. \A i, j \in 1 .. n : i < j => Before(q[i], q[j]) BY <1>1 DEF Sorted
<1>3. ASSUME NEW m \in 0 .. n, \A j \in 1 .. n : Before(q[j], e) <=> j <= m
      PROVE  Slot(q, e) = m
  <2>1. B = 1 .. m BY <1>1, <1>3
  <2>2. Cardinality(1 .. m) = m BY <1>1, FS_Interval
  <2> QED BY <2>1, <2>2 DEF Slot
<1> HIDE DEF n
<1>4. CASE C = {}
  <2>1. \A j \in 1 .. n : Before(q[j], e) <=> j <= n BY <1>1, <1>4
  <2>2. Slot(q, e) = n BY <1>1, <1>3, <2>1
  <2> QED BY <2>1, <2>2 DEF n
<1>5. CASE C # {}
  <2>1. C \subseteq Nat BY <1>1
  <2>2. PICK c \in C : \A j \in C : c <= j
    <3> HIDE DEF C
    <3> QED BY <1>5, <2>1, LeastNatural
  <2>3. c \in 1 .. n /\ ~Before(q[c], e) /\ c \in Nat BY <1>1, <2>2
  <2>4. ASSUME NEW j \in 1 .. n PROVE Before(q[j], e) <=> j <= c - 1
    <3>1. CASE j < c
      <4>1. j \notin C BY <1>1, <2>2, <2>3, <3>1
      <4> QED BY <1>1, <2>3, <3>1, <4>1
    <3>2. CASE j = c BY <1>1, <2>3, <3>2
    <3>3. CASE c < j
      <4>1. Before(q[c], q[j]) /\ q[c] \in Events /\ q[j] \in Events
        BY <1>1, <1>2, <2>3, <3>3
      <4>2. ~Before(q[j], e) BY <2>3, <4>1, BeforeOrders
      <4> QED BY <1>1, <2>3, <3>3, <4>2
    <3> QED BY <1>1, <2>3, <3>1, <3>2, <3>3
  <2>5. c - 1 \in 0 .. n BY <1>1, <2>3
  <2>6. Slot(q, e) = c - 1 BY <1>3, <2>4, <2>5
  <2> QED BY <2>4, <2>6 DEF n
<1> QED BY <1>4, <1>5

(* Pushing and popping keep a heap sorted. *)
LEMMA PushSorted ==
  ASSUME NEW q \in Seq(Events), Sorted(q), NEW e \in Events
  PROVE  Sorted(Push(q, e))
<1> DEFINE k == Slot(q, e)
           z == Push(q, e)
           n == Len(q)
<1>1. /\ k \in Nat /\ k <= n /\ Len(z) = n + 1 /\ z \in Seq(Events)
      /\ \A j \in 1 .. k : z[j] = q[j]
      /\ z[k + 1] = e
      /\ \A j \in k + 1 .. n : z[j + 1] = q[j]
  <2>1. Slot(q, e) \in Nat /\ Slot(q, e) <= Len(q) BY PushShape
  <2>2. Push(q, e) \in Seq(Events) /\ Len(Push(q, e)) = Len(q) + 1 BY PushShape
  <2>3. \A j \in 1 .. Slot(q, e) : Push(q, e)[j] = q[j] BY PushShape
  <2>4. Push(q, e)[Slot(q, e) + 1] = e BY PushShape
  <2>5. \A j \in Slot(q, e) + 1 .. Len(q) : Push(q, e)[j + 1] = q[j]
    BY PushShape
  <2> QED BY <2>1, <2>2, <2>3, <2>4, <2>5
<1>2. \A j \in 1 .. n : Before(q[j], e) <=> j <= k BY SlotIsPrefix
<1>3. n \in Nat /\ DOMAIN q = 1 .. n /\ \A j \in 1 .. n : q[j] \in Events
  BY ElementOfSeq, LenProperties
<1>4. \A i, j \in 1 .. n : i < j => Before(q[i], q[j]) BY <1>3 DEF Sorted
<1>5. DOMAIN z = 1 .. n + 1 BY <1>1, <1>3
<1> HIDE DEF k, z, n
<1>6. ASSUME NEW j \in 1 .. n + 1
      PROVE  \/ j \in 1 .. k /\ j \in 1 .. n /\ z[j] = q[j]
             \/ j = k + 1 /\ z[j] = e
             \/ j > k + 1 /\ j - 1 \in k + 1 .. n /\ j - 1 \in 1 .. n /\ z[j] = q[j - 1]
  <2>1. CASE j <= k BY <1>1, <1>3, <2>1
  <2>2. CASE j = k + 1 BY <1>1, <2>2
  <2>3. CASE j > k + 1
    <3>1. j - 1 \in k + 1 .. n /\ j - 1 \in 1 .. n /\ (j - 1) + 1 = j
      BY <1>1, <1>3, <2>3
    <3>2. z[j] = q[j - 1] BY <1>1, <3>1
    <3> QED BY <2>3, <3>1, <3>2
  <2> QED BY <1>1, <1>3, <2>1, <2>2, <2>3
<1>7. ASSUME NEW i \in 1 .. n + 1, NEW j \in 1 .. n + 1, i < j
      PROVE  Before(z[i], z[j])
  <2>1. CASE j <= k BY <1>1, <1>3, <1>4, <1>6, <1>7, <2>1
  <2>2. CASE j = k + 1
    <3>1. i \in 1 .. n /\ i <= k /\ z[i] = q[i] /\ z[j] = e
      BY <1>1, <1>3, <1>6, <1>7, <2>2
    <3> QED BY <1>2, <3>1
  <2>3. CASE j > k + 1
    <3>1. j - 1 \in 1 .. n /\ ~(j - 1 <= k) /\ z[j] = q[j - 1]
      BY <1>1, <1>3, <1>6, <2>3
    <3>2. Before(e, q[j - 1]) BY <1>2, <1>3, <3>1, BeforeOrders
    <3>3. CASE i <= k
      <4>1. i \in 1 .. n /\ z[i] = q[i] /\ i < j - 1
        BY <1>1, <1>3, <1>6, <3>1, <3>3
      <4> QED BY <1>4, <3>1, <4>1
    <3>4. CASE i = k + 1 BY <1>1, <3>1, <3>2, <3>4
    <3>5. CASE i > k + 1
      <4>1. i - 1 \in 1 .. n /\ z[i] = q[i - 1] /\ i - 1 < j - 1
        BY <1>1, <1>3, <1>6, <1>7, <3>5, SMTT(40)
      <4> QED BY <1>4, <3>1, <4>1
    <3> QED BY <1>1, <1>3, <3>3, <3>4, <3>5
  <2> QED BY <1>1, <1>3, <2>1, <2>2, <2>3
<1>8. Sorted(z) BY <1>5, <1>7 DEF Sorted
<1> QED BY <1>8 DEF z

(* Popping the head of a heap: time moves on to it. *)
LEMMA HeapPop ==
  ASSUME NEW q, NEW t, Heap(q, t), t \in Nat, q # <<>>
  PROVE  /\ Head(q) \in GoodEvents
         /\ Head(q).at \in Nat /\ t <= Head(q).at
         /\ Head(q).kind = "eviction" => Head(q).at = t
         /\ Heap(Tail(q), Head(q).at)
<1> DEFINE z == Tail(q)
           h == Head(q)
<1>1. q \in Seq(GoodEvents) /\ GoodEvents \subseteq Events
  BY DEF Heap, GoodEvents
<1>2. /\ Len(q) \in Nat \ {0} /\ 1 \in DOMAIN q
      /\ h \in GoodEvents /\ h = q[1]
      /\ z \in Seq(GoodEvents) /\ Len(z) = Len(q) - 1
  BY <1>1, TailShape
<1>3. \A j \in 1 .. Len(q) - 1 : z[j] = q[j + 1] BY <1>1, TailShape
<1>4. DOMAIN q = 1 .. Len(q) /\ DOMAIN z = 1 .. Len(q) - 1 BY <1>1, <1>2
<1>5. \A k \in 1 .. Len(q) : q[k] \in GoodEvents /\ q[k].at \in Nat
  BY <1>1, <1>4, ElementOfSeq DEF Events
<1>6. \A k \in 1 .. Len(q) :
        q[k].at >= t /\ (q[k].kind = "eviction" => q[k].at <= t)
  BY <1>4 DEF Heap
<1>7. \A i, j \in 1 .. Len(q) : i < j => Before(q[i], q[j])
  BY <1>4 DEF Heap, Sorted
<1> HIDE DEF z, h
<1>8. h.at \in Nat /\ t <= h.at /\ (h.kind = "eviction" => h.at = t)
  BY <1>2, <1>4, <1>5, <1>6
<1>9. ASSUME NEW k \in DOMAIN z
      PROVE z[k].at >= h.at /\ (z[k].kind = "eviction" => z[k].at <= h.at)
  <2>1. z[k] = q[k + 1] /\ k + 1 \in 1 .. Len(q) /\ 1 \in 1 .. Len(q) /\ 1 < k + 1
    BY <1>2, <1>3, <1>4
  <2>2. Before(h, z[k]) BY <1>2, <1>7, <2>1
  <2>3. z[k].at >= h.at BY <1>5, <1>8, <2>1, <2>2 DEF Before
  <2>4. z[k].kind = "eviction" => z[k].at <= t BY <1>6, <2>1
  <2> QED BY <1>5, <1>8, <2>1, <2>3, <2>4
<1>10. Sorted(z)
  <2>1. ASSUME NEW i \in DOMAIN z, NEW j \in DOMAIN z, i < j PROVE Before(z[i], z[j])
    <3>1. /\ z[i] = q[i + 1] /\ z[j] = q[j + 1]
          /\ i + 1 \in 1 .. Len(q) /\ j + 1 \in 1 .. Len(q) /\ i + 1 < j + 1
      BY <1>2, <1>3, <1>4, <2>1
    <3> QED BY <1>7, <3>1
  <2> QED BY <2>1 DEF Sorted
<1>11. Heap(z, h.at) BY <1>2, <1>9, <1>10 DEF Heap
<1> QED BY <1>2, <1>8, <1>11 DEF z, h

(* Pushing an event that is not in the past, nor an eviction to come. *)
LEMMA HeapPush ==
  ASSUME NEW q, NEW t, Heap(q, t), t \in Nat, NEW e \in GoodEvents,
         e.at >= t, e.kind = "eviction" => e.at = t
  PROVE  Heap(Push(q, e), t)
<1> DEFINE z == Push(q, e)
<1>1. q \in Seq(GoodEvents) /\ GoodEvents \subseteq Events /\ Sorted(q)
  BY DEF Heap, GoodEvents
<1>2. z \in Seq(GoodEvents) BY <1>1, PushShape
<1>3. Sorted(z)
  <2>1. q \in Seq(Events) /\ e \in Events
    <3>1. Len(q) \in Nat /\ q \in [1 .. Len(q) -> GoodEvents] BY <1>1
    <3> QED BY <1>1, <3>1
  <2> QED BY <1>1, <2>1, PushSorted
<1>4. Number(z, {x \in GoodEvents : ~(/\ x.at >= t
                                      /\ x.kind = "eviction" => x.at <= t)}) = 0
  <2> DEFINE Bad == {x \in GoodEvents : ~(/\ x.at >= t
                                          /\ x.kind = "eviction" => x.at <= t)}
  <2>1. \A k \in DOMAIN q : q[k] \notin Bad BY DEF Heap
  <2>2. e \notin Bad BY <1>1 DEF Events
  <2> HIDE DEF Bad, z
  <2>3. Number(q, Bad) = 0 BY <1>1, <2>1, NumberType
  <2>4. Number(z, Bad) = 0 + 0 BY <1>1, <2>2, <2>3, PushNumber DEF One, z
  <2> QED BY <2>4 DEF Bad
<1> HIDE DEF z
<1>5. \A k \in DOMAIN z : z[k] \in GoodEvents
  BY <1>2, ElementOfSeq, LenProperties
<1>6. \A k \in DOMAIN z : z[k].at >= t /\ (z[k].kind = "eviction" => z[k].at <= t)
  <2>1. \A k \in DOMAIN z :
          z[k] \notin {x \in GoodEvents : ~(/\ x.at >= t
                                            /\ x.kind = "eviction" => x.at <= t)}
    BY <1>2, <1>4, NumberType
  <2> QED BY <1>5, <2>1
<1> QED BY <1>2, <1>3, <1>6 DEF Heap, z

------------------------------
(* Counting requests. *)

(* Sets of requests: what is added, or taken away, adds up. *)
LEMMA RequestsAdd ==
  ASSUME NEW A \in SUBSET Requests, NEW B \in SUBSET Requests, A \cap B = {}
  PROVE  /\ Cardinality(A) \in Nat /\ Cardinality(B) \in Nat
         /\ Cardinality(A \cup B) = Cardinality(A) + Cardinality(B)
<1>1. IsFiniteSet(A) /\ IsFiniteSet(B) BY FS_Subset, GatewayQueueAssumption
<1>2. Cardinality(A \cap B) = 0 BY FS_EmptySet
<1>3. Cardinality(A \cup B) = Cardinality(A) + Cardinality(B) - Cardinality(A \cap B)
  BY <1>1, FS_Union
<1>4. Cardinality(A) \in Nat /\ Cardinality(B) \in Nat
  BY <1>1, FS_CardinalityType
<1> QED BY <1>2, <1>3, <1>4

LEMMA RequestsLess ==
  ASSUME NEW A \in SUBSET Requests, NEW B \in SUBSET A
  PROVE  /\ Cardinality(A) \in Nat /\ Cardinality(B) \in Nat
         /\ Cardinality(A \ B) = Cardinality(A) - Cardinality(B)
         /\ Cardinality(B) <= Cardinality(A)
<1>1. (A \ B) \cup B = A /\ (A \ B) \cap B = {}
      /\ A \ B \in SUBSET Requests /\ B \in SUBSET Requests
  OBVIOUS
<1>2. Cardinality(A) = Cardinality(A \ B) + Cardinality(B)
      /\ Cardinality(A \ B) \in Nat /\ Cardinality(B) \in Nat
  BY <1>1, RequestsAdd
<1> QED BY <1>2

(* The requests of S at priority p. *)
AtTier(S, p) == {r \in S : Priority[r] = p}

(* Counting the requests S, which had no bucket, in bucket b. *)
LEMMA LedgerGrows ==
  ASSUME NEW L \in [Requests -> SUBSET Buckets], NEW S \in SUBSET Requests,
         NEW b \in Buckets, \A r \in S : L[r] = {},
         NEW M \in [Requests -> SUBSET Buckets],
         \A r \in S : M[r] = {b}, \A r \in Requests \ S : M[r] = L[r]
  PROVE  /\ OneBucket(L) => OneBucket(M)
         /\ Cardinality(InBucket(b, M)) = Cardinality(InBucket(b, L)) + Cardinality(S)
         /\ \A c \in Buckets \ {b} : InBucket(c, M) = InBucket(c, L)
         /\ b \in TierBuckets =>
              \A p \in Priorities : Cardinality(InTier(p, M))
                = Cardinality(InTier(p, L)) + Cardinality(AtTier(S, p))
         /\ b \notin TierBuckets => \A p \in Priorities : InTier(p, M) = InTier(p, L)
<1>1. \A r \in Requests : M[r] = IF r \in S THEN {b} ELSE L[r] OBVIOUS
<1>2. OneBucket(L) => OneBucket(M) BY <1>1 DEF OneBucket
<1>3. Cardinality(InBucket(b, M)) = Cardinality(InBucket(b, L)) + Cardinality(S)
  <2>1. InBucket(b, M) = InBucket(b, L) \cup S /\ InBucket(b, L) \cap S = {}
        /\ InBucket(b, L) \in SUBSET Requests
    BY <1>1 DEF InBucket
  <2> QED BY <2>1, RequestsAdd
<1>4. \A c \in Buckets \ {b} : InBucket(c, M) = InBucket(c, L)
  BY <1>1 DEF InBucket
<1>5. ASSUME NEW p \in Priorities, b \in TierBuckets
      PROVE  Cardinality(InTier(p, M)) = Cardinality(InTier(p, L))
                                         + Cardinality(AtTier(S, p))
  <2> DEFINE D == AtTier(S, p)
  <2>1. InTier(p, M) = InTier(p, L) \cup D /\ InTier(p, L) \cap D = {}
        /\ InTier(p, L) \in SUBSET Requests /\ D \in SUBSET Requests
    BY <1>1, <1>5 DEF InTier, AtTier
  <2> HIDE DEF D
  <2>2. Cardinality(InTier(p, M)) = Cardinality(InTier(p, L)) + Cardinality(D)
    BY <2>1, RequestsAdd
  <2> QED BY <2>2 DEF D
<1>6. ASSUME NEW p \in Priorities, b \notin TierBuckets
      PROVE  InTier(p, M) = InTier(p, L)
  BY <1>1, <1>6 DEF InTier
<1> QED BY <1>2, <1>3, <1>4, <1>5, <1>6

(* Tally and TallyTier keep the counters equal to the sizes of buckets. *)
LEMMA TallyGood ==
  ASSUME TypeOK, OneBucket(ledger),
         BucketsCounted(count, ledger, queue.shedCount, queue.rejectedCount),
         TiersCounted(shedByTier, ledger),
         NEW S \in SUBSET Requests, NEW b \in Buckets, \A r \in S : ledger[r] = {},
         Tally(S, b),
         b \in TierBuckets => TallyTier(S),
         b \notin TierBuckets => shedByTier' = shedByTier,
         NEW shed, NEW refused,
         b = "shed" => shed = queue.shedCount + Cardinality(S),
         b # "shed" => shed = queue.shedCount,
         b = "queueRejected" => refused = queue.rejectedCount + Cardinality(S),
         b # "queueRejected" => refused = queue.rejectedCount
  PROVE  /\ count' \in [OwnCounters -> Nat] /\ shedByTier' \in [Priorities -> Nat]
         /\ ledger' \in [Requests -> SUBSET Buckets]
         /\ OneBucket(ledger')
         /\ \A r \in S : ledger'[r] # {}
         /\ \A r \in Requests \ S : ledger'[r] = ledger[r]
         /\ BucketsCounted(count', ledger', shed, refused)
         /\ TiersCounted(shedByTier', ledger')
<1>1. /\ ledger \in [Requests -> SUBSET Buckets]
      /\ count \in [OwnCounters -> Nat] /\ shedByTier \in [Priorities -> Nat]
  BY DEF TypeOK
<1>2. ledger' = [r \in Requests |-> IF r \in S THEN ledger[r] \cup {b} ELSE ledger[r]]
  BY DEF Tally
<1>M. PICK M : M = ledger' OBVIOUS
<1>3. /\ M \in [Requests -> SUBSET Buckets]
      /\ \A r \in S : M[r] = {b}
      /\ \A r \in Requests \ S : M[r] = ledger[r]
  BY <1>1, <1>2, <1>M
<1>4. /\ OneBucket(M)
      /\ Cardinality(InBucket(b, M)) = Cardinality(InBucket(b, ledger)) + Cardinality(S)
      /\ \A c \in Buckets \ {b} : InBucket(c, M) = InBucket(c, ledger)
  BY <1>1, <1>3, LedgerGrows
<1>5. /\ b \in TierBuckets =>
           \A p \in Priorities : Cardinality(InTier(p, M))
             = Cardinality(InTier(p, ledger)) + Cardinality(AtTier(S, p))
      /\ b \notin TierBuckets =>
           \A p \in Priorities : InTier(p, M) = InTier(p, ledger)
  BY <1>1, <1>3, LedgerGrows
<1>6. /\ ledger' \in [Requests -> SUBSET Buckets]
      /\ OneBucket(ledger')
      /\ \A r \in S : ledger'[r] # {}
      /\ \A r \in Requests \ S : ledger'[r] = ledger[r]
      /\ Cardinality(InBucket(b, ledger')) = Cardinality(InBucket(b, ledger)) + Cardinality(S)
      /\ \A c \in Buckets \ {b} : InBucket(c, ledger') = InBucket(c, ledger)
  BY <1>3, <1>4, <1>M
<1>7. /\ b \in TierBuckets =>
           \A p \in Priorities : Cardinality(InTier(p, ledger'))
             = Cardinality(InTier(p, ledger)) + Cardinality(AtTier(S, p))
      /\ b \notin TierBuckets =>
           \A p \in Priorities : InTier(p, ledger') = InTier(p, ledger)
  BY <1>5, <1>M
<1>8. Cardinality(S) \in Nat
  BY FS_Subset, FS_CardinalityType, GatewayQueueAssumption
<1>9. count' \in [OwnCounters -> Nat]
      /\ \A c \in OwnCounters : count'[c] = Cardinality(InBucket(c, ledger'))
  <2>1. CASE b \in OwnCounters
    <3>1. count' = [count EXCEPT ![b] = @ + Cardinality(S)] BY <2>1 DEF Tally
    <3>2. count'[b] = Cardinality(InBucket(b, ledger'))
      BY <1>1, <1>6, <2>1, <3>1 DEF BucketsCounted
    <3>3. \A c \in OwnCounters \ {b} : count'[c] = Cardinality(InBucket(c, ledger'))
      <4>1. \A c \in OwnCounters \ {b} : c \in Buckets \ {b} /\ count'[c] = count[c]
        BY <1>1, <3>1 DEF OwnCounters
      <4>2. \A c \in OwnCounters : count[c] = Cardinality(InBucket(c, ledger))
        BY DEF BucketsCounted
      <4>3. \A c \in OwnCounters \ {b} : InBucket(c, ledger') = InBucket(c, ledger)
        BY <1>6, <4>1
      <4> QED BY <4>1, <4>2, <4>3
    <3>4. count' \in [OwnCounters -> Nat] BY <1>1, <1>8, <2>1, <3>1
    <3> QED BY <3>2, <3>3, <3>4
  <2>2. CASE b \notin OwnCounters
    <3>1. count' = count BY <2>2 DEF Tally
    <3> QED BY <1>1, <1>6, <2>2, <3>1 DEF BucketsCounted, OwnCounters
  <2> QED BY <2>1, <2>2
<1>10. shed = Cardinality(InBucket("shed", ledger'))
  BY <1>6 DEF BucketsCounted, Buckets
<1>11. refused = Cardinality(InBucket("queueRejected", ledger'))
  BY <1>6 DEF BucketsCounted, Buckets
<1>12. shedByTier' \in [Priorities -> Nat]
      /\ \A p \in Priorities : shedByTier'[p] = Cardinality(InTier(p, ledger'))
  <2>1. CASE b \in TierBuckets
    <3>1. ASSUME NEW p \in Priorities
          PROVE  Cardinality(AtTier(S, p)) \in Nat
      <4>1. AtTier(S, p) \in SUBSET Requests BY DEF AtTier
      <4> QED BY <4>1, FS_Subset, FS_CardinalityType, GatewayQueueAssumption
    <3>2. shedByTier' = [p \in Priorities |->
                           shedByTier[p] + Cardinality(AtTier(S, p))]
      BY <2>1 DEF TallyTier, AtTier
    <3>3. shedByTier' \in [Priorities -> Nat] BY <1>1, <3>1, <3>2
    <3>4. \A p \in Priorities : shedByTier'[p] = Cardinality(InTier(p, ledger'))
      BY <1>7, <2>1, <3>2 DEF TiersCounted
    <3> QED BY <3>3, <3>4
  <2>2. CASE b \notin TierBuckets BY <1>1, <1>7, <2>2 DEF TiersCounted
  <2> QED BY <2>1, <2>2
<1> QED BY <1>6, <1>9, <1>10, <1>11, <1>12 DEF BucketsCounted, TiersCounted

(* The same for the buckets that the queue does not count. *)
LEMMA TallyPlain ==
  ASSUME GatewayInv, NEW S \in SUBSET Requests,
         NEW b \in Buckets \ {"shed", "queueRejected"}, \A r \in S : ledger[r] = {},
         Tally(S, b),
         b \in TierBuckets => TallyTier(S),
         b \notin TierBuckets => shedByTier' = shedByTier
  PROVE  /\ count' \in [OwnCounters -> Nat] /\ shedByTier' \in [Priorities -> Nat]
         /\ ledger' \in [Requests -> SUBSET Buckets]
         /\ OneBucket(ledger')
         /\ \A r \in S : ledger'[r] # {}
         /\ \A r \in Requests \ S : ledger'[r] = ledger[r]
         /\ BucketsCounted(count', ledger', queue.shedCount, queue.rejectedCount)
         /\ TiersCounted(shedByTier', ledger')
<1>1. /\ TypeOK /\ OneBucket(ledger)
      /\ BucketsCounted(count, ledger, queue.shedCount, queue.rejectedCount)
      /\ TiersCounted(shedByTier, ledger)
  BY DEF GatewayInv
<1>2. b \in Buckets /\ b # "shed" /\ b # "queueRejected" OBVIOUS
<1> DEFINE shed == queue.shedCount
           refused == queue.rejectedCount
<1>3. /\ b = "shed" => shed = queue.shedCount + Cardinality(S)
      /\ b # "shed" => shed = queue.shedCount
      /\ b = "queueRejected" => refused = queue.rejectedCount + Cardinality(S)
      /\ b # "queueRejected" => refused = queue.rejectedCount
  BY <1>2
<1> HIDE DEF shed, refused
<1>4. /\ count' \in [OwnCounters -> Nat] /\ shedByTier' \in [Priorities -> Nat]
      /\ ledger' \in [Requests -> SUBSET Buckets]
      /\ OneBucket(ledger')
      /\ \A r \in S : ledger'[r] # {}
      /\ \A r \in Requests \ S : ledger'[r] = ledger[r]
      /\ BucketsCounted(count', ledger', shed, refused)
      /\ TiersCounted(shedByTier', ledger')
  BY <1>1, <1>2, <1>3, TallyGood
<1> QED BY <1>4 DEF shed, refused

(* The requests S leave instance i: the counters follow, and the clamp at  *)
(* zero takes nothing away.                                                *)
LEMMA LeavingGood ==
  ASSUME TypeOK, Placed(stage, on), FlightsCounted(inFlight, stage, on),
         TenantsCounted(conf.budgets, tenantInFlight, stage),
         NEW i \in Instances, NEW S \in SUBSET OnInstance(i, stage, on),
         OffInstance(S), tenantInFlight' = TenantsAfter(S),
         inFlight' = [inFlight EXCEPT ![i] = AtLeastZero(@ - Cardinality(S))]
  PROVE  /\ stage' \in [Requests -> {"none", "injected", "waiting", "running"}]
         /\ on' \in [Requests -> Instances \cup {NoInstance}]
         /\ inFlight' \in [Instances -> Nat] /\ tenantInFlight' \in [Tenants -> Nat]
         /\ Placed(stage', on')
         /\ \A r \in S : stage'[r] = "none"
         /\ \A r \in Requests \ S : stage'[r] = stage[r] /\ on'[r] = on[r]
         /\ FlightsCounted(inFlight', stage', on')
         /\ TenantsCounted(conf.budgets, tenantInFlight', stage')
<1>1. /\ stage \in [Requests -> {"none", "injected", "waiting", "running"}]
      /\ on \in [Requests -> Instances \cup {NoInstance}]
      /\ inFlight \in [Instances -> Nat] /\ tenantInFlight \in [Tenants -> Nat]
  BY DEF TypeOK
<1>2. S \subseteq Requests /\ \A r \in S : on[r] = i /\ stage[r] # "none"
  BY DEF OnInstance
<1>3. /\ stage' = [r \in Requests |-> IF r \in S THEN "none" ELSE stage[r]]
      /\ on' = [r \in Requests |-> IF r \in S THEN NoInstance ELSE on[r]]
  BY DEF OffInstance
<1>4. /\ stage' \in [Requests -> {"none", "injected", "waiting", "running"}]
      /\ on' \in [Requests -> Instances \cup {NoInstance}]
      /\ \A r \in S : stage'[r] = "none" /\ on'[r] = NoInstance
      /\ \A r \in Requests \ S : stage'[r] = stage[r] /\ on'[r] = on[r]
  BY <1>1, <1>2, <1>3
<1>5. Placed(stage', on') BY <1>2, <1>4 DEF Placed
<1>6. \A j \in Instances : OnInstance(j, stage', on') = OnInstance(j, stage, on) \ S
  BY <1>2, <1>4 DEF OnInstance
<1>7. inFlight' \in [Instances -> Nat] /\ FlightsCounted(inFlight', stage', on')
  <2>1. inFlight[i] = Cardinality(OnInstance(i, stage, on))
    BY DEF FlightsCounted
  <2>2. /\ Cardinality(OnInstance(i, stage, on)) \in Nat /\ Cardinality(S) \in Nat
        /\ Cardinality(OnInstance(i, stage, on) \ S)
             = Cardinality(OnInstance(i, stage, on)) - Cardinality(S)
        /\ Cardinality(S) <= Cardinality(OnInstance(i, stage, on))
    <3>1. OnInstance(i, stage, on) \in SUBSET Requests BY DEF OnInstance
    <3> QED BY <3>1, RequestsLess
  <2>3. AtLeastZero(inFlight[i] - Cardinality(S)) = inFlight[i] - Cardinality(S)
        /\ inFlight[i] - Cardinality(S) \in Nat
    BY <2>1, <2>2 DEF AtLeastZero
  <2>4. inFlight'[i] = Cardinality(OnInstance(i, stage', on'))
    BY <1>1, <1>6, <2>1, <2>2, <2>3
  <2>5. ASSUME NEW j \in Instances, j # i
        PROVE  inFlight'[j] = Cardinality(OnInstance(j, stage', on'))
    <3>1. OnInstance(j, stage', on') = OnInstance(j, stage, on)
      BY <1>2, <1>6, <2>5 DEF OnInstance
    <3>2. inFlight'[j] = inFlight[j] BY <1>1, <2>5
    <3> QED BY <3>1, <3>2 DEF FlightsCounted
  <2>6. inFlight' \in [Instances -> Nat] BY <1>1, <2>3
  <2> QED BY <2>4, <2>5, <2>6 DEF FlightsCounted
<1>8. tenantInFlight' \in [Tenants -> Nat]
      /\ TenantsCounted(conf.budgets, tenantInFlight', stage')
  <2>1. CASE ~conf.budgets BY <1>1, <2>1 DEF TenantsAfter, TenantsCounted
  <2>2. CASE conf.budgets
    <3> DEFINE Gone(t) == {r \in S : Tenant[r] = t}
    <3>1. tenantInFlight' = [t \in Tenants |->
             AtLeastZero(tenantInFlight[t] - Cardinality(Gone(t)))]
      BY <2>2 DEF TenantsAfter
    <3>2. ASSUME NEW t \in Tenants
          PROVE  /\ OfTenant(t, stage) \in SUBSET Requests
                 /\ Gone(t) \in SUBSET OfTenant(t, stage)
                 /\ OfTenant(t, stage') = OfTenant(t, stage) \ Gone(t)
      BY <1>2, <1>4 DEF OfTenant
    <3> HIDE DEF Gone
    <3>3. ASSUME NEW t \in Tenants
          PROVE  /\ tenantInFlight'[t] \in Nat
                 /\ tenantInFlight'[t] = Cardinality(OfTenant(t, stage'))
      <4>1. tenantInFlight[t] = Cardinality(OfTenant(t, stage))
        BY <2>2 DEF TenantsCounted
      <4>2. /\ Cardinality(OfTenant(t, stage)) \in Nat /\ Cardinality(Gone(t)) \in Nat
            /\ Cardinality(OfTenant(t, stage) \ Gone(t))
                 = Cardinality(OfTenant(t, stage)) - Cardinality(Gone(t))
            /\ Cardinality(Gone(t)) <= Cardinality(OfTenant(t, stage))
        BY <3>2, RequestsLess
      <4>3. tenantInFlight'[t] = AtLeastZero(tenantInFlight[t] - Cardinality(Gone(t)))
        BY <3>1
      <4>4. OfTenant(t, stage') = OfTenant(t, stage) \ Gone(t) BY <3>2
      <4>5. AtLeastZero(tenantInFlight[t] - Cardinality(Gone(t)))
              = tenantInFlight[t] - Cardinality(Gone(t))
        BY <4>1, <4>2 DEF AtLeastZero
      <4> QED BY <4>1, <4>2, <4>3, <4>4, <4>5
    <3>4. tenantInFlight' = [t \in Tenants |-> tenantInFlight'[t]] BY <3>1
    <3> HIDE <3>1
    <3> QED BY <3>3, <3>4 DEF TenantsCounted
  <2> QED BY <2>1, <2>2
<1> QED BY <1>4, <1>5, <1>7, <1>8

------------------------------
(* Events of a kind, pushed and popped. *)

(* What kind an event is. *)
LEMMA EventSorts ==
  ASSUME NEW at \in Nat, NEW k \in DOMAIN EventPriority,
         NEW r \in Requests \cup {NoRequest}, NEW i \in Instances \cup {NoInstance},
         k \notin {"loaded", "tick"} => r \in Requests, k = "loaded" => i \in Instances
  PROVE  /\ Event(at, k, r, i) \in GoodEvents
         /\ Event(at, k, r, i).at = at /\ Event(at, k, r, i).kind = k
         /\ Event(at, k, r, i).req = r /\ Event(at, k, r, i).inst = i
         /\ Event(at, k, r, i) \in Ticks <=> k = "tick"
         /\ \A s : Event(at, k, r, i) \in Evictions(s) <=> k = "eviction" /\ r = s
         /\ \A s : Event(at, k, r, i) \in Travels(s)
                     <=> k \in {"arrival", "admission", "routing"} /\ r = s
<1> DEFINE e == Event(at, k, r, i)
<1>1. /\ e.at = at /\ e.kind = k /\ e.req = r /\ e.inst = i
      /\ e \in Events
  BY DEF Event, Events
<1> HIDE DEF e
<1>2. e \in GoodEvents BY <1>1 DEF GoodEvents
<1>3. e \in Ticks <=> k = "tick" BY <1>1, <1>2 DEF Ticks
<1>4. \A s : e \in Evictions(s) <=> k = "eviction" /\ r = s
  BY <1>1, <1>2 DEF Evictions
<1>5. \A s : e \in Travels(s) <=> k \in {"arrival", "admission", "routing"} /\ r = s
  BY <1>1, <1>2 DEF Travels
<1> QED BY <1>1, <1>2, <1>3, <1>4, <1>5 DEF e

(* Pushing an event outside S, or in it. *)
LEMMA PushOutside ==
  ASSUME NEW q \in Seq(GoodEvents), NEW e \in GoodEvents, NEW S, e \notin S
  PROVE  Number(Push(q, e), S) = Number(q, S)
<1>1. Number(Push(q, e), S) = Number(q, S) + 0 BY PushNumber DEF One
<1>2. Number(q, S) \in Nat BY NumberType
<1> QED BY <1>1, <1>2

(* Pushing an event of S. *)
LEMMA PushInside ==
  ASSUME NEW q \in Seq(GoodEvents), NEW e \in GoodEvents, NEW S, e \in S
  PROVE  Number(Push(q, e), S) = Number(q, S) + 1
BY PushNumber DEF One

(* A request's next event. *)
LEMMA PushTravel ==
  ASSUME NEW q, NEW t \in Nat, Heap(q, t), NEW at \in Nat, at >= t,
         NEW k \in {"admission", "routing"}, NEW r \in Requests
  PROVE  LET z == Push(q, Event(at, k, r, NoInstance))
         IN  /\ Heap(z, t)
             /\ Number(z, Travels(r)) = Number(q, Travels(r)) + 1
             /\ \A s \in Requests \ {r} : Number(z, Travels(s)) = Number(q, Travels(s))
             /\ Number(z, Ticks) = Number(q, Ticks)
             /\ \A s \in Requests : Number(z, Evictions(s)) = Number(q, Evictions(s))
<1> DEFINE e == Event(at, k, r, NoInstance)
<1>1. k \in DOMAIN EventPriority /\ k \notin {"loaded", "tick", "eviction"}
  BY DEF EventPriority
<1>2. /\ e \in GoodEvents /\ e.at = at /\ e.kind = k
      /\ e \notin Ticks
      /\ \A s : e \notin Evictions(s)
      /\ \A s : e \in Travels(s) <=> r = s
  BY <1>1, EventSorts
<1> HIDE DEF e
<1>3. q \in Seq(GoodEvents) BY DEF Heap
<1>4. Heap(Push(q, e), t) BY <1>1, <1>2, HeapPush
<1>5. Number(Push(q, e), Travels(r)) = Number(q, Travels(r)) + 1
  BY <1>2, <1>3, PushInside
<1>6. \A s \in Requests \ {r} : Number(Push(q, e), Travels(s)) = Number(q, Travels(s))
  BY <1>2, <1>3, PushOutside
<1>7. Number(Push(q, e), Ticks) = Number(q, Ticks) BY <1>2, <1>3, PushOutside
<1>8. \A s \in Requests : Number(Push(q, e), Evictions(s)) = Number(q, Evictions(s))
  BY <1>2, <1>3, PushOutside
<1> QED BY <1>4, <1>5, <1>6, <1>7, <1>8 DEF e

(* A dispatch tick. *)
LEMMA PushTick ==
  ASSUME NEW q, NEW t \in Nat, Heap(q, t), NEW at \in Nat, at >= t
  PROVE  LET z == Push(q, Event(at, "tick", NoRequest, NoInstance))
         IN  /\ Heap(z, t)
             /\ \A s \in Requests : Number(z, Travels(s)) = Number(q, Travels(s))
             /\ Number(z, Ticks) = Number(q, Ticks) + 1
             /\ \A s \in Requests : Number(z, Evictions(s)) = Number(q, Evictions(s))
<1> DEFINE e == Event(at, "tick", NoRequest, NoInstance)
<1>1. "tick" \in DOMAIN EventPriority BY DEF EventPriority
<1>2. /\ e \in GoodEvents /\ e.at = at /\ e.kind = "tick"
      /\ e \in Ticks
      /\ \A s : e \notin Evictions(s)
      /\ \A s : e \notin Travels(s)
  BY <1>1, EventSorts
<1> HIDE DEF e
<1>3. q \in Seq(GoodEvents) BY DEF Heap
<1>4. Heap(Push(q, e), t) BY <1>2, HeapPush
<1>5. \A s \in Requests : Number(Push(q, e), Travels(s)) = Number(q, Travels(s))
  BY <1>2, <1>3, PushOutside
<1>6. Number(Push(q, e), Ticks) = Number(q, Ticks) + 1
  BY <1>2, <1>3, PushInside
<1>7. \A s \in Requests : Number(Push(q, e), Evictions(s)) = Number(q, Evictions(s))
  BY <1>2, <1>3, PushOutside
<1> QED BY <1>4, <1>5, <1>6, <1>7 DEF e

(* The expiry of a request's time in the queue. *)
LEMMA PushTTL ==
  ASSUME NEW q, NEW t \in Nat, Heap(q, t), NEW at \in Nat, at >= t, NEW r \in Requests
  PROVE  LET z == Push(q, Event(at, "ttl", r, NoInstance))
         IN  /\ Heap(z, t)
             /\ \A s \in Requests : Number(z, Travels(s)) = Number(q, Travels(s))
             /\ Number(z, Ticks) = Number(q, Ticks)
             /\ \A s \in Requests : Number(z, Evictions(s)) = Number(q, Evictions(s))
<1> DEFINE e == Event(at, "ttl", r, NoInstance)
<1>1. "ttl" \in DOMAIN EventPriority BY DEF EventPriority
<1>2. /\ e \in GoodEvents /\ e.at = at /\ e.kind = "ttl"
      /\ e \notin Ticks
      /\ \A s : e \notin Evictions(s)
      /\ \A s : e \notin Travels(s)
  BY <1>1, EventSorts
<1> HIDE DEF e
<1>3. q \in Seq(GoodEvents) BY DEF Heap
<1>4. Heap(Push(q, e), t) BY <1>2, HeapPush
<1>5. \A s \in Requests : Number(Push(q, e), Travels(s)) = Number(q, Travels(s))
  BY <1>2, <1>3, PushOutside
<1>6. Number(Push(q, e), Ticks) = Number(q, Ticks) BY <1>2, <1>3, PushOutside
<1>7. \A s \in Requests : Number(Push(q, e), Evictions(s)) = Number(q, Evictions(s))
  BY <1>2, <1>3, PushOutside
<1> QED BY <1>4, <1>5, <1>6, <1>7 DEF e

(* An eviction, at once. *)
LEMMA PushEviction ==
  ASSUME NEW q, NEW t \in Nat, Heap(q, t), NEW r \in Requests, NEW i \in Instances
  PROVE  LET z == Push(q, Event(t, "eviction", r, i))
         IN  /\ Heap(z, t)
             /\ \A s \in Requests : Number(z, Travels(s)) = Number(q, Travels(s))
             /\ Number(z, Ticks) = Number(q, Ticks)
             /\ Number(z, Evictions(r)) = Number(q, Evictions(r)) + 1
             /\ \A s \in Requests \ {r} :
                  Number(z, Evictions(s)) = Number(q, Evictions(s))
<1> DEFINE e == Event(t, "eviction", r, i)
<1>1. "eviction" \in DOMAIN EventPriority BY DEF EventPriority
<1>2. /\ e \in GoodEvents /\ e.at = t /\ e.kind = "eviction"
      /\ e \notin Ticks
      /\ \A s : e \in Evictions(s) <=> r = s
      /\ \A s : e \notin Travels(s)
  BY <1>1, EventSorts
<1> HIDE DEF e
<1>3. q \in Seq(GoodEvents) BY DEF Heap
<1>4. Heap(Push(q, e), t) BY <1>2, HeapPush
<1>5. \A s \in Requests : Number(Push(q, e), Travels(s)) = Number(q, Travels(s))
  BY <1>2, <1>3, PushOutside
<1>6. Number(Push(q, e), Ticks) = Number(q, Ticks) BY <1>2, <1>3, PushOutside
<1>7. Number(Push(q, e), Evictions(r)) = Number(q, Evictions(r)) + 1
  BY <1>2, <1>3, PushInside
<1>8. \A s \in Requests \ {r} :
        Number(Push(q, e), Evictions(s)) = Number(q, Evictions(s))
  BY <1>2, <1>3, PushOutside
<1> QED BY <1>4, <1>5, <1>6, <1>7, <1>8 DEF e

------------------------------
(* Dispatch. *)

(* One attempt to dispatch: what it sends leaves the queue for one routing *)
(* event, what it evicts leaves the tracker for one eviction, and a tick   *)
(* is on its way if anyone still waits.                                    *)
LEMMA DispatchGood ==
  ASSUME TypeOK, NEW q, NEW n \in Nat, GoodQueue(q, n),
         NEW ev, NEW now \in Nat, Heap(ev, now),
         NEW d \in TryDispatch(q, ev, tracker, now)
  PROVE  /\ GoodQueue(d.queue, n)
         /\ d.queue.panic = q.panic
         /\ d.queue.shedCount = q.shedCount
         /\ d.queue.rejectedCount = q.rejectedCount
         /\ d.sent \subseteq Queued(q)
         /\ Queued(d.queue) = Queued(q) \ d.sent
         /\ \A r \in d.sent :
              /\ \A s \in Queued(q) : Priority[s] <= Priority[r]
              /\ conf.order # "slo-deadline" =>
                   \A x \in Positions(q) : At(q, x).req = r => x.i = 1
         /\ Heap(d.events, now)
         /\ d.tick \in BOOLEAN /\ (tickPending => d.tick)
         /\ d.queue.totalLen > 0 => d.tick
         /\ d.tick /\ ~tickPending => Number(d.events, Ticks) = Number(ev, Ticks) + 1
         /\ ~d.tick \/ tickPending => Number(d.events, Ticks) = Number(ev, Ticks)
         /\ \A r \in d.sent : Number(d.events, Travels(r)) = Number(ev, Travels(r)) + 1
         /\ \A r \in Requests \ d.sent :
              Number(d.events, Travels(r)) = Number(ev, Travels(r))
         /\ \/ /\ d.tracker = tracker
               /\ \A r \in Requests :
                    Number(d.events, Evictions(r)) = Number(ev, Evictions(r))
            \/ \E x \in tracker :
                 /\ d.tracker = tracker \ {x}
                 /\ Number(d.events, Evictions(x.req)) = Number(ev, Evictions(x.req)) + 1
                 /\ \A r \in Requests \ {x.req} :
                      Number(d.events, Evictions(r)) = Number(ev, Evictions(r))
<1> DEFINE ticked == IF tickPending THEN ev
                     ELSE Push(ev, Event(now + TickInterval, "tick", NoRequest, NoInstance))
           gated == DequeueGated(q, conf, Saturation)
           evict == /\ Saturation >= SatScale /\ conf.eviction /\ tracker # {}
                    /\ HasNonSheddableWaiting(q)
           Routed(r) == Event(now + conf.routingLatency, "routing", r, NoInstance)
           Evicted(x) == Push(ticked, Event(now, "eviction", x.req, x.inst))
           sent == IF gated.got = {} THEN ticked
                   ELSE Push(ticked, Routed(CHOOSE r \in gated.got : TRUE))
<1>1. /\ tickPending \in BOOLEAN /\ conf.routingLatency \in Nat
      /\ tracker \subseteq [req : Requests, at : Nat, inst : Instances]
      /\ TickInterval \in Nat
  BY GatewayAssumption DEF TypeOK, ConfigType
<1>2. q \in Queues /\ q.totalLen \in Nat /\ Queued(q) \subseteq Requests
  <2>1. q \in Queues BY DEF GoodQueue
  <2> QED BY <2>1, QueueFields, EntryAt, ZenonT(40) DEF Queued
<1>3. /\ Heap(ticked, now)
      /\ \A s \in Requests : Number(ticked, Travels(s)) = Number(ev, Travels(s))
      /\ \A s \in Requests : Number(ticked, Evictions(s)) = Number(ev, Evictions(s))
      /\ tickPending => Number(ticked, Ticks) = Number(ev, Ticks)
      /\ ~tickPending => Number(ticked, Ticks) = Number(ev, Ticks) + 1
  <2>1. CASE tickPending BY <2>1
  <2>2. CASE ~tickPending
    <3>1. ticked = Push(ev, Event(now + TickInterval, "tick", NoRequest, NoInstance))
      BY <2>2
    <3>2. now + TickInterval \in Nat /\ now + TickInterval >= now BY <1>1
    <3> HIDE DEF ticked
    <3> QED BY <2>2, <3>1, <3>2, PushTick
  <2> QED BY <2>1, <2>2
<1>4. \/ /\ q.totalLen = 0
         /\ d = [queue |-> q, events |-> ev, tracker |-> tracker,
                 tick |-> tickPending, sent |-> {}]
      \/ /\ q.totalLen # 0
         /\ \E x \in tracker :
              d = [queue |-> q, tracker |-> tracker \ {x}, tick |-> TRUE, sent |-> {},
                   events |-> Evicted(x)]
      \/ /\ q.totalLen # 0
         /\ d = [queue |-> gated.queue, tracker |-> tracker, tick |-> TRUE,
                 sent |-> gated.got, events |-> sent]
  <2> DEFINE D1 == {[queue |-> q, events |-> ev, tracker |-> tracker,
                     tick |-> tickPending, sent |-> {}]}
             D2 == {[queue |-> q, tracker |-> tracker \ {x}, tick |-> TRUE, sent |-> {},
                     events |-> Evicted(x)] : x \in MostEvictable(tracker)}
             D3 == {[queue |-> gated.queue, tracker |-> tracker, tick |-> TRUE,
                     sent |-> gated.got, events |-> sent]}
  <2>1. TryDispatch(q, ev, tracker, now) =
          CASE q.totalLen = 0 -> D1 [] q.totalLen # 0 /\ evict -> D2 [] OTHER -> D3
    BY DEF TryDispatch
  <2> HIDE DEF evict
  <2>2. /\ q.totalLen = 0 => d \in D1
        /\ q.totalLen # 0 => d \in D2 \/ d \in D3
    <3> HIDE DEF D1, D2, D3
    <3> QED BY <2>1
  <2> HIDE DEF Evicted, gated, sent
  <2>3. MostEvictable(tracker) \subseteq tracker BY DEF MostEvictable
  <2> QED BY <2>2, <2>3
<1> HIDE DEF ticked, evict
<1>5. CASE /\ q.totalLen = 0
           /\ d = [queue |-> q, events |-> ev, tracker |-> tracker,
                   tick |-> tickPending, sent |-> {}]
  <2>1. /\ d.queue = q /\ d.events = ev /\ d.tracker = tracker
        /\ d.tick = tickPending /\ d.sent = {}
    BY <1>5
  <2> QED BY <1>1, <1>2, <1>5, <2>1
<1>6. CASE /\ q.totalLen # 0
           /\ \E x \in tracker :
                d = [queue |-> q, tracker |-> tracker \ {x}, tick |-> TRUE, sent |-> {},
                     events |-> Evicted(x)]
  <2>1. PICK x \in tracker :
          d = [queue |-> q, tracker |-> tracker \ {x}, tick |-> TRUE, sent |-> {},
               events |-> Evicted(x)]
    BY <1>6
  <2>2. x.req \in Requests /\ x.inst \in Instances BY <1>1
  <2> DEFINE z == Evicted(x)
  <2>3. /\ Heap(z, now)
        /\ \A s \in Requests : Number(z, Travels(s)) = Number(ticked, Travels(s))
        /\ Number(z, Ticks) = Number(ticked, Ticks)
        /\ Number(z, Evictions(x.req)) = Number(ticked, Evictions(x.req)) + 1
        /\ \A s \in Requests \ {x.req} :
             Number(z, Evictions(s)) = Number(ticked, Evictions(s))
    BY <1>3, <2>2, PushEviction
  <2> HIDE DEF z
  <2>4. /\ d.queue = q /\ d.events = z /\ d.tracker = tracker \ {x}
        /\ d.tick = TRUE /\ d.sent = {}
    BY <2>1 DEF z
  <2> HIDE <2>1
  <2>5. /\ d.tick \in BOOLEAN /\ (tickPending => d.tick)
        /\ (d.queue.totalLen > 0 => d.tick)
    BY <2>4
  <2>6. /\ d.tick /\ ~tickPending => Number(d.events, Ticks) = Number(ev, Ticks) + 1
        /\ ~d.tick \/ tickPending => Number(d.events, Ticks) = Number(ev, Ticks)
    BY <1>3, <2>3, <2>4
  <2>7. \A r \in Requests : Number(d.events, Travels(r)) = Number(ev, Travels(r))
    BY <1>3, <2>3, <2>4
  <2>8. /\ d.tracker = tracker \ {x}
        /\ Number(d.events, Evictions(x.req)) = Number(ev, Evictions(x.req)) + 1
        /\ \A r \in Requests \ {x.req} :
             Number(d.events, Evictions(r)) = Number(ev, Evictions(r))
    BY <1>3, <2>2, <2>3, <2>4
  <2> QED BY <2>3, <2>4, <2>5, <2>6, <2>7, <2>8
<1>7. CASE /\ q.totalLen # 0
           /\ d = [queue |-> gated.queue, tracker |-> tracker, tick |-> TRUE,
                   sent |-> gated.got, events |-> sent]
  <2>1. /\ d.queue = gated.queue /\ d.events = sent /\ d.tracker = tracker
        /\ d.tick = TRUE /\ d.sent = gated.got
    BY <1>7
  <2>2. /\ GoodQueue(gated.queue, n)
        /\ gated.queue.panic = q.panic
        /\ gated.queue.shedCount = q.shedCount
        /\ gated.queue.rejectedCount = q.rejectedCount
        /\ Queued(gated.queue) = Queued(q) \ gated.got
    BY DequeueGatedGood
  <2>3. \/ gated.got = {}
        \/ \E r \in Queued(q) :
             /\ gated.got = {r}
             /\ \A s \in Queued(q) : Priority[s] <= Priority[r]
             /\ conf.order # "slo-deadline" =>
                  \A x \in Positions(q) : At(q, x).req = r => x.i = 1
    BY DequeueGatedGood
  <2> HIDE DEF gated
  <2>4. gated.got \subseteq Queued(q) BY <2>3
  <2>5. \A r \in gated.got :
          /\ \A s \in Queued(q) : Priority[s] <= Priority[r]
          /\ conf.order # "slo-deadline" =>
               \A x \in Positions(q) : At(q, x).req = r => x.i = 1
    BY <2>3
  <2>6. /\ Heap(sent, now)
        /\ \A r \in gated.got : Number(sent, Travels(r)) = Number(ticked, Travels(r)) + 1
        /\ \A r \in Requests \ gated.got :
             Number(sent, Travels(r)) = Number(ticked, Travels(r))
        /\ Number(sent, Ticks) = Number(ticked, Ticks)
        /\ \A r \in Requests : Number(sent, Evictions(r)) = Number(ticked, Evictions(r))
    <3>1. CASE gated.got = {}
      <4>1. sent = ticked BY <3>1
      <4> HIDE DEF sent
      <4> QED BY <1>3, <3>1, <4>1
    <3>2. CASE gated.got # {}
      <4>1. PICK r \in Queued(q) : gated.got = {r} BY <2>3, <3>2
      <4>2. r \in Requests /\ (CHOOSE s \in gated.got : TRUE) = r BY <1>2, <4>1
      <4>3. sent = Push(ticked, Routed(r)) BY <3>2, <4>2
      <4>4. now + conf.routingLatency \in Nat /\ now + conf.routingLatency >= now
        BY <1>1
      <4> HIDE DEF sent
      <4>5. /\ Heap(sent, now)
            /\ Number(sent, Travels(r)) = Number(ticked, Travels(r)) + 1
            /\ \A s \in Requests \ {r} : Number(sent, Travels(s)) = Number(ticked, Travels(s))
            /\ Number(sent, Ticks) = Number(ticked, Ticks)
            /\ \A s \in Requests : Number(sent, Evictions(s)) = Number(ticked, Evictions(s))
        BY <1>3, <4>2, <4>3, <4>4, PushTravel
      <4> QED BY <4>1, <4>5
    <3> QED BY <3>1, <3>2
  <2> HIDE DEF sent
  <2>7. /\ d.tick /\ ~tickPending => Number(d.events, Ticks) = Number(ev, Ticks) + 1
        /\ ~d.tick \/ tickPending => Number(d.events, Ticks) = Number(ev, Ticks)
    BY <1>3, <2>1, <2>6
  <2>8. /\ \A r \in d.sent : Number(d.events, Travels(r)) = Number(ev, Travels(r)) + 1
        /\ \A r \in Requests \ d.sent :
             Number(d.events, Travels(r)) = Number(ev, Travels(r))
    BY <1>2, <1>3, <2>1, <2>4, <2>6
  <2>9. \A r \in Requests : Number(d.events, Evictions(r)) = Number(ev, Evictions(r))
    BY <1>3, <2>1, <2>6
  <2> HIDE <1>7
  <2> QED BY <2>1, <2>2, <2>4, <2>5, <2>6, <2>7, <2>8, <2>9
<1> QED BY <1>4, <1>5, <1>6, <1>7

------------------------------
(* The invariant holds initially. *)

(* The first heap: one arrival for each request, and loads. *)
LEMMA FirstHeap ==
  ASSUME NEW times \in [Requests -> ArrivalTimes], NEW loads \in [Instances -> LoadTimes],
         NEW q \in Heaps(ArrivalEvents(times) \cup LoadEvents(loads))
  PROVE  /\ Heap(q, 0)
         /\ \A r \in Requests : Number(q, Travels(r)) = 1
         /\ Number(q, Ticks) = 0
         /\ \A r \in Requests : Number(q, Evictions(r)) = 0
<1> DEFINE A == ArrivalEvents(times)
           L == LoadEvents(loads)
           E == A \cup L
           n == Cardinality(E)
           arrival(r) == Event(times[r], "arrival", r, NoInstance)
           late == {j \in Instances : loads[j] > 0}
           load(i) == Event(loads[i], "loaded", NoRequest, i)
<1>1. ASSUME NEW r \in Requests
      PROVE  /\ arrival(r) \in GoodEvents /\ arrival(r).at \in Nat
             /\ arrival(r).kind = "arrival" /\ arrival(r).req = r
             /\ arrival(r) \notin Ticks /\ \A s : arrival(r) \notin Evictions(s)
             /\ \A s : arrival(r) \in Travels(s) <=> r = s
  <2>1. times[r] \in Nat /\ "arrival" \in DOMAIN EventPriority
    BY GatewayAssumption DEF EventPriority
  <2> QED BY <2>1, EventSorts
<1>2. ASSUME NEW i \in late
      PROVE  /\ load(i) \in GoodEvents /\ load(i).at \in Nat /\ load(i).kind = "loaded"
             /\ load(i) \notin Ticks /\ \A s : load(i) \notin Evictions(s)
             /\ \A s : load(i) \notin Travels(s)
  <2>1. loads[i] \in Nat /\ "loaded" \in DOMAIN EventPriority /\ i \in Instances
        /\ NoRequest \in Requests \cup {NoRequest}
    BY GatewayAssumption DEF EventPriority
  <2>2. load(i) \in Events /\ load(i).at = loads[i] /\ load(i).kind = "loaded"
        /\ load(i).inst = i
    BY <2>1 DEF Event, Events
  <2> HIDE DEF load
  <2>3. load(i) \in GoodEvents BY <2>1, <2>2 DEF GoodEvents
  <2> QED BY <2>1, <2>2, <2>3 DEF Ticks, Evictions, Travels
<1>3. /\ \A e \in A : \E r \in Requests : e = arrival(r)
      /\ \A r \in Requests : arrival(r) \in A
      /\ \A e \in L : \E i \in late : e = load(i)
  BY DEF ArrivalEvents, LoadEvents
<1>4. IsFiniteSet(E)
  <2>1. [r \in Requests |-> arrival(r)] \in Surjection(Requests, A)
    BY DEF Surjection, ArrivalEvents
  <2>2. IsFiniteSet(A)
    <3> HIDE DEF A, arrival
    <3> QED BY <2>1, FS_Surjection, GatewayQueueAssumption
  <2>3. [i \in late |-> load(i)] \in Surjection(late, L)
    BY DEF Surjection, LoadEvents
  <2>4. IsFiniteSet(late) BY FS_Subset, GatewayAssumption
  <2>5. IsFiniteSet(L)
    <3> HIDE DEF L, load, late
    <3> QED BY <2>3, <2>4, FS_Surjection
  <2> HIDE DEF A, L
  <2> QED BY <2>2, <2>5, FS_Union
<1>5. n \in Nat BY <1>4, FS_CardinalityType
<1>6. /\ q \in [1 .. n -> E] /\ Sorted(q)
      /\ \A e \in E : \E k \in 1 .. n : q[k] = e
  <2>1. q \in {f \in [1 .. n -> E] :
                 Sorted(f) /\ \A e \in E : \E k \in DOMAIN f : f[k] = e}
    BY DEF Heaps
  <2> HIDE DEF n, E
  <2> QED BY <2>1
<1> HIDE DEF A, L
<1>7. /\ E \subseteq GoodEvents
      /\ \A e \in E : /\ e.at \in Nat /\ e.kind \in {"arrival", "loaded"}
                      /\ e \notin Ticks /\ \A s : e \notin Evictions(s)
      /\ \A e \in E, s \in Requests : e \in Travels(s) => e = arrival(s)
  <2> SUFFICES ASSUME NEW e \in E
               PROVE  /\ e \in GoodEvents /\ e.at \in Nat
                      /\ e.kind \in {"arrival", "loaded"}
                      /\ e \notin Ticks /\ \A s : e \notin Evictions(s)
                      /\ \A s \in Requests : e \in Travels(s) => e = arrival(s)
    OBVIOUS
  <2>1. CASE e \in A
    <3>1. PICK r \in Requests : e = arrival(r) BY <1>3, <2>1
    <3> HIDE DEF arrival
    <3> QED BY <1>1, <3>1
  <2>2. CASE e \in L
    <3>1. PICK i \in late : e = load(i) BY <1>3, <2>2
    <3> HIDE DEF load, late
    <3> QED BY <1>2, <3>1
  <2> QED BY <2>1, <2>2
<1>8. q \in Injection(1 .. n, E)
  <2>1. q \in Surjection(1 .. n, E)
    <3> HIDE DEF n, E
    <3> QED BY <1>6 DEF Surjection
  <2>2. IsFiniteSet(1 .. n) /\ Cardinality(1 .. n) = n
    <3> HIDE DEF n
    <3> QED BY <1>5, FS_Interval
  <2> HIDE DEF E
  <2>3. Cardinality(E) = Cardinality(1 .. n) BY <2>2
  <2> HIDE DEF n
  <2> QED BY <2>1, <2>2, <2>3, FS_Surjection
<1> HIDE DEF E, n, arrival, load, late
<1>9. /\ q \in Seq(GoodEvents) /\ DOMAIN q = 1 .. n
      /\ \A k \in 1 .. n : q[k] \in E
  <2>1. q \in [1 .. n -> GoodEvents] BY <1>6, <1>7
  <2>2. q \in Seq(GoodEvents) BY <1>5, <2>1, SeqDef
  <2> QED BY <1>6, <2>2
<1>10. Heap(q, 0)
  <2>1. \A k \in DOMAIN q : q[k].at >= 0 /\ (q[k].kind = "eviction" => q[k].at <= 0)
    BY <1>7, <1>9
  <2> QED BY <1>6, <1>9, <2>1 DEF Heap
<1>11. ASSUME NEW r \in Requests PROVE Number(q, Travels(r)) = 1
  <2>1. arrival(r) \in E BY <1>3 DEF E
  <2>2. PICK k \in 1 .. n : q[k] = arrival(r) BY <1>6, <2>1
  <2>3. \A m \in 1 .. n : q[m] \in Travels(r) => m = k
    <3>1. ASSUME NEW m \in 1 .. n, q[m] \in Travels(r) PROVE m = k
      <4>1. q[m] = q[k] BY <1>7, <1>9, <2>2, <3>1
      <4> QED BY <1>8, <4>1 DEF Injection, IsInjective
    <3> QED BY <3>1
  <2>4. q[k] \in Travels(r) BY <1>1, <2>2
  <2>5. Holding(q, Travels(r)) = {k} BY <1>9, <2>3, <2>4 DEF Holding
  <2> QED BY <2>5, FS_Singleton DEF Number
<1>12. Number(q, Ticks) = 0
  <2>1. \A k \in DOMAIN q : q[k] \notin Ticks BY <1>7, <1>9
  <2> QED BY <1>9, <2>1, NumberType
<1>13. ASSUME NEW r \in Requests PROVE Number(q, Evictions(r)) = 0
  <2>1. \A k \in DOMAIN q : q[k] \notin Evictions(r) BY <1>7, <1>9
  <2> QED BY <1>9, <2>1, NumberType
<1> QED BY <1>10, <1>11, <1>12, <1>13

(* The initial states satisfy the invariant. *)
LEMMA InitGood == Init => GatewayInv
<1> SUFFICES ASSUME Init PROVE GatewayInv OBVIOUS
<1>1. /\ conf \in Configs /\ clock = 0 /\ queue = EmptyQueue /\ seqCounter = 0
      /\ tickPending = FALSE /\ tracker = {}
      /\ dispatchTime = [r \in Requests |-> 0]
      /\ stage = [r \in Requests |-> "none"]
      /\ on = [r \in Requests |-> NoInstance]
      /\ inFlight = [i \in Instances |-> 0]
      /\ tenantInFlight = [t \in Tenants |-> 0]
      /\ count = [b \in OwnCounters |-> 0]
      /\ shedByTier = [p \in Priorities |-> 0]
      /\ ledger = [r \in Requests |-> {}]
  BY DEF Init
<1>2. PICK times \in [Requests -> ArrivalTimes], loads \in [Instances -> LoadTimes] :
        /\ eventQ \in Heaps(ArrivalEvents(times) \cup LoadEvents(loads))
        /\ routable = {i \in Instances : loads[i] = 0}
  BY DEF Init
<1>3. /\ Heap(eventQ, 0)
      /\ \A r \in Requests : Number(eventQ, Travels(r)) = 1
      /\ Number(eventQ, Ticks) = 0
      /\ \A r \in Requests : Number(eventQ, Evictions(r)) = 0
  BY <1>2, FirstHeap
<1>4. /\ GoodQueue(queue, 0) /\ Queued(queue) = {}
      /\ queue.panic = FALSE /\ queue.totalLen = 0
      /\ queue.shedCount = 0 /\ queue.rejectedCount = 0
      /\ queue \in Queues
  BY <1>1, EmptyQueueGood DEF GoodQueue
<1>5. TypeOK
  <2>1. eventQ \in Seq(Events)
    <3>1. eventQ \in Seq(GoodEvents) /\ GoodEvents \subseteq Events
      BY <1>3 DEF Heap, GoodEvents
    <3> QED BY <3>1, SeqMonotonic
  <2> QED BY <1>1, <1>2, <1>4, <2>1 DEF TypeOK
<1>6. Heap(eventQ, clock) BY <1>1, <1>3
<1>7. OnePlace(eventQ, Queued(queue), stage, ledger)
  BY <1>1, <1>3, <1>4 DEF OnePlace, One
<1>8. OneBucket(ledger) BY <1>1 DEF OneBucket
<1>9. OneTick(eventQ, queue.totalLen, tickPending)
  BY <1>1, <1>3, <1>4 DEF OneTick, One
<1>10. Placed(stage, on) /\ Tracked(tracker, stage, on)
  BY <1>1 DEF Placed, Tracked
<1>11. Evicting(eventQ, tracker, stage) BY <1>3 DEF Evicting
<1>12. Cardinality({}) = 0 BY FS_EmptySet
<1>13. FlightsCounted(inFlight, stage, on)
  <2>1. \A i \in Instances : OnInstance(i, stage, on) = {}
    BY <1>1 DEF OnInstance
  <2> QED BY <1>1, <1>12, <2>1 DEF FlightsCounted
<1>14. TenantsCounted(conf.budgets, tenantInFlight, stage)
  <2>1. \A t \in Tenants : OfTenant(t, stage) = {} BY <1>1 DEF OfTenant
  <2> QED BY <1>1, <1>12, <2>1 DEF TenantsCounted
<1>15. BucketsCounted(count, ledger, queue.shedCount, queue.rejectedCount)
  <2>1. \A b : InBucket(b, ledger) = {} BY <1>1 DEF InBucket
  <2>2. \A b \in OwnCounters : count[b] = 0 BY <1>1
  <2> QED BY <1>4, <1>12, <2>1, <2>2 DEF BucketsCounted
<1>16. TiersCounted(shedByTier, ledger)
  <2>1. \A p : InTier(p, ledger) = {} BY <1>1 DEF InTier
  <2>2. \A p \in Priorities : shedByTier[p] = 0 BY <1>1
  <2> QED BY <1>12, <2>1, <2>2 DEF TiersCounted
<1>17. GoodQueue(queue, seqCounter) BY <1>1, <1>4
<1> QED BY <1>4, <1>5, <1>6, <1>7, <1>8, <1>9, <1>10, <1>11, <1>13, <1>14, <1>15,
           <1>16, <1>17 DEF GatewayInv

------------------------------
(* Every step keeps the invariant. *)

(* Handling an event that carries a request: it is nowhere else. *)
LEMMA PopTravel ==
  ASSUME GatewayInv, NEW kind \in {"arrival", "admission", "routing"}, Handle(kind)
  PROVE  LET r == Head(eventQ).req
             rest == Tail(eventQ)
         IN  /\ r \in Requests /\ clock' = Head(eventQ).at
             /\ clock' \in Nat /\ Heap(rest, clock')
             /\ Number(rest, Travels(r)) = 0 /\ r \notin Queued(queue)
             /\ stage[r] = "none" /\ ledger[r] = {}
             /\ \A s \in Requests \ {r} :
                  Number(rest, Travels(s)) = Number(eventQ, Travels(s))
             /\ Number(rest, Ticks) = Number(eventQ, Ticks)
             /\ \A s \in Requests :
                  Number(rest, Evictions(s)) = Number(eventQ, Evictions(s))
<1> DEFINE h == Head(eventQ)
           r == h.req
           rest == Tail(eventQ)
<1>1. /\ eventQ # <<>> /\ h.kind = kind /\ clock' = h.at /\ clock \in Nat
      /\ Heap(eventQ, clock) /\ eventQ \in Seq(GoodEvents)
  BY DEF Handle, GatewayInv, TypeOK, Heap
<1>2. /\ h \in GoodEvents /\ h.at \in Nat /\ Heap(rest, h.at) BY <1>1, HeapPop
<1>3. rest \in Seq(GoodEvents) BY <1>2 DEF Heap
<1>4. /\ \A s : Number(eventQ, Travels(s)) = Number(rest, Travels(s)) + One(h \in Travels(s))
      /\ \A s : Number(eventQ, Evictions(s))
                  = Number(rest, Evictions(s)) + One(h \in Evictions(s))
      /\ Number(eventQ, Ticks) = Number(rest, Ticks) + One(h \in Ticks)
  BY <1>1, TailNumber
<1>5. /\ \A s : Number(rest, Travels(s)) \in Nat
      /\ \A s : Number(rest, Evictions(s)) \in Nat
      /\ Number(rest, Ticks) \in Nat
  BY <1>3, NumberType
<1> HIDE DEF h, rest
<1>6. /\ r \in Requests /\ h \in Travels(r) /\ h \notin Ticks
      /\ \A s : h \notin Evictions(s)
      /\ \A s : s # r => h \notin Travels(s)
  BY <1>1, <1>2 DEF GoodEvents, Travels, Ticks, Evictions
<1> HIDE DEF r
<1>7. /\ Number(eventQ, Travels(r)) = Number(rest, Travels(r)) + 1
      /\ \A s \in Requests \ {r} : Number(rest, Travels(s)) = Number(eventQ, Travels(s))
      /\ Number(rest, Ticks) = Number(eventQ, Ticks)
      /\ \A s \in Requests : Number(rest, Evictions(s)) = Number(eventQ, Evictions(s))
  BY <1>4, <1>5, <1>6 DEF One
<1>8. Number(eventQ, Travels(r)) + One(r \in Queued(queue)) + One(stage[r] # "none")
        + One(ledger[r] # {}) = 1
  BY <1>6 DEF GatewayInv, OnePlace
<1>9. /\ Number(rest, Travels(r)) = 0 /\ r \notin Queued(queue)
      /\ stage[r] = "none" /\ ledger[r] = {}
  BY <1>5, <1>7, <1>8 DEF One
<1> QED BY <1>1, <1>2, <1>6, <1>7, <1>9 DEF r, h, rest

(* Handling any other event. *)
LEMMA PopOther ==
  ASSUME GatewayInv, NEW kind \in {"loaded", "eviction", "ttl", "tick"}, Handle(kind)
  PROVE  LET r == Head(eventQ).req
             rest == Tail(eventQ)
         IN  /\ kind \in {"eviction", "ttl"} => r \in Requests
             /\ kind = "loaded" => Head(eventQ).inst \in Instances
             /\ clock' = Head(eventQ).at
             /\ clock' \in Nat /\ Heap(rest, clock')
             /\ \A s \in Requests :
                  Number(rest, Travels(s)) = Number(eventQ, Travels(s))
             /\ kind = "tick" => Number(eventQ, Ticks) = Number(rest, Ticks) + 1
             /\ kind # "tick" => Number(rest, Ticks) = Number(eventQ, Ticks)
             /\ kind = "eviction" =>
                  Number(eventQ, Evictions(r)) = Number(rest, Evictions(r)) + 1
             /\ \A s \in Requests : kind # "eviction" \/ s # r =>
                  Number(rest, Evictions(s)) = Number(eventQ, Evictions(s))
             /\ Number(rest, Ticks) \in Nat
             /\ \A s \in Requests : Number(rest, Evictions(s)) \in Nat
<1> DEFINE h == Head(eventQ)
           r == h.req
           rest == Tail(eventQ)
<1>1. /\ eventQ # <<>> /\ h.kind = kind /\ clock' = h.at /\ clock \in Nat
      /\ Heap(eventQ, clock) /\ eventQ \in Seq(GoodEvents)
  BY DEF Handle, GatewayInv, TypeOK, Heap
<1>2. /\ h \in GoodEvents /\ h.at \in Nat /\ Heap(rest, h.at) BY <1>1, HeapPop
<1>3. rest \in Seq(GoodEvents) BY <1>2 DEF Heap
<1>4. /\ \A s : Number(eventQ, Travels(s)) = Number(rest, Travels(s)) + One(h \in Travels(s))
      /\ \A s : Number(eventQ, Evictions(s))
                  = Number(rest, Evictions(s)) + One(h \in Evictions(s))
      /\ Number(eventQ, Ticks) = Number(rest, Ticks) + One(h \in Ticks)
  BY <1>1, TailNumber
<1>5. /\ \A s : Number(rest, Travels(s)) \in Nat
      /\ \A s : Number(rest, Evictions(s)) \in Nat
      /\ Number(rest, Ticks) \in Nat
  BY <1>3, NumberType
<1> HIDE DEF h, rest
<1>6. /\ kind \in {"eviction", "ttl"} => r \in Requests
      /\ kind = "loaded" => h.inst \in Instances
      /\ \A s : h \notin Travels(s)
      /\ h \in Ticks <=> kind = "tick"
      /\ \A s : h \in Evictions(s) <=> kind = "eviction" /\ s = r
  BY <1>1, <1>2 DEF GoodEvents, Travels, Ticks, Evictions
<1> HIDE DEF r
<1>7. \A s \in Requests : Number(rest, Travels(s)) = Number(eventQ, Travels(s))
  BY <1>4, <1>5, <1>6 DEF One
<1>8. /\ kind = "tick" => Number(eventQ, Ticks) = Number(rest, Ticks) + 1
      /\ kind # "tick" => Number(rest, Ticks) = Number(eventQ, Ticks)
  BY <1>4, <1>5, <1>6 DEF One
<1>9. /\ kind = "eviction" =>
           Number(eventQ, Evictions(r)) = Number(rest, Evictions(r)) + 1
      /\ \A s \in Requests : kind # "eviction" \/ s # r =>
           Number(rest, Evictions(s)) = Number(eventQ, Evictions(s))
  BY <1>4, <1>5, <1>6 DEF One
<1> QED BY <1>1, <1>2, <1>5, <1>6, <1>7, <1>8, <1>9 DEF r, h, rest

(* What is to be shown of a step, part by part. *)
LEMMA InvAfter ==
  ASSUME GatewayInv, conf' = conf,
         clock' \in Nat, seqCounter' \in Nat, tickPending' \in BOOLEAN,
         dispatchTime' \in [Requests -> Nat], routable' \subseteq Instances,
         stage' \in [Requests -> {"none", "injected", "waiting", "running"}],
         on' \in [Requests -> Instances \cup {NoInstance}],
         inFlight' \in [Instances -> Nat], tenantInFlight' \in [Tenants -> Nat],
         tracker' \subseteq [req : Requests, at : Nat, inst : Instances],
         count' \in [OwnCounters -> Nat], shedByTier' \in [Priorities -> Nat],
         ledger' \in [Requests -> SUBSET Buckets],
         Heap(eventQ', clock'),
         GoodQueue(queue', seqCounter'), queue'.panic = FALSE,
         OnePlace(eventQ', Queued(queue'), stage', ledger'),
         OneBucket(ledger'),
         OneTick(eventQ', queue'.totalLen, tickPending'),
         Placed(stage', on'),
         Tracked(tracker', stage', on'),
         Evicting(eventQ', tracker', stage'),
         FlightsCounted(inFlight', stage', on'),
         TenantsCounted(conf.budgets, tenantInFlight', stage'),
         BucketsCounted(count', ledger', queue'.shedCount, queue'.rejectedCount),
         TiersCounted(shedByTier', ledger')
  PROVE  GatewayInv'
<1>1. eventQ' \in Seq(Events)
  <2>1. eventQ' \in Seq(GoodEvents) /\ GoodEvents \subseteq Events
    BY DEF Heap, GoodEvents
  <2> QED BY <2>1, SeqMonotonic
<1>2. queue' \in Queues BY DEF GoodQueue
<1>3. conf' \in Configs BY DEF GatewayInv, TypeOK
<1>4. TypeOK' BY <1>1, <1>2, <1>3 DEF TypeOK
<1> QED BY <1>4 DEF GatewayInv

(* The parts of the invariant that are only read, and their types. *)
LEMMA InvParts ==
  ASSUME GatewayInv
  PROVE  /\ TypeOK
         /\ clock \in Nat /\ seqCounter \in Nat /\ tickPending \in BOOLEAN
         /\ dispatchTime \in [Requests -> Nat] /\ routable \subseteq Instances
         /\ stage \in [Requests -> {"none", "injected", "waiting", "running"}]
         /\ on \in [Requests -> Instances \cup {NoInstance}]
         /\ inFlight \in [Instances -> Nat] /\ tenantInFlight \in [Tenants -> Nat]
         /\ tracker \subseteq [req : Requests, at : Nat, inst : Instances]
         /\ count \in [OwnCounters -> Nat] /\ shedByTier \in [Priorities -> Nat]
         /\ ledger \in [Requests -> SUBSET Buckets]
         /\ conf \in ConfigType
         /\ Heap(eventQ, clock)
         /\ GoodQueue(queue, seqCounter) /\ queue.panic = FALSE
         /\ OnePlace(eventQ, Queued(queue), stage, ledger)
         /\ OneBucket(ledger)
         /\ OneTick(eventQ, queue.totalLen, tickPending)
         /\ Placed(stage, on)
         /\ Tracked(tracker, stage, on)
         /\ Evicting(eventQ, tracker, stage)
         /\ FlightsCounted(inFlight, stage, on)
         /\ TenantsCounted(conf.budgets, tenantInFlight, stage)
         /\ BucketsCounted(count, ledger, queue.shedCount, queue.rejectedCount)
         /\ TiersCounted(shedByTier, ledger)
BY GatewayAssumption DEF GatewayInv, TypeOK

(* InstanceLoadedEvent. *)
LEMMA InstanceLoadedGood ==
  ASSUME GatewayInv, InstanceLoaded
  PROVE  GatewayInv'
<1>1. Handle("loaded") BY DEF InstanceLoaded
<1>2. /\ eventQ' = Tail(eventQ) /\ routable' = routable \cup {Head(eventQ).inst}
      /\ conf' = conf /\ queue' = queue /\ seqCounter' = seqCounter
      /\ tickPending' = tickPending /\ dispatchTime' = dispatchTime
      /\ stage' = stage /\ on' = on /\ inFlight' = inFlight
      /\ tenantInFlight' = tenantInFlight /\ tracker' = tracker
      /\ count' = count /\ shedByTier' = shedByTier /\ ledger' = ledger
  BY DEF InstanceLoaded, NoTally, tallyVars, gwVars, instVars
<1>3. /\ Head(eventQ).inst \in Instances /\ clock' \in Nat /\ Heap(eventQ', clock')
      /\ \A s \in Requests : Number(eventQ', Travels(s)) = Number(eventQ, Travels(s))
      /\ Number(eventQ', Ticks) = Number(eventQ, Ticks)
      /\ \A s \in Requests : Number(eventQ', Evictions(s)) = Number(eventQ, Evictions(s))
  BY <1>1, <1>2, PopOther
<1>4. OnePlace(eventQ', Queued(queue'), stage', ledger')
  BY ZenonT(60), <1>2, <1>3, InvParts DEF OnePlace
<1>5. OneTick(eventQ', queue'.totalLen, tickPending')
  BY <1>2, <1>3, InvParts DEF OneTick
<1>6. Evicting(eventQ', tracker', stage') BY <1>2, <1>3, InvParts DEF Evicting
<1>7. routable' \subseteq Instances BY <1>2, <1>3, InvParts
<1> QED BY <1>2, <1>3, <1>4, <1>5, <1>6, <1>7, InvParts, InvAfter

(* ClusterArrivalEvent. *)
LEMMA ClusterArrivalGood ==
  ASSUME GatewayInv, ClusterArrival
  PROVE  GatewayInv'
<1> DEFINE r == Head(eventQ).req
           rest == Tail(eventQ)
<1>1. Handle("arrival") BY DEF ClusterArrival
<1>2. /\ eventQ' = Push(rest, Event(clock' + conf.admissionLatency, "admission",
                                    r, NoInstance))
      /\ routable' = routable
      /\ conf' = conf /\ queue' = queue /\ seqCounter' = seqCounter
      /\ tickPending' = tickPending /\ dispatchTime' = dispatchTime
      /\ stage' = stage /\ on' = on /\ inFlight' = inFlight
      /\ tenantInFlight' = tenantInFlight /\ tracker' = tracker
      /\ count' = count /\ shedByTier' = shedByTier /\ ledger' = ledger
  BY DEF ClusterArrival, NoTally, tallyVars, gwVars, instVars
<1>3. /\ r \in Requests /\ clock' \in Nat /\ Heap(rest, clock')
      /\ Number(rest, Travels(r)) = 0 /\ r \notin Queued(queue)
      /\ stage[r] = "none" /\ ledger[r] = {}
      /\ \A s \in Requests \ {r} : Number(rest, Travels(s)) = Number(eventQ, Travels(s))
      /\ Number(rest, Ticks) = Number(eventQ, Ticks)
      /\ \A s \in Requests : Number(rest, Evictions(s)) = Number(eventQ, Evictions(s))
  BY <1>1, PopTravel
<1> HIDE DEF r, rest
<1>4. clock' + conf.admissionLatency \in Nat /\ clock' + conf.admissionLatency >= clock'
  BY <1>3, InvParts DEF ConfigType
<1>5. /\ Heap(eventQ', clock')
      /\ Number(eventQ', Travels(r)) = Number(rest, Travels(r)) + 1
      /\ \A s \in Requests \ {r} : Number(eventQ', Travels(s)) = Number(rest, Travels(s))
      /\ Number(eventQ', Ticks) = Number(rest, Ticks)
      /\ \A s \in Requests : Number(eventQ', Evictions(s)) = Number(rest, Evictions(s))
  BY <1>2, <1>3, <1>4, PushTravel
<1>6. OnePlace(eventQ', Queued(queue'), stage', ledger')
  BY <1>2, <1>3, <1>5, InvParts DEF OnePlace, One
<1>7. OneTick(eventQ', queue'.totalLen, tickPending')
  BY <1>2, <1>3, <1>5, InvParts DEF OneTick
<1>8. Evicting(eventQ', tracker', stage')
  BY <1>2, <1>3, <1>5, InvParts DEF Evicting
<1> QED BY <1>2, <1>3, <1>5, <1>6, <1>7, <1>8, InvParts, InvAfter

(* AdmissionDecisionEvent: the tenant is over its budget. *)
LEMMA AdmissionRejectsGood ==
  ASSUME GatewayInv, AdmissionRejects
  PROVE  GatewayInv'
<1> DEFINE r == Head(eventQ).req
<1>1. Handle("admission") BY DEF AdmissionRejects
<1>2. /\ eventQ' = Tail(eventQ) /\ Tally({r}, "rejected") /\ TallyTier({r})
      /\ routable' = routable
      /\ conf' = conf /\ queue' = queue /\ seqCounter' = seqCounter
      /\ tickPending' = tickPending /\ dispatchTime' = dispatchTime
      /\ stage' = stage /\ on' = on /\ inFlight' = inFlight
      /\ tenantInFlight' = tenantInFlight /\ tracker' = tracker
  BY DEF AdmissionRejects, gwVars, instVars
<1>3. /\ r \in Requests /\ clock' \in Nat /\ Heap(eventQ', clock')
      /\ Number(eventQ', Travels(r)) = 0 /\ r \notin Queued(queue)
      /\ stage[r] = "none" /\ ledger[r] = {}
      /\ \A s \in Requests \ {r} : Number(eventQ', Travels(s)) = Number(eventQ, Travels(s))
      /\ Number(eventQ', Ticks) = Number(eventQ, Ticks)
      /\ \A s \in Requests : Number(eventQ', Evictions(s)) = Number(eventQ, Evictions(s))
  BY <1>1, <1>2, PopTravel
<1> HIDE DEF r
<1>4. /\ count' \in [OwnCounters -> Nat] /\ shedByTier' \in [Priorities -> Nat]
      /\ ledger' \in [Requests -> SUBSET Buckets]
      /\ OneBucket(ledger')
      /\ ledger'[r] # {} /\ \A s \in Requests \ {r} : ledger'[s] = ledger[s]
      /\ BucketsCounted(count', ledger', queue.shedCount, queue.rejectedCount)
      /\ TiersCounted(shedByTier', ledger')
  <2>1. "rejected" \in Buckets \ {"shed", "queueRejected"} /\ "rejected" \in TierBuckets
    BY DEF Buckets, TierBuckets
  <2> DEFINE S == {r}
  <2>2. /\ S \in SUBSET Requests /\ r \in S /\ Requests \ S = Requests \ {r}
        /\ \A s \in S : ledger[s] = {}
    BY <1>3
  <2>3. Tally(S, "rejected") /\ TallyTier(S) BY <1>2
  <2> HIDE DEF S
  <2>4. /\ count' \in [OwnCounters -> Nat] /\ shedByTier' \in [Priorities -> Nat]
        /\ ledger' \in [Requests -> SUBSET Buckets]
        /\ OneBucket(ledger')
        /\ \A s \in S : ledger'[s] # {}
        /\ \A s \in Requests \ S : ledger'[s] = ledger[s]
        /\ BucketsCounted(count', ledger', queue.shedCount, queue.rejectedCount)
        /\ TiersCounted(shedByTier', ledger')
    BY <1>2, <2>1, <2>2, <2>3, TallyPlain
  <2> QED BY <2>2, <2>4
<1>5. OnePlace(eventQ', Queued(queue'), stage', ledger')
  <2>1. \A s \in Requests \ {r} :
          Number(eventQ', Travels(s)) + One(s \in Queued(queue')) + One(stage'[s] # "none")
            + One(ledger'[s] # {}) = 1
    <3>1. OnePlace(eventQ, Queued(queue), stage, ledger) BY InvParts
    <3>2. /\ queue' = queue /\ stage' = stage
          /\ \A s \in Requests \ {r} :
               /\ Number(eventQ', Travels(s)) = Number(eventQ, Travels(s))
               /\ ledger'[s] = ledger[s]
      BY <1>2, <1>3, <1>4
    <3> QED BY <3>1, <3>2 DEF OnePlace
  <2>2. /\ One(r \in Queued(queue')) = 0 /\ One(stage'[r] # "none") = 0
        /\ One(ledger'[r] # {}) = 1
    BY <1>2, <1>3, <1>4 DEF One
  <2> QED BY <1>3, <2>1, <2>2 DEF OnePlace
<1>6. OneTick(eventQ', queue'.totalLen, tickPending')
  BY <1>2, <1>3, InvParts DEF OneTick
<1>7. Evicting(eventQ', tracker', stage') BY <1>2, <1>3, InvParts DEF Evicting
<1> QED BY <1>2, <1>3, <1>4, <1>5, <1>6, <1>7, InvParts, InvAfter

(* AdmissionDecisionEvent without flow control: on to routing. *)
LEMMA AdmissionPassesGood ==
  ASSUME GatewayInv, AdmissionPasses
  PROVE  GatewayInv'
<1> DEFINE r == Head(eventQ).req
           rest == Tail(eventQ)
<1>1. Handle("admission") BY DEF AdmissionPasses
<1>2. /\ eventQ' = Push(rest, Event(clock' + conf.routingLatency, "routing",
                                    r, NoInstance))
      /\ routable' = routable
      /\ conf' = conf /\ queue' = queue /\ seqCounter' = seqCounter
      /\ tickPending' = tickPending /\ dispatchTime' = dispatchTime
      /\ stage' = stage /\ on' = on /\ inFlight' = inFlight
      /\ tenantInFlight' = tenantInFlight /\ tracker' = tracker
      /\ count' = count /\ shedByTier' = shedByTier /\ ledger' = ledger
  BY DEF AdmissionPasses, NoTally, tallyVars, gwVars, instVars
<1>3. /\ r \in Requests /\ clock' \in Nat /\ Heap(rest, clock')
      /\ Number(rest, Travels(r)) = 0 /\ r \notin Queued(queue)
      /\ stage[r] = "none" /\ ledger[r] = {}
      /\ \A s \in Requests \ {r} : Number(rest, Travels(s)) = Number(eventQ, Travels(s))
      /\ Number(rest, Ticks) = Number(eventQ, Ticks)
      /\ \A s \in Requests : Number(rest, Evictions(s)) = Number(eventQ, Evictions(s))
  BY <1>1, PopTravel
<1> HIDE DEF r, rest
<1>4. clock' + conf.routingLatency \in Nat /\ clock' + conf.routingLatency >= clock'
  BY <1>3, InvParts DEF ConfigType
<1>5. /\ Heap(eventQ', clock')
      /\ Number(eventQ', Travels(r)) = Number(rest, Travels(r)) + 1
      /\ \A s \in Requests \ {r} : Number(eventQ', Travels(s)) = Number(rest, Travels(s))
      /\ Number(eventQ', Ticks) = Number(rest, Ticks)
      /\ \A s \in Requests : Number(eventQ', Evictions(s)) = Number(rest, Evictions(s))
  BY <1>2, <1>3, <1>4, PushTravel
<1>6. OnePlace(eventQ', Queued(queue'), stage', ledger')
  BY <1>2, <1>3, <1>5, InvParts DEF OnePlace, One
<1>7. OneTick(eventQ', queue'.totalLen, tickPending')
  BY <1>2, <1>3, <1>5, InvParts DEF OneTick
<1>8. Evicting(eventQ', tracker', stage')
  BY <1>2, <1>3, <1>5, InvParts DEF Evicting
<1> QED BY <1>2, <1>3, <1>5, <1>6, <1>7, <1>8, InvParts, InvAfter

(* RoutingDecisionEvent with no instance to route to. *)
LEMMA RoutingRejectsGood ==
  ASSUME GatewayInv, RoutingRejects
  PROVE  GatewayInv'
<1> DEFINE r == Head(eventQ).req
<1>1. Handle("routing") BY DEF RoutingRejects
<1>2. /\ eventQ' = Tail(eventQ) /\ Tally({r}, "routingRejected")
      /\ shedByTier' = shedByTier /\ routable' = routable
      /\ conf' = conf /\ queue' = queue /\ seqCounter' = seqCounter
      /\ tickPending' = tickPending /\ dispatchTime' = dispatchTime
      /\ stage' = stage /\ on' = on /\ inFlight' = inFlight
      /\ tenantInFlight' = tenantInFlight /\ tracker' = tracker
  BY DEF RoutingRejects, gwVars, instVars
<1>3. /\ r \in Requests /\ clock' \in Nat /\ Heap(eventQ', clock')
      /\ Number(eventQ', Travels(r)) = 0 /\ r \notin Queued(queue)
      /\ stage[r] = "none" /\ ledger[r] = {}
      /\ \A s \in Requests \ {r} : Number(eventQ', Travels(s)) = Number(eventQ, Travels(s))
      /\ Number(eventQ', Ticks) = Number(eventQ, Ticks)
      /\ \A s \in Requests : Number(eventQ', Evictions(s)) = Number(eventQ, Evictions(s))
  BY <1>1, <1>2, PopTravel
<1> HIDE DEF r
<1>4. /\ count' \in [OwnCounters -> Nat] /\ shedByTier' \in [Priorities -> Nat]
      /\ ledger' \in [Requests -> SUBSET Buckets]
      /\ OneBucket(ledger')
      /\ ledger'[r] # {} /\ \A s \in Requests \ {r} : ledger'[s] = ledger[s]
      /\ BucketsCounted(count', ledger', queue.shedCount, queue.rejectedCount)
      /\ TiersCounted(shedByTier', ledger')
  <2>1. "routingRejected" \in Buckets \ {"shed", "queueRejected"} /\ "routingRejected" \notin TierBuckets
    BY DEF Buckets, TierBuckets
  <2> DEFINE S == {r}
  <2>2. /\ S \in SUBSET Requests /\ r \in S /\ Requests \ S = Requests \ {r}
        /\ \A s \in S : ledger[s] = {}
    BY <1>3
  <2>3. Tally(S, "routingRejected") BY <1>2
  <2> HIDE DEF S
  <2>4. /\ count' \in [OwnCounters -> Nat] /\ shedByTier' \in [Priorities -> Nat]
        /\ ledger' \in [Requests -> SUBSET Buckets]
        /\ OneBucket(ledger')
        /\ \A s \in S : ledger'[s] # {}
        /\ \A s \in Requests \ S : ledger'[s] = ledger[s]
        /\ BucketsCounted(count', ledger', queue.shedCount, queue.rejectedCount)
        /\ TiersCounted(shedByTier', ledger')
    BY <1>2, <2>1, <2>2, <2>3, TallyPlain
  <2> QED BY <2>2, <2>4
<1>5. OnePlace(eventQ', Queued(queue'), stage', ledger')
  <2>1. \A s \in Requests \ {r} :
          Number(eventQ', Travels(s)) + One(s \in Queued(queue')) + One(stage'[s] # "none")
            + One(ledger'[s] # {}) = 1
    <3>1. OnePlace(eventQ, Queued(queue), stage, ledger) BY InvParts
    <3>2. /\ queue' = queue /\ stage' = stage
          /\ \A s \in Requests \ {r} :
               /\ Number(eventQ', Travels(s)) = Number(eventQ, Travels(s))
               /\ ledger'[s] = ledger[s]
      BY <1>2, <1>3, <1>4
    <3> QED BY <3>1, <3>2 DEF OnePlace
  <2>2. /\ One(r \in Queued(queue')) = 0 /\ One(stage'[r] # "none") = 0
        /\ One(ledger'[r] # {}) = 1
    BY <1>2, <1>3, <1>4 DEF One
  <2> QED BY <1>3, <2>1, <2>2 DEF OnePlace
<1>6. OneTick(eventQ', queue'.totalLen, tickPending')
  BY <1>2, <1>3, InvParts DEF OneTick
<1>7. Evicting(eventQ', tracker', stage') BY <1>2, <1>3, InvParts DEF Evicting
<1> QED BY <1>2, <1>3, <1>4, <1>5, <1>6, <1>7, InvParts, InvAfter

(* What an enqueue does to the gateway queue. *)
LEMMA EnqueuedGood ==
  ASSUME GatewayInv, NEW r \in Requests, r \notin Queued(queue), NEW now \in Nat
  PROVE  LET e == Enqueue(queue, conf, r, seqCounter + 1, now)
         IN  /\ GoodQueue(e.queue, seqCounter + 1) /\ e.queue.panic = FALSE
             /\ e.outcome = "Rejected" =>
                  /\ Queued(e.queue) = Queued(queue)
                  /\ e.queue.totalLen = queue.totalLen
                  /\ e.queue.shedCount = queue.shedCount
                  /\ e.queue.rejectedCount = queue.rejectedCount + 1
             /\ e.outcome # "Rejected" =>
                  /\ e.victims \subseteq Queued(queue) /\ e.victims \subseteq Requests
                  /\ Queued(e.queue) = (Queued(queue) \ e.victims) \cup {r}
                  /\ e.queue.shedCount = queue.shedCount + Cardinality(e.victims)
                  /\ e.queue.rejectedCount = queue.rejectedCount
<1> DEFINE n == seqCounter + 1
           e == Enqueue(queue, conf, r, n, now)
<1>1. seqCounter \in Nat /\ GoodQueue(queue, seqCounter) BY InvParts
<1>2. queue.panic = FALSE BY InvParts
<1>3. n \in Nat /\ seqCounter < n BY <1>1
<1> HIDE DEF n
<1>4. /\ KeptGood(e, queue, n)
      /\ e.outcome = "Rejected" => TurnedAway(e, queue)
      /\ e.outcome # "Rejected" => TakenIn(e, queue, r)
  BY <1>1, <1>3, EnqueueGood
<1> HIDE DEF e
<1>5. GoodQueue(e.queue, n) /\ e.queue.panic = FALSE BY <1>2, <1>4 DEF KeptGood
<1>6. e.outcome = "Rejected" =>
        /\ Queued(e.queue) = Queued(queue)
        /\ e.queue.totalLen = queue.totalLen
        /\ e.queue.shedCount = queue.shedCount
        /\ e.queue.rejectedCount = queue.rejectedCount + 1
  BY <1>4 DEF TurnedAway
<1>7. e.outcome # "Rejected" =>
        /\ e.victims \subseteq Queued(queue)
        /\ Queued(e.queue) = (Queued(queue) \ e.victims) \cup {r}
        /\ e.queue.shedCount = queue.shedCount + Cardinality(e.victims)
        /\ e.queue.rejectedCount = queue.rejectedCount
  BY <1>4 DEF TakenIn
<1>8. Queued(queue) \subseteq Requests
  <2>1. queue \in Queues BY <1>1 DEF GoodQueue
  <2> QED BY <2>1, EntryAt DEF Queued
<1> QED BY <1>5, <1>6, <1>7, <1>8 DEF e, n

(* AdmissionDecisionEvent: the queue takes no more. *)
LEMMA QueueRejectsGood ==
  ASSUME GatewayInv, QueueRejects
  PROVE  GatewayInv'
<1> DEFINE r == Head(eventQ).req
           e == Enqueued(r)
<1>1. Handle("admission") BY DEF QueueRejects
<1>2. /\ e.outcome = "Rejected"
      /\ eventQ' = Tail(eventQ) /\ Tally({r}, "queueRejected")
      /\ queue' = e.queue /\ seqCounter' = seqCounter + 1
      /\ shedByTier' = shedByTier /\ routable' = routable /\ conf' = conf
      /\ tickPending' = tickPending /\ dispatchTime' = dispatchTime
      /\ stage' = stage /\ on' = on /\ inFlight' = inFlight
      /\ tenantInFlight' = tenantInFlight /\ tracker' = tracker
  BY DEF QueueRejects, instVars
<1>3. /\ r \in Requests /\ clock' \in Nat /\ Heap(eventQ', clock')
      /\ Number(eventQ', Travels(r)) = 0 /\ r \notin Queued(queue)
      /\ stage[r] = "none" /\ ledger[r] = {}
      /\ \A s \in Requests \ {r} : Number(eventQ', Travels(s)) = Number(eventQ, Travels(s))
      /\ Number(eventQ', Ticks) = Number(eventQ, Ticks)
      /\ \A s \in Requests : Number(eventQ', Evictions(s)) = Number(eventQ, Evictions(s))
  BY <1>1, <1>2, PopTravel
<1>4. Head(eventQ).at \in Nat BY <1>1, PopTravel
<1> HIDE DEF r
<1>5. /\ GoodQueue(queue', seqCounter') /\ queue'.panic = FALSE
      /\ Queued(queue') = Queued(queue) /\ queue'.totalLen = queue.totalLen
      /\ queue'.shedCount = queue.shedCount
      /\ queue'.rejectedCount = queue.rejectedCount + 1
  <2> DEFINE now == Head(eventQ).at
  <2>1. e = Enqueue(queue, conf, r, seqCounter + 1, now) /\ now \in Nat
    BY <1>4 DEF Enqueued
  <2> HIDE DEF e, now
  <2>2. /\ GoodQueue(e.queue, seqCounter + 1) /\ e.queue.panic = FALSE
        /\ e.outcome = "Rejected" =>
             /\ Queued(e.queue) = Queued(queue)
             /\ e.queue.totalLen = queue.totalLen
             /\ e.queue.shedCount = queue.shedCount
             /\ e.queue.rejectedCount = queue.rejectedCount + 1
    BY <1>3, <2>1, EnqueuedGood, ZenonT(40)
  <2> QED BY <1>2, <2>2
<1>6. /\ count' \in [OwnCounters -> Nat] /\ shedByTier' \in [Priorities -> Nat]
      /\ ledger' \in [Requests -> SUBSET Buckets]
      /\ OneBucket(ledger')
      /\ ledger'[r] # {} /\ \A s \in Requests \ {r} : ledger'[s] = ledger[s]
      /\ BucketsCounted(count', ledger', queue'.shedCount, queue'.rejectedCount)
      /\ TiersCounted(shedByTier', ledger')
  <2>1. "queueRejected" \in Buckets /\ "queueRejected" \notin TierBuckets
        /\ "queueRejected" # "shed"
    BY DEF Buckets, TierBuckets
  <2> DEFINE S == {r}
             shed == queue'.shedCount
             refused == queue'.rejectedCount
  <2>2. /\ S \in SUBSET Requests /\ r \in S /\ Requests \ S = Requests \ {r}
        /\ \A s \in S : ledger[s] = {}
    BY <1>3
  <2>3. Cardinality(S) = 1 BY FS_Singleton
  <2> DEFINE b == "queueRejected"
  <2>4. /\ b \in Buckets /\ Tally(S, b)
        /\ b \in TierBuckets => TallyTier(S)
        /\ b \notin TierBuckets => shedByTier' = shedByTier
        /\ b = "shed" => shed = queue.shedCount + Cardinality(S)
        /\ b # "shed" => shed = queue.shedCount
        /\ b = "queueRejected" => refused = queue.rejectedCount + Cardinality(S)
        /\ b # "queueRejected" => refused = queue.rejectedCount
    BY <1>2, <1>5, <2>1, <2>3
  <2> HIDE DEF S, shed, refused, b
  <2>5. /\ TypeOK /\ OneBucket(ledger) /\ TiersCounted(shedByTier, ledger)
        /\ BucketsCounted(count, ledger, queue.shedCount, queue.rejectedCount)
    BY InvParts
  <2>6. /\ count' \in [OwnCounters -> Nat] /\ shedByTier' \in [Priorities -> Nat]
        /\ ledger' \in [Requests -> SUBSET Buckets]
        /\ OneBucket(ledger')
        /\ \A s \in S : ledger'[s] # {}
        /\ \A s \in Requests \ S : ledger'[s] = ledger[s]
        /\ BucketsCounted(count', ledger', shed, refused)
        /\ TiersCounted(shedByTier', ledger')
    BY <2>2, <2>4, <2>5, TallyGood
  <2> QED BY <2>2, <2>6 DEF shed, refused
<1> HIDE DEF e
<1>7. OnePlace(eventQ', Queued(queue'), stage', ledger')
  <2>1. \A s \in Requests \ {r} :
          Number(eventQ', Travels(s)) + One(s \in Queued(queue')) + One(stage'[s] # "none")
            + One(ledger'[s] # {}) = 1
    <3>1. /\ Queued(queue') = Queued(queue) /\ stage' = stage
          /\ \A s \in Requests \ {r} : ledger'[s] = ledger[s]
      BY <1>2, <1>5, <1>6
    <3>2. OnePlace(eventQ, Queued(queue), stage, ledger) BY InvParts
    <3> QED BY <1>3, <3>1, <3>2 DEF OnePlace
  <2>2. /\ One(r \in Queued(queue')) = 0 /\ One(stage'[r] # "none") = 0
        /\ One(ledger'[r] # {}) = 1
    BY <1>2, <1>3, <1>5, <1>6 DEF One
  <2> QED BY <1>3, <2>1, <2>2 DEF OnePlace
<1>8. OneTick(eventQ', queue'.totalLen, tickPending')
  BY <1>2, <1>3, <1>5, InvParts DEF OneTick
<1>9. Evicting(eventQ', tracker', stage') BY <1>2, <1>3, InvParts DEF Evicting
<1>10. seqCounter' \in Nat BY <1>2, InvParts
<1> QED BY <1>2, <1>3, <1>5, <1>6, <1>7, <1>8, <1>9, <1>10, InvParts, InvAfter

(* What one attempt to dispatch does to the tracker and its evictions. *)
LEMMA TrackerShrinks ==
  ASSUME NEW trk, trk \subseteq [req : Requests, at : Nat, inst : Instances],
         NEW staged, NEW where, Tracked(trk, staged, where),
         NEW ev, ev \in Seq(GoodEvents), Evicting(ev, trk, staged),
         NEW ev2, NEW trk2,
         \/ /\ trk2 = trk
            /\ \A r \in Requests : Number(ev2, Evictions(r)) = Number(ev, Evictions(r))
         \/ \E x \in trk :
              /\ trk2 = trk \ {x}
              /\ Number(ev2, Evictions(x.req)) = Number(ev, Evictions(x.req)) + 1
              /\ \A r \in Requests \ {x.req} :
                   Number(ev2, Evictions(r)) = Number(ev, Evictions(r))
  PROVE  Tracked(trk2, staged, where) /\ Evicting(ev2, trk2, staged)
<1>1. \A r : Number(ev, Evictions(r)) \in Nat BY NumberType
<1>2. CASE /\ trk2 = trk
           /\ \A r \in Requests : Number(ev2, Evictions(r)) = Number(ev, Evictions(r))
  BY <1>2 DEF Evicting
<1>3. CASE \E x \in trk :
             /\ trk2 = trk \ {x}
             /\ Number(ev2, Evictions(x.req)) = Number(ev, Evictions(x.req)) + 1
             /\ \A r \in Requests \ {x.req} :
                  Number(ev2, Evictions(r)) = Number(ev, Evictions(r))
  <2>1. PICK x \in trk :
             /\ trk2 = trk \ {x}
             /\ Number(ev2, Evictions(x.req)) = Number(ev, Evictions(x.req)) + 1
             /\ \A r \in Requests \ {x.req} :
                  Number(ev2, Evictions(r)) = Number(ev, Evictions(r))
    BY <1>3
  <2>2. /\ x.req \in Requests
        /\ IsSheddable(x.req) /\ staged[x.req] # "none"
        /\ \A y \in trk : x.req = y.req => x = y
    BY DEF Tracked
  <2>3. Number(ev, Evictions(x.req)) = 0 BY <1>1, <2>2 DEF Evicting
  <2>4. Tracked(trk2, staged, where) BY <2>1 DEF Tracked
  <2>5. ASSUME NEW r \in Requests
        PROVE  /\ Number(ev2, Evictions(r)) <= 1
               /\ Number(ev2, Evictions(r)) > 0 =>
                    /\ staged[r] # "none" /\ IsSheddable(r)
                    /\ \A y \in trk2 : y.req # r
    <3>1. CASE r = x.req BY <2>1, <2>2, <2>3, <3>1
    <3>2. CASE r # x.req BY <2>1, <3>2 DEF Evicting
    <3> QED BY <3>1, <3>2
  <2> QED BY <2>4, <2>5 DEF Evicting
<1> QED BY <1>2, <1>3

(* AdmissionDecisionEvent: the request waits, perhaps in the place of a    *)
(* sheddable one, and the queue is tried at once.                          *)
LEMMA QueueAcceptsGood ==
  ASSUME GatewayInv, QueueAccepts
  PROVE  GatewayInv'
<1> DEFINE r == Head(eventQ).req
           e == Enqueued(r)
           V == e.victims
           q == e.queue
           ev == WithTTL(Tail(eventQ), r)
<1>1. Handle("admission") BY DEF QueueAccepts
<1>2. /\ e.outcome # "Rejected"
      /\ seqCounter' = seqCounter + 1
      /\ Tally(V, "shed") /\ TallyTier(V)
      /\ routable' = routable /\ conf' = conf
      /\ stage' = stage /\ on' = on /\ inFlight' = inFlight
      /\ tenantInFlight' = tenantInFlight
  BY DEF QueueAccepts
<1>3. PICK d \in TryDispatch(q, ev, tracker, clock') :
        /\ Apply(d, clock')
        /\ eventQ' = d.events
        /\ tickPending' = d.tick
  BY DEF QueueAccepts
<1>4. /\ r \in Requests /\ clock' \in Nat /\ Heap(Tail(eventQ), clock')
      /\ clock' = Head(eventQ).at
      /\ Number(Tail(eventQ), Travels(r)) = 0 /\ r \notin Queued(queue)
      /\ stage[r] = "none" /\ ledger[r] = {}
      /\ \A s \in Requests \ {r} :
           Number(Tail(eventQ), Travels(s)) = Number(eventQ, Travels(s))
      /\ Number(Tail(eventQ), Ticks) = Number(eventQ, Ticks)
      /\ \A s \in Requests :
           Number(Tail(eventQ), Evictions(s)) = Number(eventQ, Evictions(s))
  BY <1>1, PopTravel
<1>5. /\ Heap(ev, clock')
      /\ Number(ev, Travels(r)) = 0
      /\ \A s \in Requests \ {r} : Number(ev, Travels(s)) = Number(eventQ, Travels(s))
      /\ Number(ev, Ticks) = Number(eventQ, Ticks)
      /\ \A s \in Requests : Number(ev, Evictions(s)) = Number(eventQ, Evictions(s))
  <2>1. CASE conf.ttl = 0
    <3>1. ev = Tail(eventQ) BY <2>1 DEF WithTTL
    <3> HIDE DEF ev, r
    <3> QED BY <1>4, <3>1
  <2>2. CASE conf.ttl # 0
    <3>1. ev = Push(Tail(eventQ), Event(clock' + conf.ttl, "ttl", r, NoInstance))
      BY <1>4, <2>2 DEF WithTTL
    <3>2. clock' + conf.ttl \in Nat /\ clock' + conf.ttl >= clock'
      BY <1>4, InvParts DEF ConfigType
    <3> HIDE DEF ev, r
    <3>3. /\ Heap(ev, clock')
          /\ \A s \in Requests : Number(ev, Travels(s)) = Number(Tail(eventQ), Travels(s))
          /\ Number(ev, Ticks) = Number(Tail(eventQ), Ticks)
          /\ \A s \in Requests :
               Number(ev, Evictions(s)) = Number(Tail(eventQ), Evictions(s))
      BY <1>4, <3>1, <3>2, PushTTL
    <3> QED BY <1>4, <3>3
  <2> QED BY <2>1, <2>2
<1>6. Head(eventQ).at \in Nat /\ r \in Requests /\ r \notin Queued(queue)
  BY <1>4
<1> HIDE DEF r, ev
<1>7. /\ GoodQueue(q, seqCounter') /\ q.panic = FALSE
      /\ V \subseteq Queued(queue) /\ V \subseteq Requests
      /\ Queued(q) = (Queued(queue) \ V) \cup {r}
      /\ q.shedCount = queue.shedCount + Cardinality(V)
      /\ q.rejectedCount = queue.rejectedCount
  BY <1>2, <1>6, EnqueuedGood, ZenonT(40) DEF Enqueued
<1>8. seqCounter' \in Nat
  <2>1. seqCounter \in Nat BY InvParts
  <2> QED BY <1>2, <2>1
<1> HIDE DEF e, V, q
<1>9. /\ d.queue = queue' /\ d.tracker = tracker' /\ d.tick = tickPending'
      /\ d.events = eventQ'
      /\ dispatchTime' = [s \in Requests |-> IF s \in d.sent THEN clock' ELSE dispatchTime[s]]
  BY <1>3 DEF Apply
<1>10. /\ GoodQueue(queue', seqCounter') /\ queue'.panic = FALSE
       /\ queue'.shedCount = queue.shedCount + Cardinality(V)
       /\ queue'.rejectedCount = queue.rejectedCount
       /\ d.sent \subseteq Queued(q)
       /\ Queued(queue') = Queued(q) \ d.sent
  <2>1. TypeOK BY InvParts
  <2>2. /\ GoodQueue(d.queue, seqCounter') /\ d.queue.panic = q.panic
        /\ d.queue.shedCount = q.shedCount /\ d.queue.rejectedCount = q.rejectedCount
        /\ d.sent \subseteq Queued(q) /\ Queued(d.queue) = Queued(q) \ d.sent
    BY <1>4, <1>5, <1>7, <1>8, <2>1, DispatchGood
  <2> QED BY <1>7, <1>9, <2>2
<1>11. /\ Heap(eventQ', clock')
       /\ tickPending' \in BOOLEAN /\ (tickPending => tickPending')
       /\ queue'.totalLen > 0 => tickPending'
       /\ tickPending' /\ ~tickPending => Number(eventQ', Ticks) = Number(ev, Ticks) + 1
       /\ ~tickPending' \/ tickPending => Number(eventQ', Ticks) = Number(ev, Ticks)
       /\ \A s \in d.sent : Number(eventQ', Travels(s)) = Number(ev, Travels(s)) + 1
       /\ \A s \in Requests \ d.sent : Number(eventQ', Travels(s)) = Number(ev, Travels(s))
  <2>1. TypeOK BY InvParts
  <2>2. /\ Heap(d.events, clock')
        /\ d.tick \in BOOLEAN /\ (tickPending => d.tick)
        /\ d.queue.totalLen > 0 => d.tick
        /\ d.tick /\ ~tickPending => Number(d.events, Ticks) = Number(ev, Ticks) + 1
        /\ ~d.tick \/ tickPending => Number(d.events, Ticks) = Number(ev, Ticks)
        /\ \A s \in d.sent : Number(d.events, Travels(s)) = Number(ev, Travels(s)) + 1
        /\ \A s \in Requests \ d.sent :
             Number(d.events, Travels(s)) = Number(ev, Travels(s))
    BY <1>4, <1>5, <1>7, <1>8, <2>1, DispatchGood
  <2> QED BY <1>9, <2>2
<1>12. \/ /\ tracker' = tracker
          /\ \A s \in Requests : Number(eventQ', Evictions(s)) = Number(ev, Evictions(s))
       \/ \E x \in tracker :
            /\ tracker' = tracker \ {x}
            /\ Number(eventQ', Evictions(x.req)) = Number(ev, Evictions(x.req)) + 1
            /\ \A s \in Requests \ {x.req} :
                 Number(eventQ', Evictions(s)) = Number(ev, Evictions(s))
  <2>1. TypeOK BY InvParts
  <2> QED BY <1>4, <1>5, <1>7, <1>8, <1>9, <2>1, DispatchGood, SMTT(40)
<1>13. /\ Tracked(tracker', stage', on') /\ Evicting(eventQ', tracker', stage')
       /\ tracker' \subseteq [req : Requests, at : Nat, inst : Instances]
  <2>1. /\ tracker \subseteq [req : Requests, at : Nat, inst : Instances]
        /\ Tracked(tracker, stage, on)
    BY InvParts
  <2>2. Evicting(ev, tracker, stage) /\ ev \in Seq(GoodEvents)
    <3>1. Evicting(eventQ, tracker, stage) BY InvParts
    <3> QED BY <1>5, <3>1 DEF Evicting, Heap
  <2>3. Tracked(tracker', stage, on) /\ Evicting(eventQ', tracker', stage)
    BY <1>12, <2>1, <2>2, TrackerShrinks, ZenonT(40), ZenonT(40)
  <2>4. tracker' \subseteq tracker BY <1>12
  <2> QED BY <1>2, <2>1, <2>3, <2>4
<1>14. \A s \in V : Number(eventQ, Travels(s)) = 0 /\ stage[s] = "none" /\ ledger[s] = {}
  <2>1. OnePlace(eventQ, Queued(queue), stage, ledger) /\ eventQ \in Seq(GoodEvents)
    BY InvParts DEF Heap
  <2>2. \A s : Number(eventQ, Travels(s)) \in Nat BY <2>1, NumberType
  <2> QED BY <1>7, <2>1, <2>2 DEF OnePlace, One
<1>15. /\ count' \in [OwnCounters -> Nat] /\ shedByTier' \in [Priorities -> Nat]
       /\ ledger' \in [Requests -> SUBSET Buckets]
       /\ OneBucket(ledger')
       /\ \A s \in V : ledger'[s] # {}
       /\ \A s \in Requests \ V : ledger'[s] = ledger[s]
       /\ BucketsCounted(count', ledger', queue'.shedCount, queue'.rejectedCount)
       /\ TiersCounted(shedByTier', ledger')
  <2> DEFINE b == "shed"
             shed == queue'.shedCount
             refused == queue'.rejectedCount
  <2>1. /\ b \in Buckets /\ Tally(V, b)
        /\ b \in TierBuckets => TallyTier(V)
        /\ b \notin TierBuckets => shedByTier' = shedByTier
        /\ b = "shed" => shed = queue.shedCount + Cardinality(V)
        /\ b # "shed" => shed = queue.shedCount
        /\ b = "queueRejected" => refused = queue.rejectedCount + Cardinality(V)
        /\ b # "queueRejected" => refused = queue.rejectedCount
    BY <1>2, <1>10 DEF Buckets, TierBuckets
  <2> HIDE DEF b, shed, refused
  <2>2. /\ TypeOK /\ OneBucket(ledger) /\ TiersCounted(shedByTier, ledger)
        /\ BucketsCounted(count, ledger, queue.shedCount, queue.rejectedCount)
    BY InvParts
  <2>3. /\ count' \in [OwnCounters -> Nat] /\ shedByTier' \in [Priorities -> Nat]
        /\ ledger' \in [Requests -> SUBSET Buckets]
        /\ OneBucket(ledger')
        /\ \A s \in V : ledger'[s] # {}
        /\ \A s \in Requests \ V : ledger'[s] = ledger[s]
        /\ BucketsCounted(count', ledger', shed, refused)
        /\ TiersCounted(shedByTier', ledger')
    BY ZenonT(60), <1>7, <1>14, <2>1, <2>2, TallyGood
  <2> QED BY <2>3 DEF shed, refused
<1>16. OnePlace(eventQ', Queued(queue'), stage', ledger')
  <2> SUFFICES ASSUME NEW s \in Requests
               PROVE  Number(eventQ', Travels(s)) + One(s \in Queued(queue'))
                        + One(stage'[s] # "none") + One(ledger'[s] # {}) = 1
    BY DEF OnePlace
  <2>1. CASE s \in V
    <3>1. s # r /\ s \notin d.sent /\ s \notin Queued(queue')
      BY <1>4, <1>7, <1>10, <2>1
    <3>2. Number(eventQ', Travels(s)) = 0 BY <1>5, <1>11, <1>14, <2>1, <3>1
    <3>3. stage'[s] = "none" /\ ledger'[s] # {} BY <1>2, <1>14, <1>15, <2>1
    <3> QED BY <3>1, <3>2, <3>3 DEF One
  <2>2. CASE s = r
    <3>1. s \in Queued(q) /\ s \notin V BY <1>4, <1>7, <2>2
    <3>2. stage'[s] = "none" /\ ledger'[s] = {} /\ Number(ev, Travels(s)) = 0
      BY <1>2, <1>4, <1>5, <1>15, <2>2, <3>1
    <3>3. CASE s \in d.sent
      <4>1. Number(eventQ', Travels(s)) = 1 /\ s \notin Queued(queue')
        BY <1>10, <1>11, <3>2, <3>3
      <4> QED BY <3>2, <4>1 DEF One
    <3>4. CASE s \notin d.sent
      <4>1. Number(eventQ', Travels(s)) = 0 /\ s \in Queued(queue')
        BY <1>10, <1>11, <3>1, <3>2, <3>4
      <4> QED BY <3>2, <4>1 DEF One
    <3> QED BY <3>3, <3>4
  <2>3. CASE s \notin V /\ s # r
    <3>1. /\ stage'[s] = stage[s] /\ ledger'[s] = ledger[s]
          /\ Number(ev, Travels(s)) = Number(eventQ, Travels(s))
          /\ s \in Queued(q) <=> s \in Queued(queue)
      BY <1>2, <1>5, <1>7, <1>15, <2>3
    <3>2. Number(eventQ, Travels(s)) + One(s \in Queued(queue))
            + One(stage[s] # "none") + One(ledger[s] # {}) = 1
          /\ Number(eventQ, Travels(s)) \in Nat
      <4>1. OnePlace(eventQ, Queued(queue), stage, ledger) /\ eventQ \in Seq(GoodEvents)
        BY InvParts DEF Heap
      <4> QED BY <4>1, NumberType DEF OnePlace
    <3>3. CASE s \in d.sent
      <4>1. Number(eventQ', Travels(s)) = Number(eventQ, Travels(s)) + 1
            /\ s \notin Queued(queue') /\ s \in Queued(queue)
        BY <1>10, <1>11, <3>1, <3>3
      <4> QED BY <3>1, <3>2, <4>1 DEF One
    <3>4. CASE s \notin d.sent
      <4>1. Number(eventQ', Travels(s)) = Number(eventQ, Travels(s))
            /\ (s \in Queued(queue') <=> s \in Queued(queue))
        BY <1>10, <1>11, <3>1, <3>4
      <4> QED BY <3>1, <3>2, <4>1 DEF One
    <3> QED BY <3>3, <3>4
  <2> QED BY <2>1, <2>2, <2>3
<1>17. OneTick(eventQ', queue'.totalLen, tickPending')
  <2>1. OneTick(eventQ, queue.totalLen, tickPending) /\ tickPending \in BOOLEAN
    BY InvParts
  <2>2. Number(ev, Ticks) = One(tickPending) BY <1>5, <2>1 DEF OneTick
  <2>3. Number(eventQ', Ticks) = One(tickPending') BY <1>11, <2>1, <2>2 DEF One
  <2> QED BY <1>11, <2>3 DEF OneTick
<1>18. dispatchTime' \in [Requests -> Nat]
  <2>1. dispatchTime \in [Requests -> Nat] BY InvParts
  <2> QED BY <1>4, <1>9, <2>1
<1> QED BY <1>2, <1>4, <1>8, <1>10, <1>11, <1>13, <1>15, <1>16, <1>17, <1>18,
           InvParts, InvAfter

(* Request r is injected into instance i: the counters follow. *)
LEMMA ArrivingGood ==
  ASSUME TypeOK, Placed(stage, on), FlightsCounted(inFlight, stage, on),
         TenantsCounted(conf.budgets, tenantInFlight, stage),
         NEW i \in Instances, NEW r \in Requests, stage[r] = "none",
         stage' = [stage EXCEPT ![r] = "injected"],
         on' = [on EXCEPT ![r] = i],
         inFlight' = [inFlight EXCEPT ![i] = @ + 1],
         conf.budgets => tenantInFlight' = [tenantInFlight EXCEPT ![Tenant[r]] = @ + 1],
         ~conf.budgets => tenantInFlight' = tenantInFlight
  PROVE  /\ stage' \in [Requests -> {"none", "injected", "waiting", "running"}]
         /\ on' \in [Requests -> Instances \cup {NoInstance}]
         /\ inFlight' \in [Instances -> Nat] /\ tenantInFlight' \in [Tenants -> Nat]
         /\ Placed(stage', on')
         /\ stage'[r] # "none" /\ on'[r] = i
         /\ \A s \in Requests \ {r} : stage'[s] = stage[s] /\ on'[s] = on[s]
         /\ FlightsCounted(inFlight', stage', on')
         /\ TenantsCounted(conf.budgets, tenantInFlight', stage')
<1>1. /\ stage \in [Requests -> {"none", "injected", "waiting", "running"}]
      /\ on \in [Requests -> Instances \cup {NoInstance}]
      /\ inFlight \in [Instances -> Nat] /\ tenantInFlight \in [Tenants -> Nat]
  BY DEF TypeOK
<1>2. /\ stage' \in [Requests -> {"none", "injected", "waiting", "running"}]
      /\ on' \in [Requests -> Instances \cup {NoInstance}]
      /\ stage'[r] # "none" /\ on'[r] = i
      /\ \A s \in Requests \ {r} : stage'[s] = stage[s] /\ on'[s] = on[s]
  BY <1>1
<1>3. Placed(stage', on') BY <1>2 DEF Placed
<1>5. {r} \in SUBSET Requests /\ Cardinality({r}) = 1 BY FS_Singleton
<1>6. inFlight' \in [Instances -> Nat] /\ FlightsCounted(inFlight', stage', on')
  <2>1. /\ OnInstance(i, stage', on') = OnInstance(i, stage, on) \cup {r}
        /\ OnInstance(i, stage, on) \cap {r} = {}
        /\ OnInstance(i, stage, on) \in SUBSET Requests
    BY <1>2 DEF OnInstance
  <2>2. Cardinality(OnInstance(i, stage', on')) = Cardinality(OnInstance(i, stage, on)) + 1
    BY <1>5, <2>1, RequestsAdd
  <2>3. inFlight'[i] = Cardinality(OnInstance(i, stage', on'))
    BY <1>1, <2>2 DEF FlightsCounted
  <2>4. ASSUME NEW j \in Instances, j # i
        PROVE  inFlight'[j] = Cardinality(OnInstance(j, stage', on'))
    <3>1. OnInstance(j, stage', on') = OnInstance(j, stage, on)
      BY <1>2, <2>4 DEF OnInstance
    <3>2. inFlight'[j] = inFlight[j] BY <1>1, <2>4
    <3> QED BY <3>1, <3>2 DEF FlightsCounted
  <2>5. inFlight' \in [Instances -> Nat] BY <1>1
  <2> QED BY <2>3, <2>4, <2>5 DEF FlightsCounted
<1>7. tenantInFlight' \in [Tenants -> Nat]
      /\ TenantsCounted(conf.budgets, tenantInFlight', stage')
  <2>1. CASE ~conf.budgets BY <1>1, <2>1 DEF TenantsCounted
  <2>2. CASE conf.budgets
    <3> DEFINE u == Tenant[r]
    <3>1. u \in Tenants /\ tenantInFlight' = [tenantInFlight EXCEPT ![u] = @ + 1]
      BY <2>2, GatewayQueueAssumption
    <3>2. /\ OfTenant(u, stage') = OfTenant(u, stage) \cup {r}
          /\ OfTenant(u, stage) \cap {r} = {}
          /\ OfTenant(u, stage) \in SUBSET Requests
      BY <1>2 DEF OfTenant
    <3>3. ASSUME NEW t \in Tenants, t # u
          PROVE  OfTenant(t, stage') = OfTenant(t, stage)
      BY <1>2, <3>3 DEF OfTenant
    <3> HIDE DEF u
    <3>4. Cardinality(OfTenant(u, stage')) = Cardinality(OfTenant(u, stage)) + 1
      BY <1>5, <3>2, RequestsAdd
    <3>5. tenantInFlight'[u] = Cardinality(OfTenant(u, stage'))
      BY <1>1, <2>2, <3>1, <3>4 DEF TenantsCounted
    <3>6. ASSUME NEW t \in Tenants, t # u
          PROVE  tenantInFlight'[t] = Cardinality(OfTenant(t, stage'))
      <4>1. tenantInFlight'[t] = tenantInFlight[t] BY <1>1, <3>1, <3>6
      <4>2. tenantInFlight[t] = Cardinality(OfTenant(t, stage))
        BY <2>2 DEF TenantsCounted
      <4> QED BY <3>3, <3>6, <4>1, <4>2
    <3>7. tenantInFlight' \in [Tenants -> Nat] BY <1>1, <3>1
    <3> QED BY <3>5, <3>6, <3>7 DEF TenantsCounted
  <2> QED BY <2>1, <2>2
<1> QED BY <1>2, <1>3, <1>6, <1>7

(* RoutingDecisionEvent: the request goes to an instance. *)
LEMMA RouteGood ==
  ASSUME GatewayInv, NEW i \in Instances, Route(i)
  PROVE  GatewayInv'
<1> DEFINE r == Head(eventQ).req
           new == [req |-> r, at |-> dispatchTime[r], inst |-> i]
<1>1. Handle("routing") BY DEF Route
<1>2. /\ eventQ' = Tail(eventQ)
      /\ stage' = [stage EXCEPT ![r] = "injected"]
      /\ on' = [on EXCEPT ![r] = i]
      /\ inFlight' = [inFlight EXCEPT ![i] = @ + 1]
      /\ conf.budgets => tenantInFlight' = [tenantInFlight EXCEPT ![Tenant[r]] = @ + 1]
      /\ ~conf.budgets => tenantInFlight' = tenantInFlight
      /\ tracker' = tracker \/ (IsSheddable(r) /\ tracker' = tracker \cup {new})
      /\ routable' = routable /\ conf' = conf /\ queue' = queue
      /\ seqCounter' = seqCounter /\ tickPending' = tickPending
      /\ dispatchTime' = dispatchTime
      /\ count' = count /\ shedByTier' = shedByTier /\ ledger' = ledger
  BY DEF Route, Track, NoTally, tallyVars, gwVars
<1>3. /\ r \in Requests /\ clock' \in Nat /\ Heap(eventQ', clock')
      /\ Number(eventQ', Travels(r)) = 0 /\ r \notin Queued(queue)
      /\ stage[r] = "none" /\ ledger[r] = {}
      /\ \A s \in Requests \ {r} : Number(eventQ', Travels(s)) = Number(eventQ, Travels(s))
      /\ Number(eventQ', Ticks) = Number(eventQ, Ticks)
      /\ \A s \in Requests : Number(eventQ', Evictions(s)) = Number(eventQ, Evictions(s))
  BY <1>1, <1>2, PopTravel
<1>4. new.req = r /\ new.inst = i /\ new \in [req : Requests, at : Nat, inst : Instances]
  <2>1. dispatchTime[r] \in Nat BY <1>3, InvParts
  <2> QED BY <1>3, <2>1
<1> HIDE DEF r, new
<1>5. /\ stage' \in [Requests -> {"none", "injected", "waiting", "running"}]
      /\ on' \in [Requests -> Instances \cup {NoInstance}]
      /\ inFlight' \in [Instances -> Nat] /\ tenantInFlight' \in [Tenants -> Nat]
      /\ Placed(stage', on')
      /\ stage'[r] # "none" /\ on'[r] = i
      /\ \A s \in Requests \ {r} : stage'[s] = stage[s] /\ on'[s] = on[s]
      /\ FlightsCounted(inFlight', stage', on')
      /\ TenantsCounted(conf.budgets, tenantInFlight', stage')
  <2>1. /\ TypeOK /\ Placed(stage, on) /\ FlightsCounted(inFlight, stage, on)
        /\ TenantsCounted(conf.budgets, tenantInFlight, stage)
    BY InvParts
  <2> QED BY <1>2, <1>3, <2>1, ArrivingGood
<1>6. OnePlace(eventQ', Queued(queue'), stage', ledger')
  <2>1. \A s \in Requests \ {r} :
          Number(eventQ', Travels(s)) + One(s \in Queued(queue')) + One(stage'[s] # "none")
            + One(ledger'[s] # {}) = 1
    <3>1. /\ queue' = queue /\ ledger' = ledger
          /\ \A s \in Requests \ {r} : stage'[s] = stage[s]
      BY <1>2, <1>5
    <3>2. OnePlace(eventQ, Queued(queue), stage, ledger) BY InvParts
    <3> QED BY <1>3, <3>1, <3>2 DEF OnePlace
  <2>2. /\ One(r \in Queued(queue')) = 0 /\ One(stage'[r] # "none") = 1
        /\ One(ledger'[r] # {}) = 0
    BY <1>2, <1>3, <1>5 DEF One
  <2> QED BY <1>3, <2>1, <2>2 DEF OnePlace
<1>7. OneTick(eventQ', queue'.totalLen, tickPending')
  BY <1>2, <1>3, InvParts DEF OneTick
<1>8. /\ tracker \subseteq [req : Requests, at : Nat, inst : Instances]
      /\ Tracked(tracker, stage, on) /\ Evicting(eventQ, tracker, stage)
      /\ \A s : Number(eventQ, Evictions(s)) \in Nat
  <2>1. /\ tracker \subseteq [req : Requests, at : Nat, inst : Instances]
        /\ Tracked(tracker, stage, on) /\ Evicting(eventQ, tracker, stage)
        /\ eventQ \in Seq(GoodEvents)
    BY InvParts DEF Heap
  <2> QED BY <2>1, NumberType
<1>9. \A x \in tracker : x.req \in Requests \ {r} BY <1>3, <1>8 DEF Tracked
<1>10. tracker' \subseteq tracker \cup {new} /\ (tracker' # tracker => IsSheddable(r))
  BY <1>2
<1>11. tracker' \subseteq [req : Requests, at : Nat, inst : Instances]
  BY <1>4, <1>8, <1>10
<1>12. Tracked(tracker', stage', on')
  <2>1. ASSUME NEW x \in tracker'
        PROVE  /\ IsSheddable(x.req) /\ stage'[x.req] # "none" /\ on'[x.req] = x.inst
               /\ \A y \in tracker' : x.req = y.req => x = y
    <3>1. CASE x \in tracker
      <4>1. /\ IsSheddable(x.req) /\ stage'[x.req] # "none" /\ on'[x.req] = x.inst
            /\ \A y \in tracker : x.req = y.req => x = y
        BY <1>5, <1>8, <1>9, <3>1 DEF Tracked
      <4>2. x.req # r BY <1>9, <3>1
      <4> QED BY <1>4, <1>10, <4>1, <4>2
    <3>2. CASE x \notin tracker
      <4>1. x = new /\ IsSheddable(r) BY <1>10, <3>2
      <4> QED BY <1>4, <1>5, <1>9, <1>10, <4>1
    <3> QED BY <3>1, <3>2
  <2> QED BY <2>1 DEF Tracked
<1>13. Evicting(eventQ', tracker', stage')
  <2>1. ASSUME NEW s \in Requests
        PROVE  /\ Number(eventQ', Evictions(s)) <= 1
               /\ Number(eventQ', Evictions(s)) > 0 =>
                    /\ stage'[s] # "none" /\ IsSheddable(s)
                    /\ \A x \in tracker' : x.req # s
    <3>1. CASE s = r
      <4>1. Number(eventQ, Evictions(r)) = 0 BY <1>3, <1>8 DEF Evicting
      <4> QED BY <1>3, <3>1, <4>1
    <3>2. CASE s # r BY <1>3, <1>4, <1>5, <1>8, <1>10, <3>2 DEF Evicting
    <3> QED BY <3>1, <3>2
  <2> QED BY <2>1 DEF Evicting
<1> QED BY <1>2, <1>3, <1>5, <1>6, <1>7, <1>11, <1>12, <1>13, InvParts, InvAfter

(* A request on an instance has not been counted. *)
LEMMA StagedUncounted ==
  ASSUME GatewayInv, NEW r \in Requests, stage[r] # "none"
  PROVE  ledger[r] = {}
<1>1. OnePlace(eventQ, Queued(queue), stage, ledger) /\ eventQ \in Seq(GoodEvents)
  BY InvParts DEF Heap
<1>2. Number(eventQ, Travels(r)) \in Nat BY <1>1, NumberType
<1>3. Number(eventQ, Travels(r)) + One(r \in Queued(queue)) + One(stage[r] # "none")
        + One(ledger[r] # {}) = 1
  BY <1>1 DEF OnePlace
<1> QED BY <1>2, <1>3 DEF One

(* The requests S end, off instance i: each had its instance and nothing   *)
(* else, so that it is now in its bucket and nowhere else.                 *)
LEMMA EndedGood ==
  ASSUME GatewayInv, NEW S \in SUBSET Requests, \A r \in S : stage[r] # "none",
         \A r \in Requests : Number(eventQ', Travels(r)) = Number(eventQ, Travels(r)),
         \A r \in S : stage'[r] = "none" /\ ledger'[r] # {},
         \A r \in Requests \ S : stage'[r] = stage[r] /\ ledger'[r] = ledger[r]
  PROVE  OnePlace(eventQ', Queued(queue), stage', ledger')
<1>1. OnePlace(eventQ, Queued(queue), stage, ledger) /\ eventQ \in Seq(GoodEvents)
  BY InvParts DEF Heap
<1>2. \A r \in Requests : Number(eventQ, Travels(r)) \in Nat
  BY <1>1, NumberType
<1>3. ASSUME NEW r \in Requests
      PROVE  Number(eventQ', Travels(r)) + One(r \in Queued(queue))
               + One(stage'[r] # "none") + One(ledger'[r] # {}) = 1
  <2>1. Number(eventQ, Travels(r)) + One(r \in Queued(queue))
          + One(stage[r] # "none") + One(ledger[r] # {}) = 1
    BY <1>1 DEF OnePlace
  <2>2. CASE r \in S
    <3>1. /\ stage[r] # "none" /\ stage'[r] = "none" /\ ledger'[r] # {}
          /\ Number(eventQ, Travels(r)) \in Nat
          /\ Number(eventQ', Travels(r)) = Number(eventQ, Travels(r))
      BY <1>2, <2>2
    <3> QED BY <2>1, <3>1 DEF One
  <2>3. CASE r \notin S BY <2>1, <2>3
  <2> QED BY <2>2, <2>3
<1> QED BY <1>3 DEF OnePlace

(* GatewayEvictionEvent: the request is taken off its instance. *)
LEMMA GatewayEvictsGood ==
  ASSUME GatewayInv, GatewayEvicts
  PROVE  GatewayInv'
<1> DEFINE r == Head(eventQ).req
           i == Head(eventQ).inst
           S == {r}
<1>1. Handle("eviction") BY DEF GatewayEvicts
<1>2. /\ on[r] = i /\ stage[r] # "none"
      /\ eventQ' = Tail(eventQ) /\ OffInstance(S)
      /\ inFlight' = [inFlight EXCEPT ![i] = AtLeastZero(@ - 1)]
      /\ tenantInFlight' = TenantsAfter(S)
      /\ Tally(S, "evicted") /\ TallyTier(S)
      /\ routable' = routable /\ conf' = conf /\ queue' = queue
      /\ seqCounter' = seqCounter /\ tickPending' = tickPending
      /\ dispatchTime' = dispatchTime /\ tracker' = tracker
  BY DEF GatewayEvicts, gwVars
<1>3. /\ r \in Requests /\ clock' \in Nat /\ Heap(eventQ', clock')
      /\ \A s \in Requests : Number(eventQ', Travels(s)) = Number(eventQ, Travels(s))
      /\ Number(eventQ', Ticks) = Number(eventQ, Ticks)
      /\ Number(eventQ, Evictions(r)) = Number(eventQ', Evictions(r)) + 1
      /\ \A s \in Requests \ {r} :
           Number(eventQ', Evictions(s)) = Number(eventQ, Evictions(s))
      /\ Number(eventQ', Evictions(r)) \in Nat
  BY <1>1, <1>2, PopOther
<1> HIDE DEF r, i
<1>4. i \in Instances BY <1>2, <1>3, InvParts DEF Placed
<1>5. /\ S \in SUBSET Requests /\ S \in SUBSET OnInstance(i, stage, on)
      /\ \A s \in S : stage[s] # "none" /\ ledger[s] = {}
      /\ r \in S /\ Requests \ S = Requests \ {r}
  BY <1>2, <1>3, StagedUncounted DEF OnInstance
<1>6. inFlight' = [inFlight EXCEPT ![i] = AtLeastZero(@ - Cardinality(S))]
  <2>1. Cardinality(S) = 1 BY FS_Singleton
  <2> HIDE DEF S
  <2> QED BY <1>2, <2>1
<1> HIDE DEF S
<1>7. /\ stage' \in [Requests -> {"none", "injected", "waiting", "running"}]
      /\ on' \in [Requests -> Instances \cup {NoInstance}]
      /\ inFlight' \in [Instances -> Nat] /\ tenantInFlight' \in [Tenants -> Nat]
      /\ Placed(stage', on')
      /\ \A s \in S : stage'[s] = "none"
      /\ \A s \in Requests \ S : stage'[s] = stage[s] /\ on'[s] = on[s]
      /\ FlightsCounted(inFlight', stage', on')
      /\ TenantsCounted(conf.budgets, tenantInFlight', stage')
  <2>1. /\ TypeOK /\ Placed(stage, on) /\ FlightsCounted(inFlight, stage, on)
        /\ TenantsCounted(conf.budgets, tenantInFlight, stage)
    BY InvParts
  <2> QED BY <1>2, <1>4, <1>5, <1>6, <2>1, LeavingGood
<1>8. /\ count' \in [OwnCounters -> Nat] /\ shedByTier' \in [Priorities -> Nat]
      /\ ledger' \in [Requests -> SUBSET Buckets]
      /\ OneBucket(ledger')
      /\ \A s \in S : ledger'[s] # {}
      /\ \A s \in Requests \ S : ledger'[s] = ledger[s]
      /\ BucketsCounted(count', ledger', queue.shedCount, queue.rejectedCount)
      /\ TiersCounted(shedByTier', ledger')
  <2>1. "evicted" \in Buckets \ {"shed", "queueRejected"} /\ "evicted" \in TierBuckets
    BY DEF Buckets, TierBuckets
  <2> QED BY <1>2, <1>5, <2>1, TallyPlain
<1>9. OnePlace(eventQ', Queued(queue'), stage', ledger')
  <2>1. /\ \A s \in S : stage[s] # "none"
        /\ \A s \in S : stage'[s] = "none" /\ ledger'[s] # {}
        /\ \A s \in Requests \ S : stage'[s] = stage[s] /\ ledger'[s] = ledger[s]
    BY <1>5, <1>7, <1>8
  <2>2. OnePlace(eventQ', Queued(queue), stage', ledger')
    BY <1>3, <1>5, <2>1, EndedGood
  <2> QED BY <1>2, <2>2
<1>10. OneTick(eventQ', queue'.totalLen, tickPending')
  BY <1>2, <1>3, InvParts DEF OneTick
<1>11. /\ tracker \subseteq [req : Requests, at : Nat, inst : Instances]
       /\ Tracked(tracker, stage, on) /\ Evicting(eventQ, tracker, stage)
  BY InvParts
<1>12. Number(eventQ', Evictions(r)) = 0 /\ \A x \in tracker : x.req \in Requests \ {r}
  <2>1. Number(eventQ, Evictions(r)) <= 1 /\ Number(eventQ, Evictions(r)) > 0
        /\ (Number(eventQ, Evictions(r)) > 0 => \A x \in tracker : x.req # r)
    BY <1>3, <1>11 DEF Evicting
  <2> QED BY <1>3, <1>11, <2>1
<1>13. Tracked(tracker', stage', on')
  BY <1>2, <1>5, <1>7, <1>11, <1>12 DEF Tracked
<1>14. Evicting(eventQ', tracker', stage')
  <2>1. ASSUME NEW s \in Requests
        PROVE  /\ Number(eventQ', Evictions(s)) <= 1
               /\ Number(eventQ', Evictions(s)) > 0 =>
                    /\ stage'[s] # "none" /\ IsSheddable(s)
                    /\ \A x \in tracker' : x.req # s
    <3>1. CASE s = r BY <1>12, <3>1
    <3>2. CASE s # r BY <1>2, <1>3, <1>5, <1>7, <1>11, <3>2 DEF Evicting
    <3> QED BY <3>1, <3>2
  <2> QED BY <2>1 DEF Evicting
<1> QED BY <1>2, <1>3, <1>7, <1>8, <1>9, <1>10, <1>13, <1>14, InvParts, InvAfter

(* GatewayEvictionEvent: the request is not there to be evicted. *)
LEMMA EvictionMissesGood ==
  ASSUME GatewayInv, EvictionMisses
  PROVE  GatewayInv'
<1> DEFINE r == Head(eventQ).req
<1>1. Handle("eviction") BY DEF EvictionMisses
<1>2. /\ eventQ' = Tail(eventQ) /\ routable' = routable
      /\ conf' = conf /\ queue' = queue /\ seqCounter' = seqCounter
      /\ tickPending' = tickPending /\ dispatchTime' = dispatchTime
      /\ stage' = stage /\ on' = on /\ inFlight' = inFlight
      /\ tenantInFlight' = tenantInFlight /\ tracker' = tracker
      /\ count' = count /\ shedByTier' = shedByTier /\ ledger' = ledger
  BY DEF EvictionMisses, NoTally, tallyVars, gwVars, instVars
<1>3. /\ r \in Requests /\ clock' \in Nat /\ Heap(eventQ', clock')
      /\ \A s \in Requests : Number(eventQ', Travels(s)) = Number(eventQ, Travels(s))
      /\ Number(eventQ', Ticks) = Number(eventQ, Ticks)
      /\ Number(eventQ, Evictions(r)) = Number(eventQ', Evictions(r)) + 1
      /\ \A s \in Requests \ {r} :
           Number(eventQ', Evictions(s)) = Number(eventQ, Evictions(s))
      /\ Number(eventQ', Evictions(r)) \in Nat
  BY <1>1, <1>2, PopOther
<1> HIDE DEF r
<1>4. OnePlace(eventQ', Queued(queue'), stage', ledger')
  BY <1>2, <1>3, InvParts, ZenonT(40) DEF OnePlace
<1>5. OneTick(eventQ', queue'.totalLen, tickPending')
  BY <1>2, <1>3, InvParts DEF OneTick
<1>6. Evicting(eventQ', tracker', stage')
  <2>1. Evicting(eventQ, tracker, stage) BY InvParts
  <2>2. Number(eventQ', Evictions(r)) = 0 BY <1>3, <2>1 DEF Evicting
  <2> QED BY <1>2, <1>3, <2>1, <2>2 DEF Evicting
<1> QED BY <1>2, <1>3, <1>4, <1>5, <1>6, InvParts, InvAfter

(* GatewayQueueTTLEvent: a request that still waits expires. *)
LEMMA TTLExpiryGood ==
  ASSUME GatewayInv, TTLExpiry
  PROVE  GatewayInv'
<1> DEFINE r == Head(eventQ).req
           d == RemoveByRequestID(queue, r)
           V == d.got
<1>1. Handle("ttl") BY DEF TTLExpiry
<1>2. /\ eventQ' = Tail(eventQ) /\ queue' = d.queue
      /\ Tally(V, "expired") /\ TallyTier(V)
      /\ routable' = routable /\ conf' = conf /\ seqCounter' = seqCounter
      /\ tickPending' = tickPending /\ dispatchTime' = dispatchTime
      /\ stage' = stage /\ on' = on /\ inFlight' = inFlight
      /\ tenantInFlight' = tenantInFlight /\ tracker' = tracker
  BY DEF TTLExpiry, instVars
<1>3. /\ r \in Requests /\ clock' \in Nat /\ Heap(eventQ', clock')
      /\ \A s \in Requests : Number(eventQ', Travels(s)) = Number(eventQ, Travels(s))
      /\ Number(eventQ', Ticks) = Number(eventQ, Ticks)
      /\ \A s \in Requests : Number(eventQ', Evictions(s)) = Number(eventQ, Evictions(s))
  BY <1>1, <1>2, PopOther
<1> HIDE DEF r
<1>4. /\ GoodQueue(queue', seqCounter') /\ queue'.panic = FALSE
      /\ queue'.shedCount = queue.shedCount
      /\ queue'.rejectedCount = queue.rejectedCount
      /\ V = Queued(queue) \cap {r} /\ Queued(queue') = Queued(queue) \ V
  <2>1. seqCounter \in Nat /\ GoodQueue(queue, seqCounter) /\ queue.panic = FALSE
    BY InvParts
  <2>2. /\ GoodQueue(d.queue, seqCounter) /\ d.queue.panic = queue.panic
        /\ d.queue.shedCount = queue.shedCount
        /\ d.queue.rejectedCount = queue.rejectedCount
        /\ d.got = Queued(queue) \cap {r} /\ Queued(d.queue) = Queued(queue) \ {r}
    BY <2>1, RemoveByRequestIDGood
  <2> HIDE DEF d
  <2> QED BY <1>2, <2>1, <2>2
<1> HIDE DEF d, V
<1>5. /\ V \in SUBSET Requests
      /\ \A s \in V : Number(eventQ, Travels(s)) = 0 /\ stage[s] = "none" /\ ledger[s] = {}
  <2>1. OnePlace(eventQ, Queued(queue), stage, ledger) /\ eventQ \in Seq(GoodEvents)
    BY InvParts DEF Heap
  <2>2. \A s : Number(eventQ, Travels(s)) \in Nat BY <2>1, NumberType
  <2>3. V \in SUBSET Requests BY <1>3, <1>4
  <2>4. ASSUME NEW s \in V
        PROVE  Number(eventQ, Travels(s)) = 0 /\ stage[s] = "none" /\ ledger[s] = {}
    <3>1. s \in Requests /\ s \in Queued(queue) /\ Number(eventQ, Travels(s)) \in Nat
      BY <1>4, <2>2, <2>3
    <3>2. Number(eventQ, Travels(s)) + One(s \in Queued(queue))
            + One(stage[s] # "none") + One(ledger[s] # {}) = 1
      BY <2>1, <3>1 DEF OnePlace
    <3> QED BY <3>1, <3>2 DEF One
  <2> QED BY <2>3, <2>4
<1>6. /\ count' \in [OwnCounters -> Nat] /\ shedByTier' \in [Priorities -> Nat]
      /\ ledger' \in [Requests -> SUBSET Buckets]
      /\ OneBucket(ledger')
      /\ \A s \in V : ledger'[s] # {}
      /\ \A s \in Requests \ V : ledger'[s] = ledger[s]
      /\ BucketsCounted(count', ledger', queue.shedCount, queue.rejectedCount)
      /\ TiersCounted(shedByTier', ledger')
  <2>1. "expired" \in Buckets \ {"shed", "queueRejected"} /\ "expired" \in TierBuckets
    BY DEF Buckets, TierBuckets
  <2> QED BY <1>2, <1>5, <2>1, TallyPlain
<1>7. OnePlace(eventQ', Queued(queue'), stage', ledger')
  <2> SUFFICES ASSUME NEW s \in Requests
               PROVE  Number(eventQ', Travels(s)) + One(s \in Queued(queue'))
                        + One(stage'[s] # "none") + One(ledger'[s] # {}) = 1
    BY DEF OnePlace
  <2>1. CASE s \in V
    <3>1. /\ Number(eventQ', Travels(s)) = 0 /\ s \notin Queued(queue')
          /\ stage'[s] = "none" /\ ledger'[s] # {}
      BY <1>2, <1>3, <1>4, <1>5, <1>6, <2>1
    <3> QED BY <3>1 DEF One
  <2>2. CASE s \notin V
    <3>1. /\ Number(eventQ', Travels(s)) = Number(eventQ, Travels(s))
          /\ s \in Queued(queue') <=> s \in Queued(queue)
          /\ stage'[s] = stage[s] /\ ledger'[s] = ledger[s]
      BY <1>2, <1>3, <1>4, <1>6, <2>2
    <3>2. OnePlace(eventQ, Queued(queue), stage, ledger) BY InvParts
    <3> QED BY <3>1, <3>2 DEF OnePlace
  <2> QED BY <2>1, <2>2
<1>8. OneTick(eventQ', queue'.totalLen, tickPending')
  <2>1. OneTick(eventQ, queue.totalLen, tickPending) /\ GoodQueue(queue, seqCounter)
        /\ seqCounter \in Nat
    BY InvParts
  <2>2. queue'.totalLen > 0 => queue.totalLen > 0
    <3>1. queue.totalLen > 0 <=> Queued(queue) # {} BY <2>1, WaitingIsCounted
    <3>2. seqCounter' \in Nat BY <1>2, <2>1
    <3>3. queue'.totalLen > 0 <=> Queued(queue') # {}
      BY <1>4, <3>2, WaitingIsCounted
    <3> QED BY <1>4, <3>1, <3>3
  <2> QED BY <1>2, <1>3, <2>1, <2>2 DEF OneTick
<1>9. Evicting(eventQ', tracker', stage') BY <1>2, <1>3, InvParts DEF Evicting
<1>10. BucketsCounted(count', ledger', queue'.shedCount, queue'.rejectedCount)
  BY <1>4, <1>6
<1> QED BY <1>2, <1>3, <1>4, <1>6, <1>7, <1>8, <1>9, <1>10, InvParts, InvAfter

(* GatewayDispatchTickEvent: one attempt, and the next tick. *)
LEMMA DispatchTickGood ==
  ASSUME GatewayInv, DispatchTick
  PROVE  GatewayInv'
<1> DEFINE rest == Tail(eventQ)
<1>1. Handle("tick") BY DEF DispatchTick
<1>2. /\ routable' = routable /\ conf' = conf /\ seqCounter' = seqCounter
      /\ stage' = stage /\ on' = on /\ inFlight' = inFlight
      /\ tenantInFlight' = tenantInFlight
      /\ count' = count /\ shedByTier' = shedByTier /\ ledger' = ledger
  BY DEF DispatchTick, NoTally, tallyVars
<1>17. clock' + TickInterval \in Nat /\ clock' + TickInterval >= clock'
  <2>1. clock' \in Nat BY <1>1, PopOther
  <2>2. TickInterval \in Nat BY GatewayAssumption
  <2>3. \A a, b \in Nat : a + b \in Nat /\ a + b >= a OBVIOUS
  <2> QED BY <2>1, <2>2, <2>3
<1>3. PICK d \in TryDispatch(queue, rest, tracker, clock') :
        /\ Apply(d, clock')
        /\ d.queue.totalLen > 0 =>
             /\ eventQ' = Push(d.events, Event(clock' + TickInterval, "tick",
                                               NoRequest, NoInstance))
             /\ tickPending' = tickPending
        /\ ~(d.queue.totalLen > 0) => eventQ' = d.events /\ tickPending' = FALSE
  BY DEF DispatchTick
<1>4. /\ clock' \in Nat /\ Heap(rest, clock')
      /\ \A s \in Requests : Number(rest, Travels(s)) = Number(eventQ, Travels(s))
      /\ Number(eventQ, Ticks) = Number(rest, Ticks) + 1
      /\ \A s \in Requests : Number(rest, Evictions(s)) = Number(eventQ, Evictions(s))
      /\ Number(rest, Ticks) \in Nat
  BY <1>1, PopOther
<1> HIDE DEF rest
<1>5. /\ queue' = d.queue /\ tracker' = d.tracker
      /\ dispatchTime' = [s \in Requests |-> IF s \in d.sent THEN clock' ELSE dispatchTime[s]]
  BY <1>3 DEF Apply
<1>6. tickPending = TRUE /\ Number(rest, Ticks) = 0
  <2>1. OneTick(eventQ, queue.totalLen, tickPending) /\ tickPending \in BOOLEAN
    BY InvParts
  <2> QED BY <1>4, <2>1 DEF OneTick, One
<1>7. TypeOK /\ seqCounter \in Nat /\ GoodQueue(queue, seqCounter) /\ queue.panic = FALSE
  BY InvParts
<1>8. /\ GoodQueue(queue', seqCounter') /\ queue'.panic = FALSE
      /\ queue'.shedCount = queue.shedCount
      /\ queue'.rejectedCount = queue.rejectedCount
      /\ d.sent \subseteq Queued(queue)
      /\ Queued(queue') = Queued(queue) \ d.sent
  <2>1. /\ GoodQueue(d.queue, seqCounter) /\ d.queue.panic = queue.panic
        /\ d.queue.shedCount = queue.shedCount
        /\ d.queue.rejectedCount = queue.rejectedCount
        /\ d.sent \subseteq Queued(queue) /\ Queued(d.queue) = Queued(queue) \ d.sent
    BY <1>3, <1>4, <1>7, DispatchGood
  <2> QED BY <1>2, <1>5, <1>7, <2>1
<1>9. /\ Heap(d.events, clock')
      /\ Number(d.events, Ticks) = Number(rest, Ticks)
      /\ \A s \in d.sent : Number(d.events, Travels(s)) = Number(rest, Travels(s)) + 1
      /\ \A s \in Requests \ d.sent :
           Number(d.events, Travels(s)) = Number(rest, Travels(s))
  <2>1. /\ Heap(d.events, clock')
        /\ ~d.tick \/ tickPending => Number(d.events, Ticks) = Number(rest, Ticks)
        /\ \A s \in d.sent : Number(d.events, Travels(s)) = Number(rest, Travels(s)) + 1
        /\ \A s \in Requests \ d.sent :
             Number(d.events, Travels(s)) = Number(rest, Travels(s))
    BY <1>3, <1>4, <1>7, DispatchGood
  <2> QED BY <1>6, <2>1
<1>10. \/ /\ tracker' = tracker
          /\ \A s \in Requests : Number(d.events, Evictions(s)) = Number(rest, Evictions(s))
       \/ \E x \in tracker :
            /\ tracker' = tracker \ {x}
            /\ Number(d.events, Evictions(x.req)) = Number(rest, Evictions(x.req)) + 1
            /\ \A s \in Requests \ {x.req} :
                 Number(d.events, Evictions(s)) = Number(rest, Evictions(s))
  BY <1>3, <1>4, <1>5, <1>7, DispatchGood
<1>11. /\ tracker \subseteq [req : Requests, at : Nat, inst : Instances]
       /\ Tracked(tracker, stage, on) /\ Evicting(eventQ, tracker, stage)
  BY InvParts
<1>12. /\ Tracked(tracker', stage', on') /\ Evicting(d.events, tracker', stage')
       /\ tracker' \subseteq [req : Requests, at : Nat, inst : Instances]
  <2>1. Evicting(rest, tracker, stage) /\ rest \in Seq(GoodEvents)
    BY <1>4, <1>11 DEF Evicting, Heap
  <2>2. Tracked(tracker', stage, on) /\ Evicting(d.events, tracker', stage)
    <3>1. /\ tracker \subseteq [req : Requests, at : Nat, inst : Instances]
          /\ Tracked(tracker, stage, on)
      BY <1>11
    <3> DEFINE out == d.events
    <3>2. \/ /\ tracker' = tracker
             /\ \A s \in Requests : Number(out, Evictions(s)) = Number(rest, Evictions(s))
          \/ \E x \in tracker :
               /\ tracker' = tracker \ {x}
               /\ Number(out, Evictions(x.req)) = Number(rest, Evictions(x.req)) + 1
               /\ \A s \in Requests \ {x.req} :
                    Number(out, Evictions(s)) = Number(rest, Evictions(s))
      BY <1>10
    <3> HIDE DEF out
    <3>3. Tracked(tracker', stage, on) /\ Evicting(out, tracker', stage)
      BY <2>1, <3>1, <3>2, TrackerShrinks, ZenonT(40)
    <3> QED BY <3>3 DEF out
  <2>3. tracker' \subseteq tracker BY <1>10
  <2> QED BY <1>2, <1>11, <2>2, <2>3
<1>13. /\ Heap(eventQ', clock')
       /\ \A s \in Requests : Number(eventQ', Travels(s)) = Number(d.events, Travels(s))
       /\ \A s \in Requests :
            Number(eventQ', Evictions(s)) = Number(d.events, Evictions(s))
       /\ tickPending' \in BOOLEAN
       /\ OneTick(eventQ', queue'.totalLen, tickPending')
  <2>1. CASE d.queue.totalLen > 0
    <3>1. /\ eventQ' = Push(d.events, Event(clock' + TickInterval, "tick",
                                            NoRequest, NoInstance))
          /\ tickPending' = TRUE
      BY <1>3, <1>6, <2>1
    <3>2. clock' + TickInterval \in Nat /\ clock' + TickInterval >= clock'
      BY <1>17
    <3>3. /\ Heap(eventQ', clock')
          /\ \A s \in Requests : Number(eventQ', Travels(s)) = Number(d.events, Travels(s))
          /\ Number(eventQ', Ticks) = Number(d.events, Ticks) + 1
          /\ \A s \in Requests :
               Number(eventQ', Evictions(s)) = Number(d.events, Evictions(s))
      BY <1>4, <1>9, <3>1, <3>2, PushTick
    <3>4. OneTick(eventQ', queue'.totalLen, tickPending')
      BY <1>6, <1>9, <3>1, <3>3 DEF OneTick, One
    <3> QED BY <3>1, <3>3, <3>4
  <2>2. CASE ~(d.queue.totalLen > 0)
    <3>1. eventQ' = d.events /\ tickPending' = FALSE BY <1>3, <2>2
    <3>2. OneTick(eventQ', queue'.totalLen, tickPending')
      BY <1>5, <1>6, <1>9, <2>2, <3>1 DEF OneTick, One
    <3> QED BY <1>9, <3>1, <3>2
  <2> QED BY <2>1, <2>2
<1>14. Evicting(eventQ', tracker', stage') BY <1>12, <1>13 DEF Evicting
<1>15. OnePlace(eventQ', Queued(queue'), stage', ledger')
  <2> SUFFICES ASSUME NEW s \in Requests
               PROVE  Number(eventQ', Travels(s)) + One(s \in Queued(queue'))
                        + One(stage'[s] # "none") + One(ledger'[s] # {}) = 1
    BY DEF OnePlace
  <2>1. Number(eventQ, Travels(s)) + One(s \in Queued(queue))
          + One(stage[s] # "none") + One(ledger[s] # {}) = 1
        /\ Number(eventQ, Travels(s)) \in Nat
    <3>1. OnePlace(eventQ, Queued(queue), stage, ledger) /\ eventQ \in Seq(GoodEvents)
      BY InvParts DEF Heap
    <3> QED BY <3>1, NumberType DEF OnePlace
  <2>2. stage'[s] = stage[s] /\ ledger'[s] = ledger[s] BY <1>2
  <2>3. CASE s \in d.sent
    <3>1. Number(eventQ', Travels(s)) = Number(eventQ, Travels(s)) + 1
          /\ s \notin Queued(queue') /\ s \in Queued(queue)
      BY <1>4, <1>8, <1>9, <1>13, <2>3
    <3> QED BY <2>1, <2>2, <3>1 DEF One
  <2>4. CASE s \notin d.sent
    <3>1. Number(eventQ', Travels(s)) = Number(eventQ, Travels(s))
          /\ (s \in Queued(queue') <=> s \in Queued(queue))
      BY <1>4, <1>8, <1>9, <1>13, <2>4
    <3> QED BY <2>1, <2>2, <3>1 DEF One
  <2> QED BY <2>3, <2>4
<1>16. dispatchTime' \in [Requests -> Nat]
  <2>1. dispatchTime \in [Requests -> Nat] BY InvParts
  <2> QED BY <1>4, <1>5, <2>1
<1>18. seqCounter' \in Nat
       /\ BucketsCounted(count', ledger', queue'.shedCount, queue'.rejectedCount)
  BY <1>2, <1>8, InvParts
<1> QED BY <1>2, <1>4, <1>8, <1>12, <1>13, <1>14, <1>15, <1>16, <1>18,
           InvParts, InvAfter

(* While an instance acts no eviction is on its way: time cannot have run  *)
(* past one.                                                               *)
LEMMA NoEvictionNow ==
  ASSUME GatewayInv, InstanceTurn
  PROVE  \A r \in Requests : Number(eventQ, Evictions(r)) = 0
<1>1. Heap(eventQ, clock) /\ clock \in Nat /\ eventQ \in Seq(GoodEvents)
  BY InvParts DEF Heap
<1>2. ASSUME NEW k \in DOMAIN eventQ PROVE eventQ[k].kind # "eviction"
  <2>1. eventQ[k].at \in Nat
    <3>1. eventQ[k] \in GoodEvents BY <1>1
    <3> QED BY <3>1 DEF GoodEvents, Events
  <2>2. eventQ[k].at > clock BY DEF InstanceTurn
  <2>3. eventQ[k].kind = "eviction" => eventQ[k].at <= clock BY <1>1 DEF Heap
  <2> QED BY <1>1, <2>1, <2>2, <2>3
<1>3. \A r \in Requests, k \in DOMAIN eventQ : eventQ[k] \notin Evictions(r)
  BY <1>2 DEF Evictions
<1> QED BY <1>1, <1>3, NumberType

(* Requests S of instance i end there. *)
LEMMA LeaveGood ==
  ASSUME GatewayInv, InstanceTurn, NEW i \in Instances,
         NEW S \in SUBSET OnInstance(i, stage, on), Leave(i, S),
         UNCHANGED <<conf, loopVars, gwVars, routable>>
  PROVE  GatewayInv'
<1>1. /\ OffInstance(S) /\ tenantInFlight' = TenantsAfter(S)
      /\ inFlight' = [inFlight EXCEPT ![i] = AtLeastZero(@ - Cardinality(S))]
      /\ tracker' = {x \in tracker : x.req \notin S}
      /\ Tally(S, "finished") /\ shedByTier' = shedByTier
  BY DEF Leave
<1>2. /\ conf' = conf /\ clock' = clock /\ eventQ' = eventQ /\ queue' = queue
      /\ seqCounter' = seqCounter /\ tickPending' = tickPending
      /\ dispatchTime' = dispatchTime /\ routable' = routable
  BY DEF loopVars, gwVars
<1>3. /\ S \in SUBSET Requests
      /\ \A r \in S : stage[r] # "none" /\ ledger[r] = {}
  <2>1. S \in SUBSET Requests /\ \A r \in S : stage[r] # "none"
    BY DEF OnInstance
  <2> QED BY <2>1, StagedUncounted
<1>4. /\ stage' \in [Requests -> {"none", "injected", "waiting", "running"}]
      /\ on' \in [Requests -> Instances \cup {NoInstance}]
      /\ inFlight' \in [Instances -> Nat] /\ tenantInFlight' \in [Tenants -> Nat]
      /\ Placed(stage', on')
      /\ \A r \in S : stage'[r] = "none"
      /\ \A r \in Requests \ S : stage'[r] = stage[r] /\ on'[r] = on[r]
      /\ FlightsCounted(inFlight', stage', on')
      /\ TenantsCounted(conf.budgets, tenantInFlight', stage')
  <2>1. /\ TypeOK /\ Placed(stage, on) /\ FlightsCounted(inFlight, stage, on)
        /\ TenantsCounted(conf.budgets, tenantInFlight, stage)
    BY InvParts
  <2> QED BY <1>1, <2>1, LeavingGood
<1>5. /\ count' \in [OwnCounters -> Nat] /\ shedByTier' \in [Priorities -> Nat]
      /\ ledger' \in [Requests -> SUBSET Buckets]
      /\ OneBucket(ledger')
      /\ \A r \in S : ledger'[r] # {}
      /\ \A r \in Requests \ S : ledger'[r] = ledger[r]
      /\ BucketsCounted(count', ledger', queue.shedCount, queue.rejectedCount)
      /\ TiersCounted(shedByTier', ledger')
  <2>1. "finished" \in Buckets \ {"shed", "queueRejected"} /\ "finished" \notin TierBuckets
    BY DEF Buckets, TierBuckets
  <2> QED BY <1>1, <1>3, <2>1, TallyPlain
<1>6. OnePlace(eventQ', Queued(queue'), stage', ledger')
  <2>1. /\ \A r \in S : stage[r] # "none"
        /\ \A r \in S : stage'[r] = "none" /\ ledger'[r] # {}
        /\ \A r \in Requests \ S : stage'[r] = stage[r] /\ ledger'[r] = ledger[r]
        /\ \A r \in Requests : Number(eventQ', Travels(r)) = Number(eventQ, Travels(r))
    BY <1>2, <1>3, <1>4, <1>5
  <2>2. OnePlace(eventQ', Queued(queue), stage', ledger')
    BY <1>3, <2>1, EndedGood
  <2> QED BY <1>2, <2>2
<1>7. /\ tracker \subseteq [req : Requests, at : Nat, inst : Instances]
      /\ Tracked(tracker, stage, on)
  BY InvParts
<1>8. tracker' \subseteq tracker /\ \A x \in tracker' : x.req \in Requests \ S
  BY <1>1, <1>7
<1>9. Tracked(tracker', stage', on') BY <1>4, <1>7, <1>8 DEF Tracked
<1>10. Evicting(eventQ', tracker', stage')
  <2>1. \A r \in Requests : Number(eventQ', Evictions(r)) = 0
    BY <1>2, NoEvictionNow
  <2> QED BY <2>1 DEF Evicting
<1>11. /\ clock' \in Nat /\ seqCounter' \in Nat /\ tickPending' \in BOOLEAN
       /\ dispatchTime' \in [Requests -> Nat] /\ routable' \subseteq Instances
       /\ tracker' \subseteq [req : Requests, at : Nat, inst : Instances]
       /\ Heap(eventQ', clock')
       /\ GoodQueue(queue', seqCounter') /\ queue'.panic = FALSE
       /\ OneTick(eventQ', queue'.totalLen, tickPending')
       /\ BucketsCounted(count', ledger', queue'.shedCount, queue'.rejectedCount)
  BY <1>2, <1>5, <1>7, <1>8, InvParts
<1> QED BY <1>2, <1>4, <1>5, <1>6, <1>9, <1>10, <1>11, InvAfter

(* A request of an instance goes on to its next stage there. *)
LEMMA MovesGood ==
  ASSUME GatewayInv, NEW r \in Requests, stage[r] # "none",
         NEW next \in {"waiting", "running"}, stage' = [stage EXCEPT ![r] = next],
         UNCHANGED <<conf, loopVars, gwVars, routable>>,
         UNCHANGED <<on, inFlight, tenantInFlight, tracker>>, NoTally
  PROVE  GatewayInv'
<1>1. /\ conf' = conf /\ clock' = clock /\ eventQ' = eventQ /\ queue' = queue
      /\ seqCounter' = seqCounter /\ tickPending' = tickPending
      /\ dispatchTime' = dispatchTime /\ routable' = routable
      /\ on' = on /\ inFlight' = inFlight
      /\ tenantInFlight' = tenantInFlight /\ tracker' = tracker
      /\ count' = count /\ shedByTier' = shedByTier /\ ledger' = ledger
  BY DEF loopVars, gwVars, NoTally, tallyVars
<1>2. /\ stage' \in [Requests -> {"none", "injected", "waiting", "running"}]
      /\ \A s \in Requests : stage'[s] = "none" <=> stage[s] = "none"
  <2>1. stage \in [Requests -> {"none", "injected", "waiting", "running"}]
    BY InvParts
  <2> QED BY <2>1
<1>3. OnePlace(eventQ', Queued(queue'), stage', ledger')
  <2>1. \A s \in Requests : One(stage'[s] # "none") = One(stage[s] # "none")
    BY <1>2 DEF One
  <2>2. OnePlace(eventQ, Queued(queue), stage, ledger) BY InvParts
  <2> QED BY <1>1, <2>1, <2>2 DEF OnePlace
<1>4. Placed(stage', on') /\ Tracked(tracker', stage', on')
  <2>1. /\ Placed(stage, on) /\ Tracked(tracker, stage, on)
        /\ tracker \subseteq [req : Requests, at : Nat, inst : Instances]
    BY InvParts
  <2> QED BY <1>1, <1>2, <2>1 DEF Placed, Tracked
<1>5. Evicting(eventQ', tracker', stage')
  <2>1. Evicting(eventQ, tracker, stage) BY InvParts
  <2> QED BY <1>1, <1>2, <2>1 DEF Evicting
<1>6. FlightsCounted(inFlight', stage', on')
      /\ TenantsCounted(conf.budgets, tenantInFlight', stage')
  <2>1. FlightsCounted(inFlight, stage, on)
        /\ TenantsCounted(conf.budgets, tenantInFlight, stage)
    BY InvParts
  <2>2. /\ \A i \in Instances : OnInstance(i, stage', on') = OnInstance(i, stage, on)
        /\ \A t \in Tenants : OfTenant(t, stage') = OfTenant(t, stage)
    BY <1>1, <1>2 DEF OnInstance, OfTenant
  <2> QED BY <1>1, <2>1, <2>2 DEF FlightsCounted, TenantsCounted
<1> QED BY <1>1, <1>2, <1>3, <1>4, <1>5, <1>6, InvParts, InvAfter

(* The events of an instance. *)
LEMMA InstanceQueuesGood ==
  ASSUME GatewayInv, NEW r \in Requests, InstanceQueues(r)
  PROVE  GatewayInv'
<1>1. /\ stage[r] # "none"
      /\ stage' = [stage EXCEPT ![r] = "waiting"]
      /\ UNCHANGED <<conf, loopVars, gwVars, routable>>
      /\ UNCHANGED <<on, inFlight, tenantInFlight, tracker>> /\ NoTally
  BY DEF InstanceQueues
<1> DEFINE next == "waiting"
<1>2. next \in {"waiting", "running"} /\ stage' = [stage EXCEPT ![r] = next]
  BY <1>1
<1> HIDE DEF next
<1> QED BY <1>1, <1>2, MovesGood

(* A step of an instance: requests complete, or one starts or is           *)
(* preempted.                                                              *)
LEMMA InstanceStepsGood ==
  ASSUME GatewayInv, NEW i \in Instances, InstanceSteps(i)
  PROVE  GatewayInv'
<1> DEFINE waiting == {r \in Requests : on[r] = i /\ stage[r] = "waiting"}
           running == {r \in Requests : on[r] = i /\ stage[r] = "running"}
<1>1. InstanceTurn /\ UNCHANGED <<conf, loopVars, gwVars, routable>>
  BY DEF InstanceSteps
<1>2. CASE \E S \in (SUBSET running) \ {{}} : Leave(i, S)
  <2>1. PICK S \in SUBSET running : Leave(i, S) BY <1>2
  <2>2. S \in SUBSET OnInstance(i, stage, on) BY DEF OnInstance
  <2> QED BY <1>1, <2>1, <2>2, LeaveGood
<1>3. CASE \E r \in waiting \cup running :
             /\ stage' = [stage EXCEPT ![r] =
                            IF r \in waiting THEN "running" ELSE "waiting"]
             /\ UNCHANGED <<on, inFlight, tenantInFlight, tracker>> /\ NoTally
  <2>1. PICK r \in waiting \cup running :
             /\ stage' = [stage EXCEPT ![r] =
                            IF r \in waiting THEN "running" ELSE "waiting"]
             /\ UNCHANGED <<on, inFlight, tenantInFlight, tracker>> /\ NoTally
    BY <1>3
  <2> DEFINE next == IF r \in waiting THEN "running" ELSE "waiting"
  <2>2. /\ r \in Requests /\ stage[r] # "none"
        /\ next \in {"waiting", "running"} /\ stage' = [stage EXCEPT ![r] = next]
    BY <2>1
  <2> HIDE DEF next, waiting, running
  <2> QED BY <1>1, <2>1, <2>2, MovesGood
<1> QED BY <1>2, <1>3 DEF InstanceSteps

(* An instance drops a request, or its client gives up on it. *)
LEMMA InstanceDiscardsGood ==
  ASSUME GatewayInv, NEW r \in Requests, InstanceDiscards(r)
  PROVE  GatewayInv'
<1> DEFINE i == on[r]
           S == {r}
<1>1. /\ InstanceTurn /\ stage[r] # "none" /\ Leave(i, S)
      /\ UNCHANGED <<conf, loopVars, gwVars, routable>>
  BY DEF InstanceDiscards
<1>2. i \in Instances BY <1>1, InvParts DEF Placed
<1>3. S \in SUBSET OnInstance(i, stage, on) BY <1>1 DEF OnInstance
<1> HIDE DEF i, S
<1> QED BY <1>1, <1>2, <1>3, LeaveGood

(* Every step, or none. *)
LEMMA StepGood ==
  ASSUME GatewayInv, [Next]_vars
  PROVE  GatewayInv'
<1>1. CASE InstanceLoaded BY <1>1, InstanceLoadedGood
<1>2. CASE ClusterArrival BY <1>2, ClusterArrivalGood
<1>3. CASE AdmissionRejects BY <1>3, AdmissionRejectsGood
<1>4. CASE AdmissionPasses BY <1>4, AdmissionPassesGood
<1>5. CASE QueueRejects BY <1>5, QueueRejectsGood
<1>6. CASE QueueAccepts BY <1>6, QueueAcceptsGood
<1>7. CASE RoutingRejects BY <1>7, RoutingRejectsGood
<1>8. ASSUME NEW i \in Instances, Route(i) PROVE GatewayInv' BY <1>8, RouteGood
<1>9. CASE GatewayEvicts BY <1>9, GatewayEvictsGood
<1>10. CASE EvictionMisses BY <1>10, EvictionMissesGood
<1>11. CASE TTLExpiry BY <1>11, TTLExpiryGood
<1>12. CASE DispatchTick BY <1>12, DispatchTickGood
<1>13. ASSUME NEW r \in Requests, InstanceQueues(r) PROVE GatewayInv'
  BY <1>13, InstanceQueuesGood
<1>14. ASSUME NEW r \in Requests, InstanceDiscards(r) PROVE GatewayInv'
  BY <1>14, InstanceDiscardsGood
<1>15. ASSUME NEW i \in Instances, InstanceSteps(i) PROVE GatewayInv'
  BY <1>15, InstanceStepsGood
<1>16. CASE UNCHANGED vars
  <2>1. /\ conf' = conf /\ clock' = clock /\ eventQ' = eventQ /\ queue' = queue
        /\ seqCounter' = seqCounter /\ tickPending' = tickPending
        /\ dispatchTime' = dispatchTime /\ routable' = routable
        /\ stage' = stage /\ on' = on /\ inFlight' = inFlight
        /\ tenantInFlight' = tenantInFlight /\ tracker' = tracker
        /\ count' = count /\ shedByTier' = shedByTier /\ ledger' = ledger
    BY <1>16 DEF vars, loopVars, gwVars, instVars, tallyVars
  <2> QED BY <2>1, InvParts, InvAfter
<1> QED BY <1>1, <1>2, <1>3, <1>4, <1>5, <1>6, <1>7, <1>8, <1>9, <1>10, <1>11, <1>12,
           <1>13, <1>14, <1>15, <1>16 DEF Next, Admission, Routing, Eviction, InstanceEvent

------------------------------
(* What follows from the invariant. *)

(* The invariant holds of every reachable state, whatever the arrivals,    *)
(* the configuration and the order of events.                              *)
THEOREM GatewayInvariant == Spec => []GatewayInv
<1>1. Init => GatewayInv BY InitGood
<1>2. GatewayInv /\ [Next]_vars => GatewayInv' BY StepGood
<1> QED BY <1>1, <1>2, PTL DEF Spec

(* The gateway queue is consistent and its panics are unreachable, and     *)
(* while anyone waits exactly one dispatch tick is on its way: no order of *)
(* enqueues, sheds, dispatches and expiries strands a request.             *)
THEOREM GatewayQueueSound == Spec => []QueueSound
<1>1. ASSUME GatewayInv PROVE QueueSound
  <2>1. /\ TypeOK /\ GoodQueue(queue, seqCounter) /\ queue.panic = FALSE
        /\ OneTick(eventQ, queue.totalLen, tickPending)
        /\ eventQ \in Seq(GoodEvents)
    BY <1>1, InvParts DEF Heap
  <2>2. QueueCountersExact BY <2>1, GoodIsConsistent DEF QueueCountersExact
  <2>3. QueueNeverPanics BY <2>1 DEF QueueNeverPanics
  <2>4. Pending("tick") = Holding(eventQ, Ticks)
    <3>1. \A k \in DOMAIN eventQ : eventQ[k] \in GoodEvents BY <2>1
    <3> QED BY <3>1 DEF Pending, Holding, Ticks
  <2>5. TickWhileWaiting
    BY <2>1, <2>4 DEF TickWhileWaiting, OneTick, Number, One
  <2> QED BY <2>1, <2>2, <2>3, <2>5 DEF QueueSound
<1> QED BY <1>1, GatewayInvariant, PTL

(* Every request is in one place of the pipeline or counted in one bucket, *)
(* and every counter, those by tier too, is the number of requests it      *)
(* stands for: nothing is lost and nothing is counted twice.               *)
THEOREM GatewayEndsCountedOnce == Spec => []EndsCountedOnce
<1>1. ASSUME GatewayInv PROVE EndsCountedOnce
  <2>1. /\ OnePlace(eventQ, Queued(queue), stage, ledger) /\ OneBucket(ledger)
        /\ BucketsCounted(count, ledger, queue.shedCount, queue.rejectedCount)
        /\ TiersCounted(shedByTier, ledger)
        /\ eventQ \in Seq(GoodEvents)
    BY <1>1, InvParts DEF Heap
  <2>2. ASSUME NEW r \in Requests
        PROVE  Cardinality({k \in DOMAIN eventQ :
                       /\ eventQ[k].kind \in {"arrival", "admission", "routing"}
                       /\ eventQ[k].req = r}) = Number(eventQ, Travels(r))
    <3>1. \A k \in DOMAIN eventQ : eventQ[k] \in GoodEvents BY <2>1
    <3>2. {k \in DOMAIN eventQ :
             /\ eventQ[k].kind \in {"arrival", "admission", "routing"}
             /\ eventQ[k].req = r} = Holding(eventQ, Travels(r))
      BY <3>1 DEF Holding, Travels
    <3> QED BY <3>2 DEF Number
  <2>3. ASSUME NEW r \in Requests
        PROVE  Cardinality(ledger[r]) = One(ledger[r] # {})
    <3>1. CASE ledger[r] = {} BY <3>1, FS_EmptySet DEF One
    <3>2. CASE ledger[r] # {}
      <4>1. PICK b \in Buckets : ledger[r] = {b} BY <2>1, <3>2 DEF OneBucket
      <4>2. Cardinality({b}) = 1 BY FS_Singleton
      <4> QED BY <3>2, <4>1, <4>2 DEF One
    <3> QED BY <3>1, <3>2
  <2>4. OneBucketEach
    BY SMTT(60), <2>1, <2>2, <2>3 DEF OneBucketEach, OnePlace, One, BucketsCounted, InBucket
  <2>5. ShedAccounting
    BY <2>1 DEF ShedAccounting, TiersCounted, InTier, TierBuckets
  <2> QED BY <2>4, <2>5 DEF EndsCountedOnce
<1> QED BY <1>1, GatewayInvariant, PTL

(* inFlightRequests, the tenants' counts and the eviction tracker agree    *)
(* with where the requests are, whichever way a request ends: the clamps   *)
(* at zero never hide a miscount and an eviction has a live target.        *)
THEOREM GatewayTrackersExact == Spec => []TrackersExact
<1>1. ASSUME GatewayInv PROVE TrackersExact
  <2>1. /\ FlightsCounted(inFlight, stage, on)
        /\ TenantsCounted(conf.budgets, tenantInFlight, stage)
        /\ Tracked(tracker, stage, on) /\ Evicting(eventQ, tracker, stage)
        /\ eventQ \in Seq(GoodEvents)
    BY <1>1, InvParts DEF Heap
  <2>2. InFlightExact BY <2>1 DEF InFlightExact, FlightsCounted, OnInstance
  <2>3. TenantCountExact BY <2>1 DEF TenantCountExact, TenantsCounted, OfTenant
  <2>4. ASSUME NEW k \in Pending("eviction")
        PROVE  /\ stage[eventQ[k].req] # "none" /\ IsSheddable(eventQ[k].req)
               /\ \A x \in tracker : x.req # eventQ[k].req
    <3>1. k \in DOMAIN eventQ /\ eventQ[k] \in GoodEvents /\ eventQ[k].kind = "eviction"
      BY <2>1 DEF Pending
    <3> DEFINE r == eventQ[k].req
    <3>2. r \in Requests /\ eventQ[k] \in Evictions(r)
      BY <3>1 DEF GoodEvents, Evictions
    <3> HIDE DEF r
    <3>3. Number(eventQ, Evictions(r)) \in Nat /\ Number(eventQ, Evictions(r)) # 0
      BY <2>1, <3>1, <3>2, NumberType
    <3>4. stage[r] # "none" /\ IsSheddable(r) /\ \A x \in tracker : x.req # r
      BY <2>1, <3>2, <3>3 DEF Evicting
    <3> QED BY <3>4 DEF r
  <2>5. TrackerSound BY <2>1, <2>4 DEF TrackerSound, Tracked
  <2> QED BY <2>2, <2>3, <2>5 DEF TrackersExact
<1> QED BY <1>1, GatewayInvariant, PTL

------------------------------
(* No inversion. *)

(* Only a dispatch gives a request that waits an event to be routed. *)
LEMMA OnlyDispatchRoutes ==
  ASSUME GatewayInv, GatewayInv', Next, NEW r \in Queued(queue),
         NEW k \in DOMAIN eventQ', eventQ'[k].kind = "routing", eventQ'[k].req = r
  PROVE  /\ r \in Requests /\ Number(eventQ, Travels(r)) = 0
         /\ Number(eventQ', Travels(r)) # 0
         /\ QueueAccepts \/ DispatchTick
<1>1. r \in Requests
  <2>1. queue \in Queues BY InvParts DEF GoodQueue
  <2> QED BY <2>1, EntryAt DEF Queued
<1>2. Number(eventQ, Travels(r)) = 0
  <2>1. OnePlace(eventQ, Queued(queue), stage, ledger) /\ eventQ \in Seq(GoodEvents)
    BY InvParts DEF Heap
  <2>2. Number(eventQ, Travels(r)) + One(r \in Queued(queue))
          + One(stage[r] # "none") + One(ledger[r] # {}) = 1
        /\ Number(eventQ, Travels(r)) \in Nat
    BY <1>1, <2>1, NumberType DEF OnePlace
  <2> QED BY <2>2 DEF One
<1>3. Number(eventQ', Travels(r)) \in Nat /\ Number(eventQ', Travels(r)) # 0
  <2>1. eventQ' \in Seq(GoodEvents) BY DEF GatewayInv, Heap
  <2>2. eventQ'[k] \in Travels(r)
    <3>1. eventQ'[k] \in GoodEvents BY <2>1
    <3> QED BY <3>1 DEF Travels
  <2> QED BY <2>1, <2>2, NumberType
<1>4. r \notin Queued(queue')
  <2>1. OnePlace(eventQ', Queued(queue'), stage', ledger') BY DEF GatewayInv
  <2>2. Number(eventQ', Travels(r)) + One(r \in Queued(queue'))
          + One(stage'[r] # "none") + One(ledger'[r] # {}) = 1
    BY <1>1, <2>1 DEF OnePlace
  <2> QED BY <1>3, <2>2 DEF One
<1>5. queue' # queue BY <1>4
<1>6. ~InstanceLoaded /\ ~ClusterArrival /\ ~AdmissionRejects /\ ~AdmissionPasses
  BY <1>5 DEF InstanceLoaded, ClusterArrival, AdmissionRejects, AdmissionPasses, gwVars
<1>7. ~RoutingRejects /\ ~(\E i \in Instances : Route(i))
      /\ ~GatewayEvicts /\ ~EvictionMisses
  BY <1>5 DEF RoutingRejects, Route, GatewayEvicts, EvictionMisses, gwVars
<1>8. ~InstanceEvent
  BY <1>5 DEF InstanceEvent, InstanceQueues, InstanceDiscards, InstanceSteps, gwVars
<1>9. ~QueueRejects
  <2> SUFFICES ASSUME QueueRejects PROVE FALSE OBVIOUS
  <2>1. Handle("admission") /\ eventQ' = Tail(eventQ) BY DEF QueueRejects
  <2>2. /\ Head(eventQ).req \notin Queued(queue)
        /\ \A s \in Requests \ {Head(eventQ).req} :
             Number(eventQ', Travels(s)) = Number(eventQ, Travels(s))
    BY <2>1, PopTravel
  <2>3. r # Head(eventQ).req BY <2>2
  <2> QED BY <1>1, <1>2, <1>3, <2>2, <2>3
<1>10. ~TTLExpiry
  <2> SUFFICES ASSUME TTLExpiry PROVE FALSE OBVIOUS
  <2>1. Handle("ttl") /\ eventQ' = Tail(eventQ) BY DEF TTLExpiry
  <2>2. \A s \in Requests : Number(eventQ', Travels(s)) = Number(eventQ, Travels(s))
    BY <2>1, PopOther
  <2> QED BY <1>1, <1>2, <1>3, <2>2
<1> QED BY <1>1, <1>2, <1>3, <1>6, <1>7, <1>8, <1>9, <1>10
        DEF Next, Admission, Routing, Eviction

(* It is then the most urgent that waits, and the first of its flow. *)
LEMMA NoInversionStep ==
  ASSUME GatewayInv, GatewayInv', Next, NEW r \in Queued(queue),
         NEW k \in DOMAIN eventQ', eventQ'[k].kind = "routing", eventQ'[k].req = r
  PROVE  /\ \A s \in Queued(queue') : Priority[s] <= Priority[r]
         /\ conf.order # "slo-deadline" =>
              \A pos \in Positions(queue) : At(queue, pos).req = r => pos.i = 1
<1>1. /\ r \in Requests /\ Number(eventQ, Travels(r)) = 0
      /\ Number(eventQ', Travels(r)) # 0
      /\ QueueAccepts \/ DispatchTick
  BY OnlyDispatchRoutes
<1>2. TypeOK /\ seqCounter \in Nat /\ GoodQueue(queue, seqCounter) BY InvParts
<1>3. CASE QueueAccepts
  <2> DEFINE h == Head(eventQ).req
             e == Enqueued(h)
             q == e.queue
             ev == WithTTL(Tail(eventQ), h)
  <2>1. Handle("admission") /\ e.outcome # "Rejected" BY <1>3 DEF QueueAccepts
  <2>2. PICK d \in TryDispatch(q, ev, tracker, clock') :
          queue' = d.queue /\ eventQ' = d.events
    BY <1>3 DEF QueueAccepts, Apply
  <2>3. /\ h \in Requests /\ h \notin Queued(queue) /\ clock' \in Nat
        /\ Head(eventQ).at \in Nat
        /\ Heap(Tail(eventQ), clock')
        /\ \A s \in Requests \ {h} :
             Number(Tail(eventQ), Travels(s)) = Number(eventQ, Travels(s))
    BY <2>1, PopTravel
  <2>4. clock' = Head(eventQ).at BY <2>1, PopTravel
  <2>5. /\ Heap(ev, clock')
        /\ \A s \in Requests : Number(ev, Travels(s)) = Number(Tail(eventQ), Travels(s))
    <3>1. CASE conf.ttl = 0
      <4>1. ev = Tail(eventQ) BY <3>1 DEF WithTTL
      <4> HIDE DEF ev, h
      <4> QED BY <2>3, <4>1
    <3>2. CASE conf.ttl # 0
      <4>1. ev = Push(Tail(eventQ), Event(clock' + conf.ttl, "ttl", h, NoInstance))
        BY <2>4, <3>2 DEF WithTTL
      <4>2. clock' + conf.ttl \in Nat /\ clock' + conf.ttl >= clock'
        BY <2>3, InvParts DEF ConfigType
      <4> HIDE DEF ev, h
      <4> QED BY <2>3, <4>1, <4>2, PushTTL
    <3> QED BY <3>1, <3>2
  <2>6. seqCounter + 1 \in Nat /\ seqCounter < seqCounter + 1 BY <1>2
  <2> DEFINE now == Head(eventQ).at
             n == seqCounter + 1
  <2>7. e = Enqueue(queue, conf, h, n, now) /\ now \in Nat /\ n \in Nat /\ seqCounter < n
    BY <2>3, <2>6 DEF Enqueued
  <2> HIDE DEF h, now, n, ev, e
  <2>8. r # h BY <2>3
  <2>9. GoodQueue(q, n) /\ Queued(q) = (Queued(queue) \ e.victims) \cup {h}
    <3>1. KeptGood(e, queue, n) /\ (e.outcome # "Rejected" => TakenIn(e, queue, h))
      BY <1>2, <2>3, <2>7, EnqueueGood
    <3> QED BY <2>1, <3>1 DEF KeptGood, TakenIn
  <2> HIDE DEF q
  <2>10. /\ \A s \in d.sent :
              /\ \A u \in Queued(q) : Priority[u] <= Priority[s]
              /\ conf.order # "slo-deadline" =>
                   \A x \in Positions(q) : At(q, x).req = s => x.i = 1
         /\ d.sent \subseteq Queued(q) /\ Queued(d.queue) = Queued(q) \ d.sent
         /\ \A s \in Requests \ d.sent :
              Number(d.events, Travels(s)) = Number(ev, Travels(s))
    BY <1>2, <2>2, <2>3, <2>5, <2>7, <2>9, DispatchGood
  <2>11. r \in d.sent BY <1>1, <2>2, <2>3, <2>5, <2>8, <2>10
  <2>12. \A s \in Queued(queue') : Priority[s] <= Priority[r]
    BY <2>2, <2>10, <2>11
  <2>13. ASSUME NEW pos \in Positions(queue), At(queue, pos).req = r,
                conf.order # "slo-deadline"
         PROVE  pos.i = 1
    <3>1. At(queue, pos).req \notin e.victims
      BY <2>8, <2>9, <2>10, <2>11, <2>13
    <3>2. pos \in Positions(q) /\ At(q, pos) = At(queue, pos)
      <4>1. pos \in Positions(e.queue) /\ At(e.queue, pos) = At(queue, pos)
        BY <1>2, <2>1, <2>3, <2>7, <3>1, EnqueueStays
      <4> QED BY <4>1 DEF q
    <3> QED BY <2>10, <2>11, <2>13, <3>2
  <2> QED BY <2>12, <2>13
<1>4. CASE DispatchTick
  <2> DEFINE rest == Tail(eventQ)
  <2>1. Handle("tick") BY <1>4 DEF DispatchTick
  <2>2. PICK d \in TryDispatch(queue, rest, tracker, clock') :
          /\ queue' = d.queue
          /\ \/ eventQ' = Push(d.events, Event(clock' + TickInterval, "tick",
                                               NoRequest, NoInstance))
             \/ eventQ' = d.events
    BY <1>4 DEF DispatchTick, Apply
  <2>3. /\ clock' \in Nat /\ Heap(rest, clock')
        /\ \A s \in Requests : Number(rest, Travels(s)) = Number(eventQ, Travels(s))
    BY <2>1, PopOther
  <2> HIDE DEF rest
  <2>4. /\ \A s \in d.sent :
             /\ \A u \in Queued(queue) : Priority[u] <= Priority[s]
             /\ conf.order # "slo-deadline" =>
                  \A x \in Positions(queue) : At(queue, x).req = s => x.i = 1
        /\ d.sent \subseteq Queued(queue) /\ Queued(d.queue) = Queued(queue) \ d.sent
        /\ \A s \in Requests \ d.sent :
             Number(d.events, Travels(s)) = Number(rest, Travels(s))
        /\ Heap(d.events, clock')
    BY <1>2, <2>2, <2>3, DispatchGood
  <2>5. Number(eventQ', Travels(r)) = Number(d.events, Travels(r))
    <3>1. CASE eventQ' = Push(d.events, Event(clock' + TickInterval, "tick",
                                              NoRequest, NoInstance))
      <4>1. TickInterval \in Nat BY GatewayAssumption
      <4>2. \A a, b \in Nat : a + b \in Nat /\ a + b >= a OBVIOUS
      <4>3. clock' + TickInterval \in Nat /\ clock' + TickInterval >= clock'
        BY <2>3, <4>1, <4>2
      <4> DEFINE out == d.events
      <4>4. Heap(out, clock')
            /\ eventQ' = Push(out, Event(clock' + TickInterval, "tick",
                                         NoRequest, NoInstance))
        BY <2>4, <3>1
      <4> HIDE DEF out
      <4>5. \A s \in Requests : Number(eventQ', Travels(s)) = Number(out, Travels(s))
        BY <2>3, <4>3, <4>4, PushTick
      <4> QED BY <1>1, <4>5 DEF out
    <3>2. CASE eventQ' = d.events BY <3>2
    <3> QED BY <2>2, <3>1, <3>2
  <2>6. r \in d.sent BY <1>1, <2>3, <2>4, <2>5
  <2> QED BY <2>2, <2>4, <2>6
<1> QED BY <1>1, <1>3, <1>4

(* A request that leaves the queue to be routed leaves none more urgent    *)
(* behind, unless the order is fifo, and none that came before it in its   *)
(* own flow, unless deadlines decide, whatever was shed or expired.        *)
THEOREM GatewayNoPriorityInversion == Spec => NoPriorityInversion
<1> DEFINE Kept ==
             \A r \in Queued(queue) :
               (\E k \in DOMAIN eventQ' : eventQ'[k].kind = "routing" /\ eventQ'[k].req = r) =>
                 /\ conf.order # "fifo" => \A s \in Queued(queue)' : Priority[s] <= Priority[r]
                 /\ conf.order # "slo-deadline" =>
                      \A pos \in Positions(queue) :
                        At(queue, pos).req = r => pos.i = 1
<1>1. GatewayInv /\ [Next]_vars => [Kept]_vars
  <2> SUFFICES ASSUME GatewayInv, Next, NEW r \in Queued(queue),
                      NEW k \in DOMAIN eventQ',
                      eventQ'[k].kind = "routing", eventQ'[k].req = r
               PROVE  /\ \A s \in Queued(queue') : Priority[s] <= Priority[r]
                      /\ conf.order # "slo-deadline" =>
                           \A pos \in Positions(queue) :
                             At(queue, pos).req = r => pos.i = 1
    OBVIOUS
  <2>1. GatewayInv' BY StepGood
  <2> QED BY <2>1, NoInversionStep
<1> HIDE DEF Kept
<1>2. Spec => [][Kept]_vars BY <1>1, GatewayInvariant, PTL DEF Spec
<1> QED BY <1>2 DEF NoPriorityInversion, Kept
=============================================================================
