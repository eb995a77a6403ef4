--------------------------- MODULE KVCacheProofs ---------------------------
(***************************************************************************)
(* Proofs about the KV cache for any number of blocks, any block size and  *)
(* any finite set of requests with any token sequences.                    *)
(*                                                                         *)
(* None of the properties is inductive alone: a released block must be     *)
(* free exactly when its last holder lets go (RefCountExact), the counts   *)
(* are exact only if a request never holds a block twice (Ownership), and  *)
(* that rests on the prefix index never naming one block for two hashes    *)
(* (IndexSound).  KVInv is their conjunction.                              *)
(*                                                                         *)
(* What the blocks hold, ContentKept, and with it PopNeverFails and, for   *)
(* prompts that end inside a block, AllocationSound, rest on KVInv and on  *)
(* two further inductive invariants, in the second half.  RoomInv says     *)
(* that a block with room left has one holder and that the blocks a        *)
(* checked allocation still has to take are there; ContentInv says which   *)
(* part of a request's sequence each of its blocks holds, and under which  *)
(* hash.                                                                   *)
(***************************************************************************)
EXTENDS KVCache, TLAPS, FiniteSetTheorems, SequenceTheorems

Distinct(s) == \A i, j \in 1 .. Len(s) : s[i] = s[j] => i = j

(* Who holds which blocks: a request never holds a block twice, a request  *)
(* that is not running holds none but those being released, and the cached *)
(* blocks a call has yet to claim are new to its request.                  *)
Ownership ==
  /\ \A r \in Requests : Distinct(requestMap[r])
  /\ \A r \in Requests \ running : requestMap[r] = <<>>
  /\ call.op = "alloc" =>
       /\ call.req \in running
       /\ Distinct(call.cached)
       /\ RangeOf(call.cached) \cap RangeOf(requestMap[call.req]) = {}
       /\ call.pos <= call.end
       /\ call.end <= Len(Sequence(call.req))
  /\ call.op = "release" =>
       /\ call.req \notin running
       /\ Distinct(call.left)

(* Only full blocks are registered. *)
IndexFull ==
  \A h \in DOMAIN hashToBlock : Len(tokens[hashToBlock[h]]) = BlockSize

KVInv ==
  /\ TypeOK
  /\ Conservation
  /\ IndexSound
  /\ IndexFull
  /\ Ownership
  /\ RefCountExact

------------------------------
(* Sequences of distinct blocks. *)

(* Append, as the claim and pop loops extend a request's block list. *)
LEMMA AppendDistinct ==
  ASSUME NEW S, NEW s \in Seq(S), NEW x \in S
  PROVE  /\ Append(s, x) \in Seq(S)
         /\ Len(Append(s, x)) = Len(s) + 1
         /\ RangeOf(Append(s, x)) = RangeOf(s) \cup {x}
         /\ Distinct(s) /\ x \notin RangeOf(s) => Distinct(Append(s, x))
BY DEF RangeOf, Distinct

(* Tail, as popFreeBlock takes the head of the free list. *)
LEMMA TailDistinct ==
  ASSUME NEW S, NEW s \in Seq(S), s # <<>>
  PROVE  /\ Tail(s) \in Seq(S)
         /\ Len(Tail(s)) = Len(s) - 1
         /\ Head(s) \in S /\ Head(s) \in RangeOf(s)
         /\ Distinct(s) => /\ Distinct(Tail(s))
                           /\ RangeOf(Tail(s)) = RangeOf(s) \ {Head(s)}
<1>1. /\ Tail(s) \in Seq(S) /\ Len(Tail(s)) = Len(s) - 1
      /\ \A i \in 1 .. Len(s) - 1 : Tail(s)[i] = s[i + 1]
      /\ Head(s) = s[1] /\ Len(s) >= 1
  OBVIOUS
<1>2. Head(s) \in S /\ Head(s) \in RangeOf(s) BY <1>1 DEF RangeOf
<1>3. ASSUME Distinct(s)
      PROVE  Distinct(Tail(s)) /\ RangeOf(Tail(s)) = RangeOf(s) \ {Head(s)}
  <2>1. Distinct(Tail(s)) BY <1>1, <1>3 DEF Distinct
  <2>2. ASSUME NEW y \in RangeOf(Tail(s))
        PROVE  y \in RangeOf(s) \ {Head(s)}
    <3>1. PICK i \in 1 .. Len(s) - 1 : y = s[i + 1] BY <1>1, <2>2 DEF RangeOf
    <3>2. QED BY <3>1, <1>1, <1>3 DEF RangeOf, Distinct
  <2>3. ASSUME NEW y \in RangeOf(s) \ {Head(s)}
        PROVE  y \in RangeOf(Tail(s))
    <3>1. PICK i \in 1 .. Len(s) : y = s[i] BY <2>3 DEF RangeOf
    <3>2. i # 1 /\ i - 1 \in 1 .. Len(s) - 1 /\ Tail(s)[i - 1] = y
      BY <3>1, <2>3, <1>1
    <3>3. QED BY <3>2, <1>1 DEF RangeOf
  <2>4. QED BY <2>1, <2>2, <2>3
<1>4. QED BY <1>1, <1>2, <1>3

(* The first n elements of a sequence. *)
LEMMA PrefixOfSeq ==
  ASSUME NEW S, NEW s \in Seq(S), NEW n \in Nat, n <= Len(s)
  PROVE  /\ SubSeq(s, 1, n) \in Seq(S)
         /\ Len(SubSeq(s, 1, n)) = n
         /\ \A i \in 1 .. n : SubSeq(s, 1, n)[i] = s[i]
OBVIOUS

(* All but the last element, as ReleaseKVBlocks walks a list backwards. *)
LEMMA FrontDistinct ==
  ASSUME NEW S, NEW s \in Seq(S), s # <<>>
  PROVE  /\ SubSeq(s, 1, Len(s) - 1) \in Seq(S)
         /\ Last(s) \in S /\ Last(s) \in RangeOf(s)
         /\ Distinct(s) => /\ Distinct(SubSeq(s, 1, Len(s) - 1))
                           /\ RangeOf(SubSeq(s, 1, Len(s) - 1)) = RangeOf(s) \ {Last(s)}
<1> DEFINE f == SubSeq(s, 1, Len(s) - 1)
<1>1. /\ f \in Seq(S) /\ Len(f) = Len(s) - 1
      /\ \A i \in 1 .. Len(s) - 1 : f[i] = s[i]
      /\ Last(s) = s[Len(s)] /\ Len(s) >= 1 /\ Len(s) \in Nat
  <2>1. Len(s) >= 1 /\ Len(s) - 1 \in Nat /\ Len(s) - 1 <= Len(s) OBVIOUS
  <2>2. /\ f \in Seq(S) /\ Len(f) = Len(s) - 1
        /\ \A i \in 1 .. Len(s) - 1 : f[i] = s[i]
    BY <2>1, PrefixOfSeq, Zenon
  <2>3. QED BY <2>1, <2>2 DEF Last
<1>2. Last(s) \in S /\ Last(s) \in RangeOf(s) BY <1>1 DEF RangeOf
<1>3. ASSUME Distinct(s)
      PROVE  Distinct(f) /\ RangeOf(f) = RangeOf(s) \ {Last(s)}
  <2>1. Distinct(f) BY <1>1, <1>3 DEF Distinct
  <2>2. ASSUME NEW y \in RangeOf(f)
        PROVE  y \in RangeOf(s) \ {Last(s)}
    <3>1. PICK i \in 1 .. Len(s) - 1 : y = s[i] BY <1>1, <2>2 DEF RangeOf
    <3>2. QED BY <3>1, <1>1, <1>3 DEF RangeOf, Distinct
  <2>3. ASSUME NEW y \in RangeOf(s) \ {Last(s)}
        PROVE  y \in RangeOf(f)
    <3>1. PICK i \in 1 .. Len(s) : y = s[i] BY <2>3 DEF RangeOf
    <3>2. i \in 1 .. Len(s) - 1 /\ f[i] = y BY <3>1, <2>3, <1>1
    <3>3. QED BY <3>2, <1>1 DEF RangeOf
  <2>4. QED BY <2>1, <2>2, <2>3
<1>4. QED BY <1>1, <1>2, <1>3

(* removeFromFreeList takes out exactly the block it is given. *)
LEMMA DetachDistinct ==
  ASSUME NEW S, NEW s \in Seq(S), NEW b \in RangeOf(s), Distinct(s)
  PROVE  /\ Detach(s, b) \in Seq(S)
         /\ Len(Detach(s, b)) = Len(s) - 1
         /\ Len(s) >= 1
         /\ Distinct(Detach(s, b))
         /\ RangeOf(Detach(s, b)) = RangeOf(s) \ {b}
<1> DEFINE k == CHOOSE i \in 1 .. Len(s) : s[i] = b
           d == Detach(s, b)
<1>1. k \in 1 .. Len(s) /\ s[k] = b /\ Len(s) \in Nat /\ Len(s) >= 1
  BY DEF RangeOf
<1>2. d = [i \in 1 .. Len(s) - 1 |-> IF i < k THEN s[i] ELSE s[i + 1]]
  BY DEF Detach
<1> HIDE DEF k, d
<1>3. d \in Seq(S) /\ Len(d) = Len(s) - 1
      /\ \A i \in 1 .. Len(s) - 1 : d[i] = IF i < k THEN s[i] ELSE s[i + 1]
  <2>1. \A i \in 1 .. Len(s) - 1 : (IF i < k THEN s[i] ELSE s[i + 1]) \in S
    BY <1>1
  <2>2. QED BY <1>1, <1>2, <2>1, IsASeq
<1>4. Distinct(d) BY SMTT(60), <1>1, <1>3 DEF Distinct
<1>5. ASSUME NEW y \in RangeOf(d) PROVE y \in RangeOf(s) \ {b}
  <2>1. PICK i \in 1 .. Len(s) - 1 : y = d[i] BY <1>3, <1>5 DEF RangeOf
  <2>2. CASE i < k BY SMTT(60), <2>1, <2>2, <1>1, <1>3 DEF RangeOf, Distinct
  <2>3. CASE ~(i < k)
    <3>1. y = s[i + 1] /\ i + 1 \in 1 .. Len(s) /\ i + 1 # k
      BY <2>1, <2>3, <1>1, <1>3
    <3>2. QED BY <3>1, <1>1 DEF RangeOf, Distinct
  <2>4. QED BY <2>2, <2>3
<1>6. ASSUME NEW y \in RangeOf(s) \ {b} PROVE y \in RangeOf(d)
  <2>1. PICK i \in 1 .. Len(s) : y = s[i] BY <1>6 DEF RangeOf
  <2>2. i # k BY <2>1, <1>1, <1>6
  <2>3. CASE i < k BY SMTT(60), <2>1, <2>3, <1>1, <1>3 DEF RangeOf
  <2>4. CASE i > k
    <3>1. i - 1 \in 1 .. Len(s) - 1 /\ d[i - 1] = y BY <2>1, <2>4, <1>1, <1>3
    <3>2. QED BY <3>1, <1>3 DEF RangeOf
  <2>5. QED BY <2>2, <2>3, <2>4, <1>1
<1>7. QED BY <1>1, <1>3, <1>4, <1>5, <1>6 DEF d

------------------------------
(* The new cache satisfies the invariant. *)
LEMMA InitKVInv == Init => KVInv
<1> SUFFICES ASSUME Init PROVE KVInv OBVIOUS
<1> USE KVAssumption DEF Init
<1>1. Blocks \subseteq Nat /\ \A i \in 1 .. NumBlocks : i - 1 \in Blocks
  BY DEF Blocks
<1>2. freeList \in Seq(Blocks) /\ Len(freeList) = NumBlocks
      /\ \A i \in 1 .. NumBlocks : freeList[i] = i - 1
  BY <1>1, IsASeq
<1>3. call.op = "idle" /\ DOMAIN hashToBlock = {} BY DEF Idle
<1>4. TypeOK BY <1>1, <1>2, <1>3 DEF TypeOK, Calls, NoHash
<1>5. Conservation
  <2>1. ASSUME NEW b \in Blocks PROVE b \in RangeOf(freeList)
    BY <1>2, b + 1 \in 1 .. NumBlocks DEF RangeOf, Blocks
  <2>2. RangeOf(freeList) \subseteq Blocks BY <1>1, <1>2 DEF RangeOf
  <2>3. QED BY <1>2, <2>1, <2>2 DEF Conservation
<1>6. IndexSound /\ IndexFull BY <1>3 DEF IndexSound, IndexFull
<1>7. Ownership BY <1>3 DEF Ownership, Distinct
<1>8. RefCountExact
  <2>1. \A r \in Requests : Held(r) = {} BY <1>3 DEF Held, RangeOf
  <2>2. \A b \in Blocks : Holders(b) = {} BY <2>1 DEF Holders
  <2>3. \A b \in Blocks : Cardinality(Holders(b)) = 0 BY <2>2, FS_EmptySet
  <2>4. \A b \in Blocks : refCount[b] = 0 /\ inUse[b] = FALSE OBVIOUS
  <2>5. QED BY <2>3, <2>4 DEF RefCountExact
<1>9. QED BY <1>4, <1>5, <1>6, <1>7, <1>8 DEF KVInv

------------------------------
(* Calls that only start or end leave the pool as it is. *)
LEMMA PoolUnchanged ==
  ASSUME KVInv, UNCHANGED poolVars
  PROVE  Conservation' /\ IndexSound' /\ IndexFull'
BY DEF KVInv, Conservation, IndexSound, IndexFull, poolVars, RangeOf

(* If every request holds the same blocks the counts stay exact. *)
LEMMA HoldersUnchanged ==
  ASSUME KVInv, UNCHANGED <<refCount, inUse>>,
         \A r \in Requests : Held(r)' = Held(r)
  PROVE  RefCountExact'
<1>1. ASSUME NEW b \in Blocks
      PROVE  Holders(b)' = Holders(b)
  BY DEF Holders
<1>2. QED BY <1>1 DEF KVInv, RefCountExact

(* During an allocation a request holds what the map says. *)
LEMMA HeldIsMapped ==
  ASSUME NEW r \in Requests, call.op # "release"
  PROVE  Held(r) = RangeOf(requestMap[r])
BY DEF Held

LEMMA AllocCallType ==
  ASSUME call \in Calls, call.op = "alloc"
  PROVE  call \in [op : {"alloc"}, req : Requests, pos : Nat, end : Nat,
                   cached : Seq(Blocks), final : BOOLEAN]
BY DEF Calls, Idle

LEMMA ReleaseCallType ==
  ASSUME call \in Calls, call.op = "release"
  PROVE  call \in [op : {"release"}, req : Requests, left : Seq(Blocks)]
BY DEF Calls, Idle

(* A token sequence and its parts. *)
LEMMA SequenceType ==
  ASSUME NEW r \in Requests
  PROVE  /\ Sequence(r) \in Seq(Tokens)
         /\ InputLen(r) \in Nat /\ InputLen(r) > 0
         /\ Len(Sequence(r)) = InputLen(r) + Len(OutputTokens[r])
         /\ Len(OutputTokens[r]) \in Nat
BY KVAssumption DEF Sequence, InputLen

(* The blocks a lookup returns are blocks, and no block is returned twice. *)
LEMMA CachedDistinct ==
  ASSUME KVInv, NEW s, NEW n \in PrefixHits(s)
  PROVE  /\ CachedBlocks(s, n) \in Seq(Blocks)
         /\ Distinct(CachedBlocks(s, n))
<1>1. n \in Nat /\ \A i \in 1 .. n : Chain(s, i) \in DOMAIN hashToBlock
  BY DEF PrefixHits
<1>2. \A i \in 1 .. n : hashToBlock[Chain(s, i)] \in Blocks
  BY <1>1 DEF KVInv, TypeOK
<1>3. CachedBlocks(s, n) \in Seq(Blocks) /\ Len(CachedBlocks(s, n)) = n
      /\ \A i \in 1 .. n : CachedBlocks(s, n)[i] = hashToBlock[Chain(s, i)]
  BY <1>1, <1>2, IsASeq DEF CachedBlocks
<1>4. ASSUME NEW i \in 1 .. n, NEW j \in 1 .. n,
             hashToBlock[Chain(s, i)] = hashToBlock[Chain(s, j)]
      PROVE  i = j
  <2>1. Chain(s, i) = Chain(s, j) BY <1>1, <1>4 DEF KVInv, IndexSound
  <2>2. DOMAIN Chain(s, i) = 1 .. i /\ DOMAIN Chain(s, j) = 1 .. j BY DEF Chain
  <2>3. QED BY <2>1, <2>2, <1>1
<1>5. QED BY <1>3, <1>4 DEF Distinct

------------------------------
(* Ownership while an allocation is in progress, from its parts. *)
LEMMA AllocOwnership ==
  ASSUME NEW r \in Requests, NEW cached,
         call'.op = "alloc", call'.req = r, call'.cached = cached,
         r \in running',
         Distinct(cached),
         RangeOf(cached) \cap RangeOf(requestMap'[r]) = {},
         call'.pos <= call'.end, call'.end <= Len(Sequence(r)),
         \A q \in Requests : Distinct(requestMap'[q]),
         \A q \in Requests \ running' : requestMap'[q] = <<>>
  PROVE  Ownership'
<1>1. RangeOf(call.cached)' = RangeOf(cached) BY DEF RangeOf
<1>2. RangeOf(requestMap[call.req])' = RangeOf(requestMap'[r]) BY DEF RangeOf
<1>3. Distinct(call.cached)' /\ \A q \in Requests : Distinct(requestMap[q])'
  BY DEF Distinct
<1>4. Len(Sequence(call.req))' = Len(Sequence(r)) BY DEF Sequence
<1>5. QED BY <1>1, <1>2, <1>3, <1>4 DEF Ownership

(* Batch formation starts an allocation: the pool is untouched, and the    *)
(* new call is one whose cached blocks its request does not hold.          *)
LEMMA StartAllocate ==
  ASSUME KVInv, call = Idle, UNCHANGED <<poolVars, progress>>,
         NEW r \in Requests, NEW pos \in Nat, NEW end \in Nat,
         NEW cached \in Seq(Blocks), NEW final \in BOOLEAN,
         pos <= end, end <= Len(Sequence(r)),
         Distinct(cached),
         RangeOf(cached) \cap RangeOf(requestMap[r]) = {},
         call' = AllocCall(r, pos, end, cached, final),
         running' = running \cup {r}
  PROVE  KVInv'
<1>1. /\ call'.op = "alloc" /\ call'.req = r /\ call'.cached = cached
      /\ call'.pos = pos /\ call'.end = end
  BY DEF AllocCall
<1>2. call' \in Calls BY DEF AllocCall, Calls
<1>3. TypeOK' BY <1>2 DEF KVInv, TypeOK, poolVars
<1>4. Conservation' /\ IndexSound' /\ IndexFull' BY PoolUnchanged
<1>5. Ownership'
  <2>1. requestMap' = requestMap BY DEF poolVars
  <2>2. \A q \in Requests : Distinct(requestMap'[q])
    BY <2>1 DEF KVInv, Ownership
  <2>3. \A q \in Requests \ running' : requestMap'[q] = <<>>
    BY <2>1 DEF KVInv, Ownership
  <2>4. QED BY <1>1, <2>1, <2>2, <2>3, AllocOwnership
<1>6. RefCountExact'
  <2>1. \A q \in Requests : Held(q)' = Held(q)
    BY <1>1 DEF Held, Idle, RangeOf, poolVars
  <2>2. QED BY <2>1, HoldersUnchanged DEF poolVars
<1>7. QED BY <1>3, <1>4, <1>5, <1>6 DEF KVInv

LEMMA AdmitKVInv ==
  ASSUME KVInv, NEW r \in Requests, Admit(r)
  PROVE  KVInv'
<1>1. PICK n \in PrefixHits(InputTokens[r]) :
        \E end \in n * BlockSize .. InputLen(r) :
           call' = AllocCall(r, n * BlockSize, end,
                             CachedBlocks(InputTokens[r], n), FALSE)
  BY DEF Admit
<1>2. PICK end \in n * BlockSize .. InputLen(r) :
        call' = AllocCall(r, n * BlockSize, end,
                          CachedBlocks(InputTokens[r], n), FALSE)
  BY <1>1
<1>3. n \in Nat /\ BlockSize \in Nat BY KVAssumption DEF PrefixHits
<1>4. n * BlockSize \in Nat BY <1>3
<1>5. end \in Nat /\ n * BlockSize <= end /\ end <= Len(Sequence(r))
  BY SMTT(60), <1>2, <1>4, SequenceType
<1>6. /\ CachedBlocks(InputTokens[r], n) \in Seq(Blocks)
      /\ Distinct(CachedBlocks(InputTokens[r], n))
  BY CachedDistinct
<1>7. requestMap[r] = <<>> /\ RangeOf(requestMap[r]) = {}
  BY DEF KVInv, Ownership, Admit, RangeOf
<1>8. QED BY <1>2, <1>4, <1>5, <1>6, <1>7, StartAllocate DEF Admit

(* A request that runs asks for more: the next chunk of its prompt or one  *)
(* output token.                                                           *)
LEMMA ExtendKVInv ==
  ASSUME KVInv, call = Idle, UNCHANGED <<poolVars, progress, running>>,
         NEW r \in running, NEW end \in Nat, NEW final \in BOOLEAN,
         progress[r] <= end, end <= Len(Sequence(r)),
         call' = AllocCall(r, progress[r], end, <<>>, final)
  PROVE  KVInv'
<1>1. r \in Requests /\ progress[r] \in Nat BY DEF KVInv, TypeOK
<1>2. <<>> \in Seq(Blocks) /\ Distinct(<<>>) /\ RangeOf(<<>>) = {}
  BY DEF Distinct, RangeOf
<1>3. running' = running \cup {r} OBVIOUS
<1>4. RangeOf(<<>>) \cap RangeOf(requestMap[r]) = {} BY <1>2
<1>5. QED BY <1>1, <1>2, <1>3, <1>4, StartAllocate

LEMMA ContinuePrefillKVInv ==
  ASSUME KVInv, NEW r \in Requests, ContinuePrefill(r)
  PROVE  KVInv'
<1>1. PICK end \in progress[r] + 1 .. InputLen(r) :
        call' = AllocCall(r, progress[r], end, <<>>, FALSE)
  BY DEF ContinuePrefill
<1>2. progress[r] \in Nat BY DEF KVInv, TypeOK
<1>3. /\ InputLen(r) \in Nat /\ Len(OutputTokens[r]) \in Nat
      /\ Len(Sequence(r)) = InputLen(r) + Len(OutputTokens[r])
  BY SequenceType
<1>4. end \in Nat /\ progress[r] <= end /\ end <= Len(Sequence(r))
  BY <1>1, <1>2, <1>3
<1>5. QED BY <1>1, <1>4, ExtendKVInv DEF ContinuePrefill

LEMMA DecodeKVInv ==
  ASSUME KVInv, NEW r \in Requests, Decode(r)
  PROVE  KVInv'
<1>1. progress[r] \in Nat BY DEF KVInv, TypeOK
<1>2. progress[r] + 1 <= Len(Sequence(r))
  <2>1. InputLen(r) <= progress[r] /\ progress[r] < CompletionProgress(r)
    BY DEF Decode
  <2>2. CASE OutputTokens[r] = <<>>
    BY <1>1, <2>1, <2>2, SequenceType DEF CompletionProgress
  <2>3. CASE OutputTokens[r] # <<>>
    BY <1>1, <2>1, <2>3, SequenceType DEF CompletionProgress
  <2>4. QED BY <2>2, <2>3
<1>3. progress[r] + 1 \in Nat /\ progress[r] <= progress[r] + 1 BY <1>1
<1>4. QED BY <1>2, <1>3, ExtendKVInv DEF Decode

(* A release starts: the request's blocks move from the map to the call,   *)
(* so everybody holds what it held.                                        *)
LEMMA StartReleaseKVInv ==
  ASSUME KVInv, NEW r \in running, call.op # "release", StartRelease(r)
  PROVE  KVInv'
<1>0. r \in Requests /\ requestMap[r] \in Seq(Blocks) BY DEF KVInv, TypeOK
<1>1. call'.op = "release" /\ call'.req = r /\ call'.left = requestMap[r]
  BY DEF StartRelease, ReleaseCall
<1>2. call' \in Calls BY <1>0 DEF StartRelease, ReleaseCall, Calls
<1>3. requestMap' \in [Requests -> Seq(Blocks)] /\ requestMap'[r] = <<>>
      /\ \A q \in Requests \ {r} : requestMap'[q] = requestMap[q]
  BY <1>0 DEF KVInv, TypeOK, StartRelease
<1>4. TypeOK' BY <1>0, <1>2, <1>3 DEF KVInv, TypeOK, StartRelease
<1>5. Conservation' /\ IndexSound' /\ IndexFull'
  BY DEF KVInv, Conservation, IndexSound, IndexFull, StartRelease, RangeOf
<1>6. Ownership'
  <2>1. \A q \in Requests : Distinct(requestMap'[q])
    BY <1>3 DEF KVInv, Ownership, Distinct
  <2>2. \A q \in Requests \ running' : requestMap'[q] = <<>>
    BY <1>3 DEF KVInv, Ownership, StartRelease
  <2>3. call'.req \notin running' /\ Distinct(call'.left)
    BY <1>0, <1>1 DEF KVInv, Ownership, StartRelease
  <2>4. QED BY <1>1, <2>1, <2>2, <2>3 DEF Ownership, Distinct
<1>7. RefCountExact'
  <2>1. ASSUME NEW q \in Requests PROVE Held(q)' = Held(q)
    <3>1. CASE q = r
      <4>1. RangeOf(requestMap[q])' = {} BY <3>1, <1>3 DEF RangeOf
      <4>2. RangeOf(call.left)' = RangeOf(requestMap[q])
        BY <3>1, <1>1 DEF RangeOf
      <4>3. Held(q)' = RangeOf(requestMap[q])
        BY <3>1, <4>1, <4>2, <1>1 DEF Held
      <4>4. Held(q) = RangeOf(requestMap[q]) BY HeldIsMapped
      <4>5. QED BY <4>3, <4>4
    <3>2. CASE q # r
      <4>1. RangeOf(requestMap[q])' = RangeOf(requestMap[q])
        BY <3>2, <1>3 DEF RangeOf
      <4>2. QED BY <3>2, <4>1, <1>1 DEF Held
    <3>3. QED BY <3>1, <3>2
  <2>2. QED BY <2>1, HoldersUnchanged DEF StartRelease
<1>8. QED BY <1>4, <1>5, <1>6, <1>7 DEF KVInv

LEMMA CompleteKVInv ==
  ASSUME KVInv, NEW r \in Requests, Complete(r)
  PROVE  KVInv'
<1>1. call.op # "release" /\ r \in running /\ progress[r] \in Nat
  BY DEF Complete, Idle, KVInv, TypeOK
<1>2. CASE /\ progress[r] < Len(Sequence(r))
           /\ call' = AllocCall(r, progress[r], progress[r] + 1, <<>>, TRUE)
           /\ UNCHANGED <<poolVars, progress, running>>
  <2>1. progress[r] + 1 \in Nat /\ progress[r] <= progress[r] + 1
        /\ progress[r] + 1 <= Len(Sequence(r))
    BY <1>1, <1>2, SequenceType
  <2>2. QED BY <1>1, <1>2, <2>1, ExtendKVInv DEF Complete
<1>3. CASE StartRelease(r) BY <1>1, <1>3, StartReleaseKVInv
<1>4. QED BY <1>2, <1>3 DEF Complete

LEMMA WithdrawKVInv ==
  ASSUME KVInv, NEW r \in Requests, Withdraw(r)
  PROVE  KVInv'
<1>1. call.op # "release" /\ r \in running /\ StartRelease(r)
  BY DEF Withdraw, Idle
<1>2. QED BY <1>1, StartReleaseKVInv

------------------------------
(* The holders of a block are finitely many. *)
LEMMA HoldersFinite ==
  ASSUME NEW b
  PROVE  IsFiniteSet(Holders(b)) /\ Cardinality(Holders(b)) \in Nat
<1>1. Holders(b) \subseteq Requests BY DEF Holders
<1>2. QED BY <1>1, KVAssumption, FS_Subset, FS_CardinalityType

(* One request takes hold of one block, everything else as before. *)
LEMMA HolderAdded ==
  ASSUME KVInv, NEW r \in Requests, NEW b \in Blocks, b \notin Held(r),
         Held(r)' = Held(r) \cup {b},
         \A q \in Requests \ {r} : Held(q)' = Held(q)
  PROVE  /\ Cardinality(Holders(b))' = Cardinality(Holders(b)) + 1
         /\ \A c \in Blocks \ {b} : Holders(c)' = Holders(c)
<1>1. Holders(b)' = Holders(b) \cup {r} /\ r \notin Holders(b) BY DEF Holders
<1>2. Cardinality(Holders(b) \cup {r}) = Cardinality(Holders(b)) + 1
  BY <1>1, HoldersFinite, FS_AddElement
<1>3. \A c \in Blocks \ {b} : Holders(c)' = Holders(c) BY DEF Holders
<1>4. QED BY <1>1, <1>2, <1>3

(* One request lets go of one block. *)
LEMMA HolderRemoved ==
  ASSUME KVInv, NEW r \in Requests, NEW b \in Blocks, b \in Held(r),
         Held(r)' = Held(r) \ {b},
         \A q \in Requests \ {r} : Held(q)' = Held(q)
  PROVE  /\ Cardinality(Holders(b))' = Cardinality(Holders(b)) - 1
         /\ Cardinality(Holders(b)) > 0
         /\ \A c \in Blocks \ {b} : Holders(c)' = Holders(c)
<1>1. Holders(b)' = Holders(b) \ {r} /\ r \in Holders(b) BY DEF Holders
<1>2. Cardinality(Holders(b) \ {r}) = Cardinality(Holders(b)) - 1
  BY <1>1, HoldersFinite, FS_RemoveElement
<1>3. Cardinality(Holders(b)) > 0
  <2>1. Holders(b) # {} BY <1>1
  <2>2. QED BY <2>1, HoldersFinite, FS_EmptySet
<1>4. \A c \in Blocks \ {b} : Holders(c)' = Holders(c) BY DEF Holders
<1>5. QED BY <1>1, <1>2, <1>3, <1>4

LEMMA ClaimCachedKVInv ==
  ASSUME KVInv, ClaimCached
  PROVE  KVInv'
<1>0. /\ call \in [op : {"alloc"}, req : Requests, pos : Nat, end : Nat,
                   cached : Seq(Blocks), final : BOOLEAN]
      /\ call.op = "alloc" /\ call.cached # <<>> /\ call.req \in Requests
      /\ Head(call.cached) \in Blocks
  BY AllocCallType DEF ClaimCached, KVInv, TypeOK
<1> PICK r \in Requests : r = call.req BY <1>0
<1> PICK b \in Blocks : b = Head(call.cached) BY <1>0
<1>1. call.op = "alloc" /\ call.cached \in Seq(Blocks) /\ call.cached # <<>>
  BY <1>0
<1>2. /\ Tail(call.cached) \in Seq(Blocks)
      /\ b \in RangeOf(call.cached)
      /\ Distinct(Tail(call.cached))
      /\ RangeOf(Tail(call.cached)) = RangeOf(call.cached) \ {b}
  BY <1>1, TailDistinct DEF KVInv, Ownership
<1>3. /\ call' \in [op : {"alloc"}, req : Requests, pos : Nat, end : Nat,
                    cached : Seq(Blocks), final : BOOLEAN]
      /\ call'.op = "alloc" /\ call'.req = r /\ call'.cached = Tail(call.cached)
      /\ call'.pos = call.pos /\ call'.end = call.end
  BY <1>0, <1>2 DEF ClaimCached
<1>4. requestMap[r] \in Seq(Blocks) /\ b \notin RangeOf(requestMap[r])
      /\ Distinct(requestMap[r])
  BY <1>1, <1>2 DEF KVInv, TypeOK, Ownership
<1>5. /\ requestMap' \in [Requests -> Seq(Blocks)]
      /\ requestMap'[r] = Append(requestMap[r], b)
      /\ \A q \in Requests \ {r} : requestMap'[q] = requestMap[q]
  <2>1. Append(requestMap[r], b) \in Seq(Blocks) BY <1>2, <1>4
  <2>2. requestMap' = [requestMap EXCEPT ![r] = Append(@, b)]
    BY DEF ClaimCached
  <2>3. QED BY <1>1, <2>1, <2>2 DEF KVInv, TypeOK
<1>6. /\ RangeOf(requestMap'[r]) = RangeOf(requestMap[r]) \cup {b}
      /\ Distinct(requestMap'[r])
  BY <1>2, <1>4, <1>5, AppendDistinct
<1>7. /\ refCount' \in [Blocks -> Nat] /\ refCount'[b] = refCount[b] + 1
      /\ \A c \in Blocks \ {b} : refCount'[c] = refCount[c]
      /\ inUse' \in [Blocks -> BOOLEAN] /\ inUse'[b] = TRUE
      /\ \A c \in Blocks \ {b} : inUse'[c] = inUse[c]
  <2>1. /\ refCount' = [refCount EXCEPT ![b] = @ + 1]
        /\ inUse' = [inUse EXCEPT ![b] = TRUE]
    BY DEF ClaimCached
  <2>2. refCount \in [Blocks -> Nat] /\ inUse \in [Blocks -> BOOLEAN]
    BY DEF KVInv, TypeOK
  <2>3. refCount[b] + 1 \in Nat BY <2>2
  <2>4. QED BY <2>1, <2>2, <2>3
<1>8. freeList' \in Seq(Blocks) /\ freeBlockCnt' \in Nat /\ Conservation'
  <2>1. CASE inUse[b]
    <3>1. freeList' = freeList /\ freeBlockCnt' = freeBlockCnt
      BY <2>1 DEF ClaimCached
    <3>2. {c \in Blocks : ~inUse'[c]} = {c \in Blocks : ~inUse[c]}
      BY <1>7, <2>1
    <3>3. QED BY SMTT(60), <3>1, <3>2 DEF KVInv, TypeOK, Conservation, RangeOf
  <2>2. CASE ~inUse[b]
    <3>1. freeList' = Detach(freeList, b) /\ freeBlockCnt' = freeBlockCnt - 1
      BY <2>2 DEF ClaimCached
    <3>2. /\ freeList \in Seq(Blocks) /\ b \in RangeOf(freeList)
          /\ Distinct(freeList) /\ freeBlockCnt = Len(freeList)
          /\ RangeOf(freeList) = {c \in Blocks : ~inUse[c]}
      BY <1>2, <2>2 DEF KVInv, TypeOK, Conservation, Distinct
    <3>3. /\ freeList' \in Seq(Blocks) /\ Distinct(freeList')
          /\ RangeOf(freeList') = RangeOf(freeList) \ {b}
          /\ Len(freeList') = Len(freeList) - 1 /\ Len(freeList) >= 1
      BY <3>1, <3>2, DetachDistinct
    <3>4. {c \in Blocks : ~inUse'[c]} = {c \in Blocks : ~inUse[c]} \ {b}
      BY <1>2, <1>7
    <3>5. freeBlockCnt' = Len(freeList') /\ freeBlockCnt' \in Nat
      BY <3>1, <3>2, <3>3
    <3>6. QED BY <3>2, <3>3, <3>4, <3>5 DEF Conservation, Distinct, RangeOf
  <2>3. QED BY <2>1, <2>2
<1>9. TypeOK' BY <1>3, <1>5, <1>7, <1>8 DEF ClaimCached, KVInv, TypeOK, Calls
<1>10. IndexSound' /\ IndexFull'
  BY DEF ClaimCached, KVInv, IndexSound, IndexFull
<1>11. Ownership'
  <2>1. \A q \in Requests : Distinct(requestMap'[q])
    BY <1>5, <1>6 DEF KVInv, Ownership
  <2>2. r \in running /\ running' = running
    BY <1>1 DEF ClaimCached, KVInv, Ownership
  <2>3. \A q \in Requests \ running' : requestMap'[q] = <<>>
    BY <1>5, <2>2 DEF KVInv, Ownership
  <2>4. RangeOf(Tail(call.cached)) \cap RangeOf(requestMap'[r]) = {}
    BY <1>1, <1>2, <1>6 DEF KVInv, Ownership
  <2>5. call.pos <= call.end /\ call.end <= Len(Sequence(r))
    BY <1>1 DEF KVInv, Ownership
  <2>6. QED BY <1>2, <1>3, <2>1, <2>2, <2>3, <2>4, <2>5, AllocOwnership
<1>12. RefCountExact'
  <2>1. call.op # "release" /\ call'.op # "release" BY <1>1, <1>3
  <2>2. Held(r)' = Held(r) \cup {b} /\ b \notin Held(r)
    BY <2>1, <1>1, <1>4, <1>6, HeldIsMapped DEF Held, RangeOf
  <2>3. \A q \in Requests \ {r} : Held(q)' = Held(q)
    BY ZenonT(60), <2>1, <1>5 DEF Held, RangeOf
  <2>4. /\ Cardinality(Holders(b))' = Cardinality(Holders(b)) + 1
        /\ \A c \in Blocks \ {b} : Holders(c)' = Holders(c)
    BY <1>1, <1>2, <2>2, <2>3, HolderAdded
  <2>5. ASSUME NEW c \in Blocks
        PROVE  refCount'[c] = Cardinality(Holders(c))' /\ (inUse'[c] <=> refCount'[c] > 0)
    <3>1. refCount[c] = Cardinality(Holders(c)) /\ (inUse[c] <=> refCount[c] > 0)
          /\ refCount[c] \in Nat
      BY DEF KVInv, RefCountExact, TypeOK
    <3>2. CASE c = b BY <3>1, <3>2, <2>4, <1>7
    <3>3. CASE c # b BY <3>1, <3>3, <2>4, <1>7
    <3>4. QED BY <3>2, <3>3
  <2>6. QED BY <2>5 DEF RefCountExact
<1>13. QED BY <1>8, <1>9, <1>10, <1>11, <1>12 DEF KVInv

(* What an iteration that stores tokens appends is a part of the sequence. *)
LEMMA StoredType ==
  ASSUME NEW r \in Requests, NEW pos \in Nat, NEW stop \in Nat,
         pos <= stop, stop <= Len(Sequence(r))
  PROVE  /\ SubSeq(Sequence(r), pos + 1, stop) \in Seq(Tokens)
         /\ Len(SubSeq(Sequence(r), pos + 1, stop)) = stop - pos
<1>1. Sequence(r) \in Seq(Tokens) BY SequenceType
<1>2. pos + 1 \in Int /\ stop \in Int /\ stop - (pos + 1) + 1 = stop - pos
  OBVIOUS
<1>3. \A i \in pos + 1 .. stop : Sequence(r)[i] \in Tokens BY <1>1
<1>4. /\ SubSeq(Sequence(r), pos + 1, stop) \in Seq(Tokens)
      /\ Len(SubSeq(Sequence(r), pos + 1, stop)) =
           IF pos + 1 <= stop THEN stop - (pos + 1) + 1 ELSE 0
  BY <1>2, <1>3, SubSeqProperties
<1>5. QED BY <1>2, <1>4

(* Registering a full block under its own content keeps the index sound:   *)
(* no other entry names the block.                                         *)
SoundWithout(index, b) ==
  /\ DOMAIN index \subseteq Seq(Seq(Tokens))
  /\ \A h \in DOMAIN index :
       /\ index[h] \in Blocks \ {b}
       /\ hash[index[h]] = h
       /\ tokens[index[h]] = Last(h)
       /\ Len(tokens[index[h]]) = BlockSize

LEMMA RegisterKeepsIndex ==
  ASSUME KVInv, NEW index, NEW b \in Blocks, NEW prev \in Seq(Seq(Tokens)),
         NEW content \in Seq(Tokens), Len(content) = BlockSize,
         SoundWithout(index, b),
         tokens' = [tokens EXCEPT ![b] = content],
         SetHash(b, HashBlock(prev, content), index)
  PROVE  /\ IndexSound' /\ IndexFull'
         /\ hash' \in [Blocks -> Seq(Seq(Tokens))]
         /\ DOMAIN hashToBlock' \subseteq Seq(Seq(Tokens))
         /\ \A h \in DOMAIN hashToBlock' : hashToBlock'[h] \in Blocks
<1> USE DEF SoundWithout
<1>0. /\ hash \in [Blocks -> Seq(Seq(Tokens))]
      /\ tokens \in [Blocks -> Seq(Tokens)]
  BY DEF KVInv, TypeOK
<1> DEFINE new == HashBlock(prev, content)
<1>1. new \in Seq(Seq(Tokens)) /\ Last(new) = content BY DEF HashBlock, Last
<1> HIDE DEF new
<1>2. /\ hash' = [hash EXCEPT ![b] = new]
      /\ DOMAIN hashToBlock' = (DOMAIN index) \cup {new}
      /\ \A h \in DOMAIN hashToBlock' :
           hashToBlock'[h] = IF h = new THEN b ELSE index[h]
  BY DEF SetHash, new
<1>3. ASSUME NEW h \in DOMAIN hashToBlock'
      PROVE  /\ hash'[hashToBlock'[h]] = h
             /\ tokens'[hashToBlock'[h]] = Last(h)
             /\ Len(tokens'[hashToBlock'[h]]) = BlockSize
             /\ hashToBlock'[h] \in Blocks
  <2>1. CASE h = new BY <2>1, <1>0, <1>1, <1>2
  <2>2. CASE h # new
    <3>1. h \in DOMAIN index /\ hashToBlock'[h] = index[h] /\ index[h] # b
          /\ index[h] \in Blocks
      BY <2>2, <1>2
    <3>2. hash'[index[h]] = hash[index[h]] /\ tokens'[index[h]] = tokens[index[h]]
      BY <3>1, <1>0, <1>2
    <3>3. QED BY <3>1, <3>2
  <2>3. QED BY <2>1, <2>2
<1>4. hash' \in [Blocks -> Seq(Seq(Tokens))] BY <1>0, <1>1, <1>2
<1>5. DOMAIN hashToBlock' \subseteq Seq(Seq(Tokens)) BY <1>1, <1>2
<1>6. IndexSound' /\ IndexFull' BY <1>3 DEF IndexSound, IndexFull, Last
<1>7. QED BY <1>3, <1>4, <1>5, <1>6

LEMMA FillLatestKVInv ==
  ASSUME KVInv, FillLatest
  PROVE  KVInv'
<1>0. /\ call \in [op : {"alloc"}, req : Requests, pos : Nat, end : Nat,
                   cached : Seq(Blocks), final : BOOLEAN]
      /\ call.op = "alloc" /\ call.req \in Requests
      /\ requestMap[call.req] \in Seq(Blocks)
      /\ requestMap[call.req] # <<>>
      /\ Last(requestMap[call.req]) \in Blocks
  <2>1. /\ call \in [op : {"alloc"}, req : Requests, pos : Nat, end : Nat,
                     cached : Seq(Blocks), final : BOOLEAN]
        /\ call.op = "alloc" /\ call.req \in Requests
    BY AllocCallType DEF FillLatest, KVInv, TypeOK
  <2>2. requestMap[call.req] \in Seq(Blocks) /\ requestMap[call.req] # <<>>
    BY <2>1 DEF FillLatest, LatestIsPartial, KVInv, TypeOK
  <2>3. QED BY <2>1, <2>2, FrontDistinct
<1> PICK r \in Requests : r = call.req BY <1>0
<1> PICK b \in Blocks : b = Last(requestMap[call.req]) BY <1>0
<1> DEFINE ids  == requestMap[r]
           stop == Least(call.pos + BlockSize - Len(tokens[b]), call.end)
           part == SubSeq(Sequence(r), call.pos + 1, stop)
           full == tokens[b] \o part
           prev == IF Len(ids) >= 2 THEN hash[ids[Len(ids) - 1]] ELSE NoHash
<1>1. /\ call.pos \in Nat /\ call.end \in Nat /\ call.pos < call.end
      /\ call.end <= Len(Sequence(r))
      /\ Len(tokens[b]) \in 1 .. BlockSize - 1
      /\ BlockSize \in Nat
      /\ tokens \in [Blocks -> Seq(Tokens)] /\ tokens[b] \in Seq(Tokens)
  BY <1>0, KVAssumption DEF FillLatest, LatestIsPartial, KVInv, Ownership, TypeOK
<1>2. stop \in Nat /\ call.pos <= stop /\ stop <= call.end BY SMTT(60), <1>1 DEF Least
<1>3. part \in Seq(Tokens)
  <2>1. stop <= Len(Sequence(r)) BY <1>1, <1>2, SequenceType
  <2>2. QED BY <1>1, <1>2, <2>1, StoredType
<1>4. full \in Seq(Tokens) BY <1>1, <1>3
<1>5. prev \in Seq(Seq(Tokens))
  <2>1. hash \in [Blocks -> Seq(Seq(Tokens))] /\ ids \in Seq(Blocks)
    BY DEF KVInv, TypeOK
  <2>2. NoHash \in Seq(Seq(Tokens)) BY DEF NoHash
  <2>3. Len(ids) >= 2 => ids[Len(ids) - 1] \in Blocks BY <2>1
  <2>4. QED BY <2>1, <2>2, <2>3
<1>6. /\ tokens' = [tokens EXCEPT ![b] = full]
      /\ IF Len(full) = BlockSize
         THEN SetHash(b, HashBlock(prev, full), hashToBlock)
         ELSE hash' = hash /\ hashToBlock' = hashToBlock
      /\ call' = [call EXCEPT !.pos = stop]
      /\ UNCHANGED <<freeList, freeBlockCnt, refCount, inUse, requestMap,
                     progress, running>>
  BY DEF FillLatest
<1> HIDE DEF stop, part, full, prev
<1>7. /\ call' \in [op : {"alloc"}, req : Requests, pos : Nat, end : Nat,
                    cached : Seq(Blocks), final : BOOLEAN]
      /\ call'.op = "alloc" /\ call'.req = r /\ call'.cached = call.cached
      /\ call'.pos = stop /\ call'.end = call.end
  BY <1>0, <1>2, <1>6
<1>8. \A h \in DOMAIN hashToBlock :
        /\ hashToBlock[h] \in Blocks \ {b}
        /\ hash[hashToBlock[h]] = h
        /\ tokens[hashToBlock[h]] = Last(h)
        /\ Len(tokens[hashToBlock[h]]) = BlockSize
  BY <1>1 DEF KVInv, TypeOK, IndexSound, IndexFull
<1>9. /\ IndexSound' /\ IndexFull'
      /\ hash' \in [Blocks -> Seq(Seq(Tokens))]
      /\ DOMAIN hashToBlock' \subseteq Seq(Seq(Tokens))
      /\ \A h \in DOMAIN hashToBlock' : hashToBlock'[h] \in Blocks
  <2>1. hash \in [Blocks -> Seq(Seq(Tokens))] /\ DOMAIN hashToBlock \subseteq Seq(Seq(Tokens))
    BY DEF KVInv, TypeOK
  <2>2. CASE Len(full) = BlockSize
    <3>1. SetHash(b, HashBlock(prev, full), hashToBlock) BY <1>6, <2>2
    <3>2. SoundWithout(hashToBlock, b) BY <1>8, <2>1 DEF SoundWithout
    <3>3. QED BY <1>4, <1>5, <1>6, <2>2, <3>1, <3>2, RegisterKeepsIndex
  <2>3. CASE Len(full) # BlockSize
    <3>1. hash' = hash /\ hashToBlock' = hashToBlock BY <1>6, <2>3
    <3>2. \A h \in DOMAIN hashToBlock : tokens'[hashToBlock[h]] = tokens[hashToBlock[h]]
      BY <1>1, <1>6, <1>8
    <3>3. \A h \in DOMAIN hashToBlock' :
            /\ hash'[hashToBlock'[h]] = h
            /\ tokens'[hashToBlock'[h]] = Last(h)
            /\ Len(tokens'[hashToBlock'[h]]) = BlockSize
      BY <1>8, <3>1, <3>2
    <3>4. IndexSound' /\ IndexFull' BY <3>3 DEF IndexSound, IndexFull, Last
    <3>5. QED BY <1>8, <2>1, <3>1, <3>4
  <2>4. QED BY <2>2, <2>3
<1>10. tokens' \in [Blocks -> Seq(Tokens)] BY <1>1, <1>4, <1>6
<1>11. TypeOK' BY <1>6, <1>7, <1>9, <1>10 DEF KVInv, TypeOK, Calls
<1>12. Conservation' BY <1>6 DEF KVInv, Conservation, RangeOf
<1>13. Ownership'
  <2>1. /\ r \in running /\ Distinct(call.cached)
        /\ RangeOf(call.cached) \cap RangeOf(requestMap[r]) = {}
        /\ \A q \in Requests : Distinct(requestMap[q])
        /\ \A q \in Requests \ running : requestMap[q] = <<>>
    BY <1>0 DEF KVInv, Ownership
  <2>2. call'.pos <= call'.end /\ call'.end <= Len(Sequence(r))
    BY <1>1, <1>2, <1>7
  <2>3. QED BY <1>6, <1>7, <2>1, <2>2, AllocOwnership
<1>14. RefCountExact'
  <2>1. \A q \in Requests : Held(q)' = Held(q)
    BY <1>0, <1>6, <1>7 DEF Held, RangeOf
  <2>2. QED BY <1>6, <2>1, HoldersUnchanged
<1>15. QED BY <1>9, <1>11, <1>12, <1>13, <1>14 DEF KVInv

LEMMA PopBlockKVInv ==
  ASSUME KVInv, PopBlock
  PROVE  KVInv'
<1>0. /\ call \in [op : {"alloc"}, req : Requests, pos : Nat, end : Nat,
                   cached : Seq(Blocks), final : BOOLEAN]
      /\ call.op = "alloc" /\ call.req \in Requests
      /\ freeList \in Seq(Blocks) /\ freeList # <<>>
      /\ Head(freeList) \in Blocks
  BY AllocCallType, TailDistinct DEF PopBlock, KVInv, TypeOK
<1> PICK r \in Requests : r = call.req BY <1>0
<1> PICK b \in Blocks : b = Head(freeList) BY <1>0
<1> DEFINE stop  == Least(call.pos + BlockSize, call.end)
           new   == SubSeq(Sequence(r), call.pos + 1, stop)
           prev  == IF requestMap[r] = <<>> THEN NoHash ELSE hash[Last(requestMap[r])]
           index == IndexWithout(hash[b])
<1>1. /\ call.pos \in Nat /\ call.end \in Nat /\ call.pos < call.end
      /\ call.end <= Len(Sequence(r))
      /\ BlockSize \in Nat
      /\ tokens \in [Blocks -> Seq(Tokens)]
      /\ hash \in [Blocks -> Seq(Seq(Tokens))]
      /\ requestMap[r] \in Seq(Blocks)
  BY <1>0, KVAssumption DEF PopBlock, KVInv, Ownership, TypeOK
<1>2. stop \in Nat /\ call.pos <= stop /\ stop <= call.end BY SMTT(60), <1>1 DEF Least
<1>3. new \in Seq(Tokens)
  <2>1. stop <= Len(Sequence(r)) BY <1>1, <1>2, SequenceType
  <2>2. QED BY <1>1, <1>2, <2>1, StoredType
<1>4. prev \in Seq(Seq(Tokens)) /\ NoHash \in Seq(Seq(Tokens))
  <2>1. requestMap[r] # <<>> => Last(requestMap[r]) \in Blocks
    BY <1>1, FrontDistinct
  <2>2. NoHash \in Seq(Seq(Tokens)) BY DEF NoHash
  <2>3. QED BY <1>1, <2>1, <2>2
<1>5. /\ freeList' = Tail(freeList)
      /\ freeBlockCnt' = freeBlockCnt - 1
      /\ refCount' = [refCount EXCEPT ![b] = 1]
      /\ inUse' = [inUse EXCEPT ![b] = TRUE]
      /\ tokens' = [tokens EXCEPT ![b] = new]
      /\ \/ Len(new) = BlockSize /\ SetHash(b, HashBlock(prev, new), index)
         \/ hash' = [hash EXCEPT ![b] = NoHash] /\ hashToBlock' = index
      /\ requestMap' = [requestMap EXCEPT ![r] = Append(@, b)]
      /\ call' = [call EXCEPT !.pos = stop]
      /\ UNCHANGED <<progress, running>>
  BY DEF PopBlock
<1>6. /\ DOMAIN index = (DOMAIN hashToBlock) \ {hash[b]}
      /\ \A h \in DOMAIN index : index[h] = hashToBlock[h]
  BY DEF IndexWithout
<1> HIDE DEF stop, new, prev, index
<1>7. /\ call' \in [op : {"alloc"}, req : Requests, pos : Nat, end : Nat,
                    cached : Seq(Blocks), final : BOOLEAN]
      /\ call'.op = "alloc" /\ call'.req = r /\ call'.cached = call.cached
      /\ call'.pos = stop /\ call'.end = call.end
  BY <1>0, <1>2, <1>5
<1>8. /\ DOMAIN index \subseteq Seq(Seq(Tokens))
      /\ \A h \in DOMAIN index :
           /\ index[h] \in Blocks \ {b}
           /\ hash[index[h]] = h
           /\ tokens[index[h]] = Last(h)
           /\ Len(tokens[index[h]]) = BlockSize
  BY SMTT(60), <1>6 DEF KVInv, TypeOK, IndexSound, IndexFull
<1>9. /\ IndexSound' /\ IndexFull'
      /\ hash' \in [Blocks -> Seq(Seq(Tokens))]
      /\ DOMAIN hashToBlock' \subseteq Seq(Seq(Tokens))
      /\ \A h \in DOMAIN hashToBlock' : hashToBlock'[h] \in Blocks
  <2>1. CASE Len(new) = BlockSize /\ SetHash(b, HashBlock(prev, new), index)
    <3>1. SoundWithout(index, b) BY <1>8 DEF SoundWithout
    <3>2. QED BY <1>3, <1>4, <1>5, <2>1, <3>1, RegisterKeepsIndex
  <2>2. CASE hash' = [hash EXCEPT ![b] = NoHash] /\ hashToBlock' = index
    <3>1. \A h \in DOMAIN index : /\ tokens'[index[h]] = tokens[index[h]]
                                  /\ hash'[index[h]] = hash[index[h]]
      BY <1>1, <1>5, <1>8, <2>2
    <3>2. \A h \in DOMAIN hashToBlock' :
            /\ hash'[hashToBlock'[h]] = h
            /\ tokens'[hashToBlock'[h]] = Last(h)
            /\ Len(tokens'[hashToBlock'[h]]) = BlockSize
            /\ hashToBlock'[h] \in Blocks
      BY SMTT(60), <1>8, <2>2, <3>1
    <3>3. IndexSound' /\ IndexFull' BY <3>2 DEF IndexSound, IndexFull, Last
    <3>4. hash' \in [Blocks -> Seq(Seq(Tokens))] BY <1>1, <1>4, <2>2
    <3>5. QED BY <1>8, <2>2, <3>2, <3>3, <3>4
  <2>3. QED BY <1>5, <2>1, <2>2
<1>10. /\ refCount' \in [Blocks -> Nat] /\ refCount'[b] = 1
       /\ \A c \in Blocks \ {b} : refCount'[c] = refCount[c]
       /\ inUse' \in [Blocks -> BOOLEAN] /\ inUse'[b] = TRUE
       /\ \A c \in Blocks \ {b} : inUse'[c] = inUse[c]
  BY <1>5 DEF KVInv, TypeOK
<1>11. /\ freeList' \in Seq(Blocks) /\ freeBlockCnt' \in Nat /\ Conservation'
       /\ ~inUse[b]
  <2>1. /\ Distinct(freeList) /\ freeBlockCnt = Len(freeList)
        /\ RangeOf(freeList) = {c \in Blocks : ~inUse[c]}
    BY DEF KVInv, Conservation, Distinct
  <2>2. /\ freeList' \in Seq(Blocks) /\ Distinct(freeList')
        /\ Len(freeList') = Len(freeList) - 1 /\ b \in RangeOf(freeList)
        /\ RangeOf(freeList') = RangeOf(freeList) \ {b}
    BY <1>0, <1>5, <2>1, TailDistinct
  <2>3. {c \in Blocks : ~inUse'[c]} = {c \in Blocks : ~inUse[c]} \ {b} BY <1>10
  <2>4. freeBlockCnt' = Len(freeList') /\ freeBlockCnt' \in Nat
    BY <1>0, <1>5, <2>1, <2>2
  <2>5. Conservation'
    BY <2>1, <2>2, <2>3, <2>4 DEF Conservation, Distinct, RangeOf
  <2>6. QED BY <2>1, <2>2, <2>4, <2>5
<1>12. refCount[b] = 0 /\ Cardinality(Holders(b)) = 0 /\ Holders(b) = {}
  <2>1. refCount[b] = 0 /\ Cardinality(Holders(b)) = 0
    BY <1>11 DEF KVInv, RefCountExact, TypeOK
  <2>2. QED BY <2>1, HoldersFinite, FS_EmptySet
<1>13. b \notin Held(r) /\ b \notin RangeOf(requestMap[r])
  BY <1>12 DEF Holders, Held
<1>14. /\ requestMap' \in [Requests -> Seq(Blocks)]
       /\ requestMap'[r] = Append(requestMap[r], b)
       /\ \A q \in Requests \ {r} : requestMap'[q] = requestMap[q]
  <2>1. Append(requestMap[r], b) \in Seq(Blocks) BY <1>1
  <2>2. QED BY <1>5, <2>1 DEF KVInv, TypeOK
<1>15. /\ RangeOf(requestMap'[r]) = RangeOf(requestMap[r]) \cup {b}
       /\ Distinct(requestMap'[r])
  <2>1. Distinct(requestMap[r]) BY DEF KVInv, Ownership
  <2>2. QED BY SMTT(60), <1>1, <1>13, <1>14, <2>1, AppendDistinct
<1>16. TypeOK'
  <2>1. tokens' \in [Blocks -> Seq(Tokens)] BY <1>1, <1>3, <1>5
  <2>2. QED BY <1>5, <1>7, <1>9, <1>10, <1>11, <1>14, <2>1 DEF KVInv, TypeOK, Calls
<1>17. Ownership'
  <2>1. call.cached = <<>> /\ r \in running /\ running' = running
    BY <1>0, <1>5 DEF PopBlock, KVInv, Ownership
  <2>2. \A q \in Requests : Distinct(requestMap'[q])
    BY <1>14, <1>15 DEF KVInv, Ownership
  <2>3. \A q \in Requests \ running' : requestMap'[q] = <<>>
    BY <1>14, <2>1 DEF KVInv, Ownership
  <2>4. Distinct(call.cached) /\ RangeOf(call.cached) = {}
    BY <2>1 DEF Distinct, RangeOf
  <2>5. RangeOf(call.cached) \cap RangeOf(requestMap'[r]) = {} BY <2>4
  <2>6. call'.pos <= call'.end /\ call'.end <= Len(Sequence(r))
    BY <1>1, <1>2, <1>7
  <2>7. QED BY <1>7, <2>1, <2>2, <2>3, <2>4, <2>5, <2>6, AllocOwnership
<1>18. RefCountExact'
  <2>1. call.op # "release" /\ call'.op # "release" BY <1>0, <1>7
  <2>2. Held(r)' = Held(r) \cup {b} BY <2>1, <1>15 DEF Held, RangeOf
  <2>3. \A q \in Requests \ {r} : Held(q)' = Held(q)
    BY <2>1, <1>14 DEF Held, RangeOf
  <2>4. /\ Cardinality(Holders(b))' = Cardinality(Holders(b)) + 1
        /\ \A c \in Blocks \ {b} : Holders(c)' = Holders(c)
    BY <1>13, <2>2, <2>3, HolderAdded
  <2>5. ASSUME NEW c \in Blocks
        PROVE  refCount'[c] = Cardinality(Holders(c))' /\ (inUse'[c] <=> refCount'[c] > 0)
    <3>1. refCount[c] = Cardinality(Holders(c)) /\ (inUse[c] <=> refCount[c] > 0)
      BY DEF KVInv, RefCountExact
    <3>2. CASE c = b BY <3>2, <2>4, <1>10, <1>12
    <3>3. CASE c # b BY <3>1, <3>3, <2>4, <1>10
    <3>4. QED BY <3>2, <3>3
  <2>6. QED BY <2>5 DEF RefCountExact
<1>19. QED BY <1>9, <1>11, <1>16, <1>17, <1>18 DEF KVInv

LEMMA FinishAllocateKVInv ==
  ASSUME KVInv, FinishAllocate
  PROVE  KVInv'
<1>1. /\ call \in [op : {"alloc"}, req : Requests, pos : Nat, end : Nat,
                   cached : Seq(Blocks), final : BOOLEAN]
      /\ call.op = "alloc" /\ call.req \in running
  BY AllocCallType DEF FinishAllocate, KVInv, TypeOK, Ownership
<1>2. CASE call.final BY <1>1, <1>2, StartReleaseKVInv DEF FinishAllocate
<1>3. CASE ~call.final
  <2>1. /\ progress' = [progress EXCEPT ![call.req] = call.end]
        /\ call' = Idle /\ UNCHANGED <<poolVars, running>>
    BY <1>3 DEF FinishAllocate
  <2>2. TypeOK' BY <1>1, <2>1 DEF KVInv, TypeOK, poolVars, Calls
  <2>3. Conservation' /\ IndexSound' /\ IndexFull' BY <2>1, PoolUnchanged
  <2>4. Ownership' BY <2>1 DEF KVInv, Ownership, poolVars, Idle, Distinct
  <2>5. RefCountExact'
    <3>1. \A q \in Requests : Held(q)' = Held(q)
      BY <1>1, <2>1 DEF Held, Idle, RangeOf, poolVars
    <3>2. QED BY <2>1, <3>1, HoldersUnchanged DEF poolVars
  <2>6. QED BY <2>2, <2>3, <2>4, <2>5 DEF KVInv
<1>4. QED BY <1>2, <1>3

LEMMA ReleaseBlockKVInv ==
  ASSUME KVInv, ReleaseBlock
  PROVE  KVInv'
<1>0. /\ call \in [op : {"release"}, req : Requests, left : Seq(Blocks)]
      /\ call.op = "release" /\ call.req \in Requests
      /\ call.left \in Seq(Blocks) /\ call.left # <<>>
      /\ Last(call.left) \in Blocks
  <2>1. call \in [op : {"release"}, req : Requests, left : Seq(Blocks)]
        /\ call.op = "release" /\ call.left # <<>>
    BY ReleaseCallType DEF ReleaseBlock, KVInv, TypeOK
  <2>2. QED BY <2>1, FrontDistinct
<1> PICK r \in Requests : r = call.req BY <1>0
<1> PICK b \in Blocks : b = Last(call.left) BY <1>0
<1> DEFINE rest == SubSeq(call.left, 1, Len(call.left) - 1)
<1>1. /\ rest \in Seq(Blocks) /\ Distinct(rest)
      /\ RangeOf(rest) = RangeOf(call.left) \ {b} /\ b \in RangeOf(call.left)
  BY <1>0, FrontDistinct DEF KVInv, Ownership
<1>2. call' = [call EXCEPT !.left = rest] BY DEF ReleaseBlock
<1> HIDE DEF rest
<1>3. /\ call' \in [op : {"release"}, req : Requests, left : Seq(Blocks)]
      /\ call'.op = "release" /\ call'.req = r /\ call'.left = rest
  BY <1>0, <1>1, <1>2
<1>4. /\ refCount' = [refCount EXCEPT ![b] = @ - 1]
      /\ IF refCount[b] = 1
         THEN /\ inUse' = [inUse EXCEPT ![b] = FALSE]
              /\ freeList' = Append(freeList, b)
              /\ freeBlockCnt' = freeBlockCnt + 1
         ELSE inUse' = inUse /\ freeList' = freeList /\ freeBlockCnt' = freeBlockCnt
      /\ UNCHANGED <<tokens, hash, requestMap, hashToBlock, progress, running>>
  BY DEF ReleaseBlock
<1>5. /\ r \notin running /\ requestMap[r] = <<>>
      /\ Held(r) = RangeOf(call.left) /\ b \in Held(r)
  <2>1. r \notin running BY <1>0 DEF KVInv, Ownership
  <2>2. requestMap[r] = <<>> BY <2>1 DEF KVInv, Ownership
  <2>3. RangeOf(requestMap[r]) = {} BY <2>2 DEF RangeOf
  <2>4. QED BY <1>0, <1>1, <2>1, <2>2, <2>3 DEF Held
<1>6. Held(r)' = Held(r) \ {b}
  <2>1. RangeOf(requestMap[r])' = {} BY <1>4, <1>5 DEF RangeOf
  <2>2. RangeOf(call.left)' = RangeOf(rest) BY <1>3 DEF RangeOf
  <2>3. QED BY <1>1, <1>3, <1>5, <2>1, <2>2 DEF Held
<1>7. \A q \in Requests \ {r} : Held(q)' = Held(q)
  BY <1>0, <1>3, <1>4 DEF Held, RangeOf
<1>8. /\ Cardinality(Holders(b))' = Cardinality(Holders(b)) - 1
      /\ Cardinality(Holders(b)) > 0
      /\ \A c \in Blocks \ {b} : Holders(c)' = Holders(c)
  BY <1>5, <1>6, <1>7, HolderRemoved
<1>9. /\ refCount[b] = Cardinality(Holders(b)) /\ refCount[b] \in Nat
      /\ refCount[b] > 0 /\ inUse[b]
  BY <1>8 DEF KVInv, RefCountExact, TypeOK
<1>10. /\ refCount' \in [Blocks -> Nat] /\ refCount'[b] = refCount[b] - 1
       /\ \A c \in Blocks \ {b} : refCount'[c] = refCount[c]
  <2>1. refCount[b] - 1 \in Nat BY <1>9
  <2>2. QED BY <1>4, <2>1 DEF KVInv, TypeOK
<1>11. /\ inUse' \in [Blocks -> BOOLEAN] /\ freeList' \in Seq(Blocks)
       /\ freeBlockCnt' \in Nat /\ Conservation'
       /\ inUse'[b] <=> refCount[b] # 1
       /\ \A c \in Blocks \ {b} : inUse'[c] = inUse[c]
  <2>0. /\ Distinct(freeList) /\ freeBlockCnt = Len(freeList)
        /\ RangeOf(freeList) = {c \in Blocks : ~inUse[c]}
        /\ freeList \in Seq(Blocks) /\ inUse \in [Blocks -> BOOLEAN]
    BY DEF KVInv, Conservation, Distinct, TypeOK
  <2>1. CASE refCount[b] = 1
    <3>1. inUse' = [inUse EXCEPT ![b] = FALSE] /\ freeList' = Append(freeList, b)
          /\ freeBlockCnt' = freeBlockCnt + 1
      BY <1>4, <2>1
    <3>2. b \notin RangeOf(freeList) BY <1>9, <2>0
    <3>3. /\ freeList' \in Seq(Blocks) /\ Distinct(freeList')
          /\ Len(freeList') = Len(freeList) + 1
          /\ RangeOf(freeList') = RangeOf(freeList) \cup {b}
      BY <2>0, <3>1, <3>2, AppendDistinct
    <3>4. {c \in Blocks : ~inUse'[c]} = {c \in Blocks : ~inUse[c]} \cup {b}
      BY <2>0, <3>1
    <3>5. freeBlockCnt' = Len(freeList') /\ freeBlockCnt' \in Nat
      BY <2>0, <3>1, <3>3
    <3>6. Conservation'
      BY <2>0, <3>3, <3>4, <3>5 DEF Conservation, Distinct, RangeOf
    <3>7. QED BY <2>0, <2>1, <3>1, <3>3, <3>5, <3>6
  <2>2. CASE refCount[b] # 1
    <3>1. inUse' = inUse /\ freeList' = freeList /\ freeBlockCnt' = freeBlockCnt
      BY <1>4, <2>2
    <3>2. Conservation' BY <3>1 DEF KVInv, Conservation, RangeOf
    <3>3. QED BY <1>9, <2>0, <2>2, <3>1, <3>2
  <2>3. QED BY <2>1, <2>2
<1>12. TypeOK' BY <1>3, <1>4, <1>10, <1>11 DEF KVInv, TypeOK, Calls
<1>13. IndexSound' /\ IndexFull' BY <1>4 DEF KVInv, IndexSound, IndexFull
<1>14. Ownership'
  <2>1. Distinct(call.left)' BY <1>1, <1>3 DEF Distinct
  <2>2. \A q \in Requests : Distinct(requestMap[q])'
    BY <1>4 DEF KVInv, Ownership, Distinct
  <2>3. \A q \in Requests \ running' : requestMap'[q] = <<>>
    BY <1>4 DEF KVInv, Ownership
  <2>4. call'.req \notin running' BY <1>3, <1>4, <1>5
  <2>5. QED BY <1>3, <2>1, <2>2, <2>3, <2>4 DEF Ownership
<1>15. RefCountExact'
  <2>1. ASSUME NEW c \in Blocks
        PROVE  refCount'[c] = Cardinality(Holders(c))' /\ (inUse'[c] <=> refCount'[c] > 0)
    <3>1. refCount[c] = Cardinality(Holders(c)) /\ (inUse[c] <=> refCount[c] > 0)
      BY DEF KVInv, RefCountExact
    <3>2. CASE c = b BY <3>2, <1>8, <1>9, <1>10, <1>11
    <3>3. CASE c # b BY <3>1, <3>3, <1>8, <1>10, <1>11
    <3>4. QED BY <3>2, <3>3
  <2>2. QED BY <2>1 DEF RefCountExact
<1>16. QED BY <1>11, <1>12, <1>13, <1>14, <1>15 DEF KVInv

LEMMA FinishReleaseKVInv ==
  ASSUME KVInv, FinishRelease
  PROVE  KVInv'
<1>1. call.left = <<>> /\ RangeOf(call.left) = {} /\ call.op = "release"
      /\ call' = Idle /\ UNCHANGED <<poolVars, progress, running>>
  BY DEF FinishRelease, RangeOf
<1>2. TypeOK' BY <1>1 DEF KVInv, TypeOK, poolVars, Calls
<1>3. Conservation' /\ IndexSound' /\ IndexFull' BY <1>1, PoolUnchanged
<1>4. Ownership' BY <1>1 DEF KVInv, Ownership, poolVars, Idle, Distinct
<1>5. RefCountExact'
  <2>1. \A q \in Requests : RangeOf(requestMap[q])' = RangeOf(requestMap[q])
    BY <1>1 DEF RangeOf, poolVars
  <2>2. \A q \in Requests : Held(q)' = Held(q) BY <1>1, <2>1 DEF Held, Idle
  <2>3. QED BY <1>1, <2>2, HoldersUnchanged DEF poolVars
<1>6. QED BY <1>2, <1>3, <1>4, <1>5 DEF KVInv

------------------------------
LEMMA NextKVInv == KVInv /\ [Next]_vars => KVInv'
<1> SUFFICES ASSUME KVInv, [Next]_vars PROVE KVInv' OBVIOUS
<1>1. ASSUME NEW r \in Requests, Admit(r) PROVE KVInv' BY <1>1, AdmitKVInv
<1>2. ASSUME NEW r \in Requests, ContinuePrefill(r) PROVE KVInv'
  BY <1>2, ContinuePrefillKVInv
<1>3. ASSUME NEW r \in Requests, Decode(r) PROVE KVInv' BY <1>3, DecodeKVInv
<1>4. ASSUME NEW r \in Requests, Complete(r) PROVE KVInv'
  BY <1>4, CompleteKVInv
<1>5. ASSUME NEW r \in Requests, Withdraw(r) PROVE KVInv'
  BY <1>5, WithdrawKVInv
<1>6. CASE ClaimCached BY <1>6, ClaimCachedKVInv
<1>7. CASE FillLatest BY <1>7, FillLatestKVInv
<1>8. CASE PopBlock BY <1>8, PopBlockKVInv
<1>9. CASE FinishAllocate BY <1>9, FinishAllocateKVInv
<1>10. CASE ReleaseBlock BY <1>10, ReleaseBlockKVInv
<1>11. CASE FinishRelease BY <1>11, FinishReleaseKVInv
<1>12. CASE UNCHANGED vars
  <2>1. \A q \in Requests : Held(q)' = Held(q) BY <1>12 DEF vars, Held, RangeOf
  <2>2. RefCountExact' BY <1>12, <2>1, HoldersUnchanged DEF vars
  <2>3. Conservation' /\ IndexSound' /\ IndexFull'
    BY <1>12, PoolUnchanged DEF vars, poolVars
  <2>4. TypeOK' BY <1>12 DEF vars, KVInv, TypeOK
  <2>5. Ownership'
    <3>1. /\ RangeOf(call.cached)' = RangeOf(call.cached)
          /\ RangeOf(requestMap[call.req])' = RangeOf(requestMap[call.req])
          /\ Sequence(call.req)' = Sequence(call.req)
      BY <1>12 DEF vars, RangeOf, Sequence
    <3>2. /\ Distinct(call.cached)' <=> Distinct(call.cached)
          /\ Distinct(call.left)' <=> Distinct(call.left)
          /\ \A q \in Requests : Distinct(requestMap[q])' <=> Distinct(requestMap[q])
      BY <1>12 DEF vars, Distinct
    <3>3. QED BY <1>12, <3>1, <3>2 DEF vars, KVInv, Ownership
  <2>6. QED BY <2>2, <2>3, <2>4, <2>5 DEF KVInv
<1>13. QED BY <1>1, <1>2, <1>3, <1>4, <1>5, <1>6, <1>7, <1>8, <1>9, <1>10,
              <1>11, <1>12 DEF Next

(* Every state the cache reaches satisfies the whole inductive invariant. *)
THEOREM KVInvariant == Spec => []KVInv
BY InitKVInv, NextKVInv, PTL DEF Spec

(* The cache's variables keep their types; in particular a reference count *)
(* and the free counter never go below zero.                               *)
THEOREM KVTypeOK == Spec => []TypeOK
<1>1. KVInv => TypeOK BY DEF KVInv
<1>2. QED BY <1>1, KVInvariant, PTL

(* INV-4, KV block conservation, for every cache size, block size and      *)
(* workload: free list, in-use flags and free counter agree after every    *)
(* iteration of AllocateKVBlocks and ReleaseKVBlocks.                      *)
THEOREM KVConservation == Spec => []Conservation
<1>1. KVInv => Conservation BY DEF KVInv
<1>2. QED BY <1>1, KVInvariant, PTL

(* A block's reference count is the number of requests that hold it, and   *)
(* it is in use exactly while somebody holds it.                           *)
THEOREM KVRefCountExact == Spec => []RefCountExact
<1>1. KVInv => RefCountExact BY DEF KVInv
<1>2. QED BY <1>1, KVInvariant, PTL

(* A prefix-index entry always names a block with that hash and content,   *)
(* although hashes are deleted lazily, when a free block is recycled.      *)
THEOREM KVIndexSound == Spec => []IndexSound
<1>1. KVInv => IndexSound BY DEF KVInv
<1>2. QED BY <1>1, KVInvariant, PTL

------------------------------
(* A block with room left is held by one request only. *)
Private ==
  \A q, r \in Requests : \A b \in Held(q) \cap Held(r) :
    Len(tokens[b]) # BlockSize => q = r

(* What a call is about to claim is full. *)
CachedFull ==
  call.op = "alloc" =>
    \A b \in RangeOf(call.cached) : Len(tokens[b]) = BlockSize

(* No request lists an empty or an overfull block. *)
Filled ==
  \A r \in Requests : \A b \in RangeOf(requestMap[r]) :
    Len(tokens[b]) \in 1 .. BlockSize

(* Preemption, timeout and completion reset the progress of a request. *)
AtRest == \A r \in Requests \ running : progress[r] = 0

(* The room in the block the call appends to first. *)
Room(r) ==
  IF call.cached = <<>> /\ LatestIsPartial(r)
  THEN BlockSize - Len(tokens[Last(requestMap[r])])
  ELSE 0

(* The blocks a claim still has to take off the free list. *)
FreeCached == {b \in RangeOf(call.cached) : ~inUse[b]}

(* What is left of the pre-check: the blocks the remaining tokens need and *)
(* those the remaining claims take are on the free list.                   *)
Budget ==
  call.op = "alloc" /\ call.pos < call.end =>
    \E k \in Nat : /\ call.end - call.pos <= Room(call.req) + k * BlockSize
                   /\ k + Cardinality(FreeCached) <= freeBlockCnt

RoomInv ==
  /\ Private
  /\ CachedFull
  /\ Filled
  /\ AtRest
  /\ Budget

------------------------------
(* Multiples of the block size. *)
LEMMA Multiples ==
  /\ \A k \in Nat : k * BlockSize \in Nat
  /\ \A k \in Nat : (k + 1) * BlockSize = k * BlockSize + BlockSize
  /\ \A j, k \in Nat : j < k => j * BlockSize + BlockSize <= k * BlockSize
  /\ 0 * BlockSize = 0
<1>1. BlockSize \in Nat /\ BlockSize >= 1 BY KVAssumption
<1>2. \A k \in Nat : k * BlockSize \in Nat BY <1>1
<1>3. \A k \in Nat : (k + 1) * BlockSize = k * BlockSize + BlockSize BY <1>1
<1>4. ASSUME NEW j \in Nat, NEW k \in Nat, j < k
      PROVE  j * BlockSize + BlockSize <= k * BlockSize
  <2>1. k - (j + 1) \in Nat /\ k = (j + 1) + (k - (j + 1)) BY <1>4
  <2>2. k * BlockSize = (j + 1) * BlockSize + (k - (j + 1)) * BlockSize
    BY <1>1, <1>4
  <2>3. (k - (j + 1)) * BlockSize \in Nat BY <1>2, <2>1
  <2>4. (j + 1) * BlockSize = j * BlockSize + BlockSize BY <1>3, <1>4
  <2>5. j * BlockSize \in Nat /\ k * BlockSize \in Nat BY <1>2, <1>4
  <2> HIDE DEF KVAssumption
  <2>6. QED BY <1>1, <2>2, <2>3, <2>4, <2>5
<1>5. QED BY <1>1, <1>2, <1>3, <1>4

(* Multiples of the block size are ordered and add up as their factors. *)
LEMMA MultiplesOrder ==
  ASSUME NEW j \in Nat, NEW k \in Nat
  PROVE  /\ j * BlockSize \in Nat
         /\ j <= k => j * BlockSize <= k * BlockSize
         /\ (j + k) * BlockSize = j * BlockSize + k * BlockSize
<1>1. BlockSize \in Nat BY KVAssumption
<1>2. j * BlockSize \in Nat /\ (j + k) * BlockSize = j * BlockSize + k * BlockSize
  BY <1>1
<1>3. ASSUME j <= k PROVE j * BlockSize <= k * BlockSize
  <2>1. PICK d \in Nat : k = j + d BY <1>3, k - j \in Nat
  <2>2. k * BlockSize = j * BlockSize + d * BlockSize /\ d * BlockSize \in Nat
    BY <1>1, <2>1
  <2>3. QED BY <1>2, <2>2
<1>4. QED BY <1>2, <1>3

(* Division that rounds up covers its dividend, and is the only number of  *)
(* blocks that does so without an empty one.                               *)
LEMMA CeilDivCovers ==
  ASSUME NEW n \in Nat
  PROVE  /\ CeilDiv(n, BlockSize) \in Nat
         /\ n <= CeilDiv(n, BlockSize) * BlockSize
<1> DEFINE q == (n + BlockSize - 1) \div BlockSize
<1>1. BlockSize \in Nat /\ BlockSize >= 1 /\ n + BlockSize - 1 \in Nat
  BY KVAssumption
<1>2. q \in Nat BY <1>1
<1>3. n + BlockSize - 1 < (q + 1) * BlockSize BY <1>1
<1>4. (q + 1) * BlockSize = q * BlockSize + BlockSize /\ q * BlockSize \in Nat
  BY <1>2, Multiples
<1> HIDE DEF q
<1>5. n <= q * BlockSize BY <1>1, <1>3, <1>4
<1>6. QED BY <1>2, <1>5 DEF CeilDiv, q

(* Rounded-up division is the only number of blocks without an empty one. *)
LEMMA CeilDivIs ==
  ASSUME NEW n \in Nat, NEW k \in Nat,
         n <= k * BlockSize, k # 0 => (k - 1) * BlockSize < n
  PROVE  CeilDiv(n, BlockSize) = k
<1> DEFINE q == (n + BlockSize - 1) \div BlockSize
<1>1. BlockSize \in Nat /\ BlockSize >= 1 /\ n + BlockSize - 1 \in Nat
  BY KVAssumption
<1>2. q \in Nat BY <1>1
<1>3. q * BlockSize <= n + BlockSize - 1 /\ n + BlockSize - 1 < (q + 1) * BlockSize
  BY <1>1
<1>4. (q + 1) * BlockSize = q * BlockSize + BlockSize /\ q * BlockSize \in Nat
  BY <1>2, Multiples
<1>5. k * BlockSize \in Nat BY Multiples
<1> HIDE DEF q
<1>6. ~(q < k)
  <2> SUFFICES ASSUME q < k PROVE FALSE OBVIOUS
  <2>1. k - 1 \in Nat /\ q <= k - 1 BY <1>2
  <2>2. q * BlockSize <= (k - 1) * BlockSize BY <1>2, <2>1, Multiples, <1>1
  <2>3. (k - 1) * BlockSize \in Nat BY <2>1, Multiples
  <2>4. QED BY <1>1, <1>3, <1>4, <2>1, <2>2, <2>3
<1>7. ~(k < q)
  <2> SUFFICES ASSUME k < q PROVE FALSE OBVIOUS
  <2>1. k * BlockSize + BlockSize <= q * BlockSize BY <1>2, Multiples
  <2>2. QED BY <1>1, <1>3, <1>4, <1>5, <2>1
<1>8. QED BY <1>2, <1>6, <1>7 DEF CeilDiv, q

------------------------------
(* RoomInv: the shared facts. *)

(* Blocks on a request's list are blocks of the cache. *)
LEMMA HeldType ==
  ASSUME TypeOK, NEW r \in Requests
  PROVE  /\ Held(r) \subseteq Blocks
         /\ RangeOf(requestMap[r]) \subseteq Held(r)
         /\ call.op # "release" => Held(r) = RangeOf(requestMap[r])
<1>1. RangeOf(requestMap[r]) \subseteq Blocks BY DEF TypeOK, RangeOf
<1>2. ASSUME call.op = "release" PROVE RangeOf(call.left) \subseteq Blocks
  BY SMTT(60), <1>2, ReleaseCallType DEF TypeOK, RangeOf
<1>3. QED BY <1>1, <1>2 DEF Held

(* Nobody takes hold of a block, and no block becomes partly filled. *)
LEMMA PrivateKept ==
  ASSUME TypeOK, Private,
         \A r \in Requests : Held(r)' \subseteq Held(r),
         \A b \in Blocks : Len(tokens'[b]) # BlockSize => Len(tokens[b]) # BlockSize
  PROVE  Private'
<1> SUFFICES ASSUME NEW q \in Requests, NEW r \in Requests,
                    NEW b \in Held(q)' \cap Held(r)',
                    Len(tokens'[b]) # BlockSize
             PROVE  q = r
  BY DEF Private
<1>1. b \in Held(q) \cap Held(r) /\ b \in Blocks BY HeldType
<1>2. QED BY <1>1 DEF Private

(* With the lists and the contents as they were, no list gains a block     *)
(* that is empty or overfull.                                              *)
LEMMA FilledKept ==
  ASSUME Filled,
         \A r \in Requests : RangeOf(requestMap'[r]) \subseteq RangeOf(requestMap[r]),
         tokens' = tokens
  PROVE  Filled'
<1> SUFFICES ASSUME NEW r \in Requests, NEW b \in RangeOf(requestMap'[r])
             PROVE  Len(tokens'[b]) \in 1 .. BlockSize
  BY DEF Filled, RangeOf
<1>1. b \in RangeOf(requestMap[r]) OBVIOUS
<1>2. QED BY <1>1 DEF Filled

(* An empty cache. *)
LEMMA InitRoomInv == Init => RoomInv
<1> SUFFICES ASSUME Init PROVE RoomInv OBVIOUS
<1>1. call.op = "idle" /\ \A r \in Requests : RangeOf(requestMap[r]) = {}
  BY DEF Init, Idle, RangeOf
<1>2. \A r \in Requests : Held(r) = {} BY <1>1 DEF Held
<1>3. QED BY <1>1, <1>2 DEF Init, RoomInv, Private, CachedFull, Filled, AtRest, Budget

------------------------------
(* RoomInv: the start of an allocation. *)

(* Spare counts the room in a partly filled latest block, and nothing else *)
(* since no listed block is empty.                                         *)
LEMMA SpareIsRoom ==
  ASSUME TypeOK, Filled, NEW r \in Requests
  PROVE  /\ Spare(r) \in Nat
         /\ Spare(r) = IF LatestIsPartial(r)
                       THEN BlockSize - Len(tokens[Last(requestMap[r])]) ELSE 0
<1>0. BlockSize \in Nat BY KVAssumption
<1>1. CASE requestMap[r] = <<>> BY <1>1 DEF Spare, LatestIsPartial
<1>2. CASE requestMap[r] # <<>>
  <2>1. requestMap[r] \in Seq(Blocks) BY DEF TypeOK
  <2>2. Last(requestMap[r]) \in RangeOf(requestMap[r])
    BY <1>2, <2>1, FrontDistinct
  <2>3. Len(tokens[Last(requestMap[r])]) \in 1 .. BlockSize BY <2>2 DEF Filled
  <2>4. QED BY <1>0, <1>2, <2>3 DEF Spare, LatestIsPartial
<1>3. QED BY <1>1, <1>2

(* The cached blocks on the free list are at most the positions the        *)
(* pre-check counts.                                                       *)
LEMMA FreeCachedCount ==
  ASSUME NEW cached \in Seq(Blocks)
  PROVE  LET P == {i \in 1 .. Len(cached) : ~inUse[cached[i]]}
             F == {b \in RangeOf(cached) : ~inUse[b]}
         IN  /\ IsFiniteSet(F)
             /\ Cardinality(F) \in Nat /\ Cardinality(P) \in Nat
             /\ Cardinality(F) <= Cardinality(P)
<1> DEFINE P == {i \in 1 .. Len(cached) : ~inUse[cached[i]]}
           F == {b \in RangeOf(cached) : ~inUse[b]}
           f == [i \in P |-> cached[i]]
<1>1. IsFiniteSet(1 .. Len(cached)) BY FS_Interval
<1>2. IsFiniteSet(P) BY <1>1, FS_Subset
<1>3. f \in Surjection(P, F) BY DEF Surjection, RangeOf
<1> HIDE DEF P, F, f
<1>4. IsFiniteSet(F) /\ Cardinality(F) <= Cardinality(P)
  BY <1>2, <1>3, FS_Surjection
<1>5. QED BY <1>2, <1>4, FS_CardinalityType DEF P, F

(* A check that passed leaves room for the call. *)
LEMMA PreCheckGivesBudget ==
  ASSUME KVInv, Filled, NEW r \in Requests,
         NEW pos \in Nat, NEW end \in Nat, pos <= end,
         NEW cached \in Seq(Blocks),
         cached # <<>> => requestMap[r] = <<>>,
         progress[r] < InputLen(r) \/ (end = pos + 1 /\ cached = <<>>),
         PreCheck(r, pos, end, cached)
  PROVE  \E k \in Nat :
           /\ end - pos <= (IF cached = <<>> /\ LatestIsPartial(r)
                            THEN BlockSize - Len(tokens[Last(requestMap[r])])
                            ELSE 0) + k * BlockSize
           /\ k + Cardinality({b \in RangeOf(cached) : ~inUse[b]}) <= freeBlockCnt
<1> DEFINE room == IF cached = <<>> /\ LatestIsPartial(r)
                   THEN BlockSize - Len(tokens[Last(requestMap[r])]) ELSE 0
           F == {b \in RangeOf(cached) : ~inUse[b]}
           P == {i \in 1 .. Len(cached) : ~inUse[cached[i]]}
<1>1. Spare(r) \in Nat /\ Spare(r) = room
  <2>1. cached # <<>> => ~LatestIsPartial(r) BY DEF LatestIsPartial
  <2>2. QED BY <2>1, SpareIsRoom DEF KVInv
<1>2. /\ Cardinality(F) \in Nat /\ Cardinality(P) \in Nat
      /\ Cardinality(F) <= Cardinality(P)
  BY FreeCachedCount
<1>3. freeBlockCnt \in Nat /\ BlockSize \in Nat /\ BlockSize >= 1
  BY KVAssumption DEF KVInv, TypeOK
<1>4. CASE progress[r] < InputLen(r)
  <2> DEFINE new == (end - pos) - Least(Spare(r), end - pos)
             k == CeilDiv(new, BlockSize)
  <2>1. k + Cardinality(P) <= freeBlockCnt BY <1>4 DEF PreCheck
  <2>2. new \in Nat /\ end - pos <= room + new BY <1>1 DEF Least
  <2>3. k \in Nat /\ new <= k * BlockSize /\ k * BlockSize \in Nat
    BY <2>2, CeilDivCovers, Multiples
  <2> HIDE DEF new, k, room, F, P
  <2>4. end - pos <= room + k * BlockSize BY SMTT(60), <1>1, <2>2, <2>3
  <2>5. k + Cardinality(F) <= freeBlockCnt BY SMTT(60), <1>2, <1>3, <2>1, <2>3
  <2>6. QED BY <2>3, <2>4, <2>5 DEF room, F
<1>5. CASE ~(progress[r] < InputLen(r))
  <2>1. Spare(r) = 0 => freeBlockCnt # 0 BY <1>5 DEF PreCheck
  <2>2. F = {} /\ Cardinality(F) = 0
    <3>1. RangeOf(cached) = {} BY <1>5 DEF RangeOf
    <3>2. QED BY <3>1, FS_EmptySet
  <2> HIDE DEF room, F, P
  <2>3. CASE room = 0
    <3>1. end - pos <= room + 1 * BlockSize /\ 1 + Cardinality(F) <= freeBlockCnt
      BY <1>1, <1>3, <1>5, <2>1, <2>2, <2>3
    <3>2. QED BY <3>1 DEF room, F
  <2>4. CASE room # 0
    <3>1. end - pos <= room + 0 * BlockSize /\ 0 + Cardinality(F) <= freeBlockCnt
      BY <1>1, <1>3, <1>5, <2>2, <2>4, Multiples
    <3>2. QED BY <3>1 DEF room, F
  <2>5. QED BY <2>3, <2>4
<1>6. QED BY <1>4, <1>5

(* Any allocation that passed its pre-check starts inside its budget. *)
LEMMA StartAllocateRoomInv ==
  ASSUME KVInv, RoomInv, call = Idle, UNCHANGED <<poolVars, progress>>,
         NEW r \in Requests, NEW pos \in Nat, NEW end \in Nat, pos <= end,
         NEW cached \in Seq(Blocks), NEW final \in BOOLEAN,
         \A b \in RangeOf(cached) : Len(tokens[b]) = BlockSize,
         cached # <<>> => requestMap[r] = <<>>,
         progress[r] < InputLen(r) \/ (end = pos + 1 /\ cached = <<>>),
         PreCheck(r, pos, end, cached),
         call' = AllocCall(r, pos, end, cached, final),
         running' = running \cup {r}
  PROVE  RoomInv'
<1>1. /\ call'.op = "alloc" /\ call'.req = r /\ call'.cached = cached
      /\ call'.pos = pos /\ call'.end = end /\ call.op = "idle"
  BY DEF AllocCall, Idle
<1>2. /\ requestMap' = requestMap /\ tokens' = tokens /\ inUse' = inUse
      /\ freeBlockCnt' = freeBlockCnt /\ progress' = progress
  BY DEF poolVars
<1>3. \A q \in Requests : Held(q)' = Held(q) BY <1>1, <1>2 DEF Held, RangeOf
<1>4. Private' BY <1>2, <1>3, PrivateKept DEF KVInv, RoomInv
<1>5. CachedFull'
  <2>1. RangeOf(call.cached)' = RangeOf(cached) BY <1>1 DEF RangeOf
  <2>2. QED BY <1>2, <2>1 DEF CachedFull
<1>6. Filled' BY <1>2, FilledKept DEF RoomInv
<1>7. AtRest' BY <1>2 DEF RoomInv, AtRest
<1>8. Budget'
  <2>1. PICK k \in Nat :
          /\ end - pos <= (IF cached = <<>> /\ LatestIsPartial(r)
                           THEN BlockSize - Len(tokens[Last(requestMap[r])])
                           ELSE 0) + k * BlockSize
          /\ k + Cardinality({b \in RangeOf(cached) : ~inUse[b]}) <= freeBlockCnt
    BY PreCheckGivesBudget DEF RoomInv
  <2>2. FreeCached' = {b \in RangeOf(cached) : ~inUse[b]}
    BY <1>1, <1>2 DEF FreeCached, RangeOf
  <2>3. Room(r)' = IF cached = <<>> /\ LatestIsPartial(r)
                   THEN BlockSize - Len(tokens[Last(requestMap[r])]) ELSE 0
    BY <1>1, <1>2 DEF Room, LatestIsPartial, Last
  <2>4. Room(call.req)' = Room(r)' BY <1>1 DEF Room, LatestIsPartial, Last
  <2>5. QED BY <1>1, <1>2, <2>1, <2>2, <2>3, <2>4 DEF Budget
<1>9. QED BY <1>4, <1>5, <1>6, <1>7, <1>8 DEF RoomInv

(* The start of an allocation, action by action.  What a lookup returns is *)
(* full, because only full blocks are indexed.                             *)
LEMMA AdmitRoomInv ==
  ASSUME KVInv, RoomInv, NEW r \in Requests, Admit(r)
  PROVE  RoomInv'
<1>1. PICK n \in PrefixHits(InputTokens[r]) :
        \E end \in n * BlockSize .. InputLen(r) :
          /\ PreCheck(r, n * BlockSize, end, CachedBlocks(InputTokens[r], n))
          /\ call' = AllocCall(r, n * BlockSize, end,
                               CachedBlocks(InputTokens[r], n), FALSE)
  BY DEF Admit
<1>2. PICK end \in n * BlockSize .. InputLen(r) :
        /\ PreCheck(r, n * BlockSize, end, CachedBlocks(InputTokens[r], n))
        /\ call' = AllocCall(r, n * BlockSize, end,
                             CachedBlocks(InputTokens[r], n), FALSE)
  BY <1>1
<1>3. n \in Nat /\ \A i \in 1 .. n : Chain(InputTokens[r], i) \in DOMAIN hashToBlock
  BY DEF PrefixHits
<1>4. n * BlockSize \in Nat BY <1>3, Multiples
<1>5. end \in Nat /\ n * BlockSize <= end BY <1>2, <1>4, SequenceType
<1>6. CachedBlocks(InputTokens[r], n) \in Seq(Blocks) BY CachedDistinct
<1>7. \A b \in RangeOf(CachedBlocks(InputTokens[r], n)) : Len(tokens[b]) = BlockSize
  BY <1>3 DEF CachedBlocks, RangeOf, KVInv, IndexFull
<1>8. /\ r \notin running /\ requestMap[r] = <<>> /\ progress[r] = 0
      /\ progress[r] < InputLen(r)
  BY SequenceType DEF Admit, KVInv, Ownership, RoomInv, AtRest
<1> DEFINE pos == n * BlockSize
           cached == CachedBlocks(InputTokens[r], n)
<1>9. /\ call = Idle /\ UNCHANGED <<poolVars, progress>>
      /\ running' = running \cup {r} /\ FALSE \in BOOLEAN
  BY DEF Admit
<1>10. /\ PreCheck(r, pos, end, cached)
       /\ call' = AllocCall(r, pos, end, cached, FALSE)
       /\ pos \in Nat /\ pos <= end /\ cached \in Seq(Blocks)
       /\ \A b \in RangeOf(cached) : Len(tokens[b]) = BlockSize
  BY <1>2, <1>4, <1>5, <1>6, <1>7
<1> HIDE DEF pos, cached, Admit
<1>11. QED BY <1>5, <1>8, <1>9, <1>10, StartAllocateRoomInv

(* A running request asks for more, with no cached prefix. *)
LEMMA ExtendRoomInv ==
  ASSUME KVInv, RoomInv, call = Idle, UNCHANGED <<poolVars, progress, running>>,
         NEW r \in running, NEW end \in Nat, NEW final \in BOOLEAN,
         progress[r] <= end,
         progress[r] < InputLen(r) \/ end = progress[r] + 1,
         PreCheck(r, progress[r], end, <<>>),
         call' = AllocCall(r, progress[r], end, <<>>, final)
  PROVE  RoomInv'
<1>1. r \in Requests /\ progress[r] \in Nat BY DEF KVInv, TypeOK
<1>2. <<>> \in Seq(Blocks) /\ RangeOf(<<>>) = {} BY DEF RangeOf
<1>3. running' = running \cup {r} OBVIOUS
<1>4. \A b \in RangeOf(<<>>) : Len(tokens[b]) = BlockSize BY <1>2
<1>5. QED BY <1>1, <1>2, <1>3, <1>4, StartAllocateRoomInv

(* Phase 1 of FormBatch: the next prefill chunk. *)
LEMMA ContinuePrefillRoomInv ==
  ASSUME KVInv, RoomInv, NEW r \in Requests, ContinuePrefill(r)
  PROVE  RoomInv'
<1>1. PICK end \in progress[r] + 1 .. InputLen(r) :
        /\ PreCheck(r, progress[r], end, <<>>)
        /\ call' = AllocCall(r, progress[r], end, <<>>, FALSE)
  BY DEF ContinuePrefill
<1>2. progress[r] \in Nat /\ InputLen(r) \in Nat
  BY SequenceType DEF KVInv, TypeOK
<1>3. end \in Nat /\ progress[r] <= end BY <1>1, <1>2
<1>4. /\ call = Idle /\ UNCHANGED <<poolVars, progress, running>> /\ r \in running
      /\ progress[r] < InputLen(r)
  BY DEF ContinuePrefill
<1>5. QED BY <1>1, <1>3, <1>4, ExtendRoomInv

(* Phase 1 of FormBatch: the next decode token. *)
LEMMA DecodeRoomInv ==
  ASSUME KVInv, RoomInv, NEW r \in Requests, Decode(r)
  PROVE  RoomInv'
<1>1. progress[r] \in Nat /\ progress[r] + 1 \in Nat /\ progress[r] <= progress[r] + 1
  BY DEF KVInv, TypeOK
<1>2. QED BY <1>1, ExtendRoomInv DEF Decode

------------------------------
(* RoomInv: releases. *)

(* The list of a released request moves to the call. *)
LEMMA StartReleaseRoomInv ==
  ASSUME KVInv, RoomInv, NEW r \in running, call.op # "release", StartRelease(r)
  PROVE  RoomInv'
<1>0. r \in Requests BY DEF KVInv, TypeOK
<1>1. /\ call'.op = "release" /\ call'.req = r /\ call'.left = requestMap[r]
      /\ tokens' = tokens
      /\ requestMap' = [requestMap EXCEPT ![r] = <<>>]
      /\ progress' = [progress EXCEPT ![r] = 0]
      /\ running' = running \ {r}
  BY DEF StartRelease, ReleaseCall
<1>2. /\ RangeOf(requestMap'[r]) = {}
      /\ \A q \in Requests \ {r} : requestMap'[q] = requestMap[q]
  BY <1>0, <1>1 DEF KVInv, TypeOK, RangeOf
<1>3. \A q \in Requests : Held(q)' \subseteq Held(q)
  <2>1. Held(r)' = RangeOf(requestMap[r]) BY <1>1, <1>2 DEF Held, RangeOf
  <2>2. \A q \in Requests \ {r} : Held(q)' = RangeOf(requestMap[q])
    BY <1>1, <1>2 DEF Held, RangeOf
  <2>3. QED BY <2>1, <2>2 DEF Held
<1>4. Private' BY <1>1, <1>3, PrivateKept DEF KVInv, RoomInv
<1>5. Filled'
  <2>1. \A q \in Requests : RangeOf(requestMap'[q]) \subseteq RangeOf(requestMap[q])
    BY <1>2
  <2>2. QED BY <1>1, <2>1, FilledKept DEF RoomInv
<1>6. AtRest' BY <1>0, <1>1 DEF KVInv, TypeOK, RoomInv, AtRest
<1>7. CachedFull' /\ Budget' BY <1>1 DEF CachedFull, Budget
<1>8. QED BY <1>4, <1>5, <1>6, <1>7 DEF RoomInv

(* processCompletions: the last token, or the release at once. *)
LEMMA CompleteRoomInv ==
  ASSUME KVInv, RoomInv, NEW r \in Requests, Complete(r)
  PROVE  RoomInv'
<1>1. call.op # "release" /\ r \in running /\ progress[r] \in Nat /\ call = Idle
  BY DEF Complete, Idle, KVInv, TypeOK
<1>2. CASE /\ PreCheck(r, progress[r], progress[r] + 1, <<>>)
           /\ call' = AllocCall(r, progress[r], progress[r] + 1, <<>>, TRUE)
           /\ UNCHANGED <<poolVars, progress, running>>
  <2>1. progress[r] + 1 \in Nat /\ progress[r] <= progress[r] + 1 BY <1>1
  <2>2. QED BY <1>1, <1>2, <2>1, ExtendRoomInv
<1>3. CASE StartRelease(r) BY <1>1, <1>3, StartReleaseRoomInv
<1>4. QED BY <1>2, <1>3 DEF Complete

(* Preemption, timeout and eviction release. *)
LEMMA WithdrawRoomInv ==
  ASSUME KVInv, RoomInv, NEW r \in Requests, Withdraw(r)
  PROVE  RoomInv'
<1>1. call.op # "release" /\ r \in running /\ StartRelease(r)
  BY DEF Withdraw, Idle
<1>2. QED BY <1>1, StartReleaseRoomInv

(* One block goes back. *)
LEMMA ReleaseBlockRoomInv ==
  ASSUME KVInv, RoomInv, ReleaseBlock
  PROVE  RoomInv'
<1>0. /\ call \in [op : {"release"}, req : Requests, left : Seq(Blocks)]
      /\ call.op = "release" /\ call.left \in Seq(Blocks) /\ call.left # <<>>
  BY ReleaseCallType DEF ReleaseBlock, KVInv, TypeOK
<1> DEFINE rest == SubSeq(call.left, 1, Len(call.left) - 1)
<1>1. RangeOf(rest) \subseteq RangeOf(call.left)
  BY <1>0, FrontDistinct DEF KVInv, Ownership
<1>2. call' = [call EXCEPT !.left = rest]
      /\ UNCHANGED <<tokens, requestMap, progress, running>>
  BY DEF ReleaseBlock
<1> HIDE DEF rest
<1>3. call'.op = "release" /\ call'.req = call.req /\ call'.left = rest
  BY <1>0, <1>2
<1>4. \A q \in Requests : Held(q)' \subseteq Held(q)
  BY <1>0, <1>1, <1>2, <1>3 DEF Held, RangeOf
<1>5. Private' BY <1>2, <1>4, PrivateKept DEF KVInv, RoomInv
<1>6. Filled' BY <1>2, FilledKept DEF RoomInv
<1>7. QED BY <1>2, <1>3, <1>5, <1>6 DEF RoomInv, CachedFull, AtRest, Budget

(* The release is over. *)
LEMMA FinishReleaseRoomInv ==
  ASSUME KVInv, RoomInv, FinishRelease
  PROVE  RoomInv'
<1>1. call' = Idle /\ call'.op = "idle" /\ UNCHANGED <<poolVars, progress, running>>
  BY DEF FinishRelease, Idle
<1>2. \A q \in Requests : Held(q)' \subseteq Held(q)
  BY <1>1 DEF Held, RangeOf, poolVars
<1>3. Private' BY <1>1, <1>2, PrivateKept DEF KVInv, RoomInv, poolVars
<1>4. Filled' BY <1>1, FilledKept DEF RoomInv, poolVars
<1>5. QED BY <1>1, <1>3, <1>4 DEF RoomInv, CachedFull, AtRest, Budget, poolVars

(* The allocation has stored everything. *)
LEMMA FinishAllocateRoomInv ==
  ASSUME KVInv, RoomInv, FinishAllocate
  PROVE  RoomInv'
<1>1. call.op = "alloc" /\ call.req \in running /\ call.req \in Requests
  BY AllocCallType DEF FinishAllocate, KVInv, TypeOK, Ownership
<1>2. CASE call.final BY <1>1, <1>2, StartReleaseRoomInv DEF FinishAllocate
<1>3. CASE ~call.final
  <2>1. /\ progress' = [progress EXCEPT ![call.req] = call.end]
        /\ call' = Idle /\ call'.op = "idle" /\ UNCHANGED <<poolVars, running>>
    BY <1>3 DEF FinishAllocate, Idle
  <2>2. \A q \in Requests : Held(q)' \subseteq Held(q)
    BY <2>1 DEF Held, RangeOf, poolVars
  <2>3. Private' BY <2>1, <2>2, PrivateKept DEF KVInv, RoomInv, poolVars
  <2>4. Filled' BY <2>1, FilledKept DEF RoomInv, poolVars
  <2>5. AtRest' BY <1>1, <2>1 DEF RoomInv, AtRest, KVInv, TypeOK
  <2>6. QED BY <2>1, <2>3, <2>4, <2>5 DEF RoomInv, CachedFull, Budget
<1>4. QED BY <1>2, <1>3

------------------------------
(* The iterations of an allocation. *)

(* The types of an allocation in progress. *)
LEMMA AllocFacts ==
  ASSUME KVInv, call.op = "alloc"
  PROVE  /\ call \in [op : {"alloc"}, req : Requests, pos : Nat, end : Nat,
                      cached : Seq(Blocks), final : BOOLEAN]
         /\ call.req \in Requests /\ call.req \in running
         /\ call.pos \in Nat /\ call.end \in Nat /\ call.pos <= call.end
         /\ call.end <= Len(Sequence(call.req))
         /\ call.cached \in Seq(Blocks) /\ Distinct(call.cached)
         /\ requestMap[call.req] \in Seq(Blocks)
         /\ freeBlockCnt \in Nat /\ BlockSize \in Nat /\ BlockSize >= 1
         /\ tokens \in [Blocks -> Seq(Tokens)]
         /\ hash \in [Blocks -> Seq(Seq(Tokens))]
BY SMTT(60), AllocCallType, KVAssumption DEF KVInv, TypeOK, Ownership

(* The block an allocation appends to, up to where, and what it then holds. *)
FillBlock == Last(requestMap[call.req])
FillStop == Least(call.pos + BlockSize - Len(tokens[FillBlock]), call.end)
FillContent ==
  tokens[FillBlock] \o SubSeq(Sequence(call.req), call.pos + 1, FillStop)

(* What a step that fills the latest block changes. *)
LEMMA FillFacts ==
  ASSUME KVInv, FillLatest
  PROVE  /\ call.op = "alloc" /\ call.pos < call.end /\ call.cached = <<>>
         /\ requestMap[call.req] # <<>> /\ FillBlock \in Blocks
         /\ FillBlock \in RangeOf(requestMap[call.req])
         /\ Len(tokens[FillBlock]) \in 1 .. BlockSize - 1
         /\ FillStop \in Nat /\ call.pos < FillStop /\ FillStop <= call.end
         /\ FillContent \in Seq(Tokens)
         /\ Len(FillContent) = Len(tokens[FillBlock]) + (FillStop - call.pos)
         /\ Len(FillContent) \in 1 .. BlockSize
         /\ tokens' = [tokens EXCEPT ![FillBlock] = FillContent]
         /\ call' = [call EXCEPT !.pos = FillStop]
         /\ call'.op = "alloc" /\ call'.req = call.req /\ call'.pos = FillStop
         /\ call'.end = call.end /\ call'.cached = call.cached
         /\ UNCHANGED <<freeBlockCnt, inUse, requestMap, progress, running>>
<1>1. /\ call.op = "alloc" /\ call.pos < call.end /\ call.cached = <<>>
      /\ requestMap[call.req] # <<>>
      /\ Len(tokens[FillBlock]) \in 1 .. BlockSize - 1
  BY DEF FillLatest, LatestIsPartial, FillBlock
<1>2. FillBlock \in Blocks /\ FillBlock \in RangeOf(requestMap[call.req])
  BY <1>1, AllocFacts, FrontDistinct DEF FillBlock
<1>3. FillStop \in Nat /\ call.pos < FillStop /\ FillStop <= call.end
      /\ FillStop - call.pos <= BlockSize - Len(tokens[FillBlock])
  <2> DEFINE used == Len(tokens[FillBlock])
  <2>1. /\ call.pos \in Nat /\ call.end \in Nat /\ call.pos < call.end
        /\ used \in 1 .. BlockSize - 1 /\ BlockSize \in Nat
    BY <1>1, AllocFacts
  <2>2. FillStop = IF call.pos + BlockSize - used <= call.end
                   THEN call.pos + BlockSize - used ELSE call.end
    BY DEF FillStop, Least
  <2> HIDE DEF used
  <2>3. FillStop \in Nat /\ call.pos < FillStop /\ FillStop <= call.end
        /\ FillStop - call.pos <= BlockSize - used
    BY <2>1, <2>2
  <2>4. QED BY <2>3 DEF used
<1>4. /\ SubSeq(Sequence(call.req), call.pos + 1, FillStop) \in Seq(Tokens)
      /\ Len(SubSeq(Sequence(call.req), call.pos + 1, FillStop)) = FillStop - call.pos
  <2>1. /\ call.req \in Requests /\ call.pos \in Nat /\ call.end \in Nat
        /\ call.end <= Len(Sequence(call.req))
    BY <1>1, AllocFacts
  <2>2. Len(Sequence(call.req)) \in Nat BY <2>1, SequenceType
  <2>3. FillStop <= Len(Sequence(call.req)) /\ call.pos <= FillStop
    BY <1>3, <2>1, <2>2
  <2>4. QED BY <1>3, <2>1, <2>3, StoredType
<1>5. /\ tokens[FillBlock] \in Seq(Tokens) /\ FillContent \in Seq(Tokens)
      /\ Len(FillContent) = Len(tokens[FillBlock]) + (FillStop - call.pos)
  <2>1. tokens[FillBlock] \in Seq(Tokens) BY <1>1, <1>2, AllocFacts
  <2>2. QED BY <1>4, <2>1 DEF FillContent
<1>6. Len(FillContent) \in 1 .. BlockSize
  <2> DEFINE used == Len(tokens[FillBlock])
  <2>1. call.pos \in Nat /\ BlockSize \in Nat /\ used \in 1 .. BlockSize - 1
    BY <1>1, AllocFacts
  <2>2. Len(FillContent) = used + (FillStop - call.pos)
        /\ FillStop - call.pos <= BlockSize - used
    BY <1>3, <1>5
  <2> HIDE DEF used
  <2>3. QED BY <1>3, <2>1, <2>2
<1>7. /\ tokens' = [tokens EXCEPT ![FillBlock] = FillContent]
      /\ call' = [call EXCEPT !.pos = FillStop]
      /\ UNCHANGED <<freeBlockCnt, inUse, requestMap, progress, running>>
  BY DEF FillLatest, FillBlock, FillStop, FillContent
<1>8. /\ call'.op = "alloc" /\ call'.req = call.req /\ call'.pos = FillStop
      /\ call'.end = call.end /\ call'.cached = call.cached
  BY <1>1, <1>7, AllocFacts
<1>9. QED BY <1>1, <1>2, <1>3, <1>5, <1>6, <1>7, <1>8

(* The block popFreeBlock returns, up to where it is filled, and its        *)
(* content.                                                                *)
PopStop == Least(call.pos + BlockSize, call.end)
PopContent == SubSeq(Sequence(call.req), call.pos + 1, PopStop)

(* What a step that takes a block off the free list changes. *)
LEMMA PopFacts ==
  ASSUME KVInv, PopBlock
  PROVE  /\ call.op = "alloc" /\ call.pos < call.end /\ call.cached = <<>>
         /\ ~LatestIsPartial(call.req)
         /\ Head(freeList) \in Blocks /\ ~inUse[Head(freeList)]
         /\ refCount[Head(freeList)] = 0 /\ Holders(Head(freeList)) = {}
         /\ PopStop \in Nat /\ call.pos < PopStop /\ PopStop <= call.end
         /\ PopContent \in Seq(Tokens) /\ Len(PopContent) = PopStop - call.pos
         /\ Len(PopContent) \in 1 .. BlockSize
         /\ tokens' = [tokens EXCEPT ![Head(freeList)] = PopContent]
         /\ call' = [call EXCEPT !.pos = PopStop]
         /\ call'.op = "alloc" /\ call'.req = call.req /\ call'.pos = PopStop
         /\ call'.end = call.end /\ call'.cached = call.cached
         /\ freeBlockCnt' = freeBlockCnt - 1
         /\ requestMap' \in [Requests -> Seq(Blocks)]
         /\ requestMap'[call.req] = Append(requestMap[call.req], Head(freeList))
         /\ RangeOf(requestMap'[call.req]) =
              RangeOf(requestMap[call.req]) \cup {Head(freeList)}
         /\ \A q \in Requests \ {call.req} : requestMap'[q] = requestMap[q]
         /\ UNCHANGED <<progress, running>>
<1>1. /\ call.op = "alloc" /\ call.pos < call.end /\ call.cached = <<>>
      /\ ~LatestIsPartial(call.req) /\ freeList # <<>>
      /\ UNCHANGED <<progress, running>>
  BY DEF PopBlock
<1>2. /\ Head(freeList) \in Blocks /\ Head(freeList) \in RangeOf(freeList)
      /\ ~inUse[Head(freeList)]
  <2>1. freeList \in Seq(Blocks) BY DEF KVInv, TypeOK
  <2>2. Head(freeList) \in Blocks /\ Head(freeList) \in RangeOf(freeList)
    BY <1>1, <2>1, TailDistinct
  <2>3. QED BY <2>2 DEF KVInv, Conservation
<1>3. refCount[Head(freeList)] = 0 /\ Holders(Head(freeList)) = {}
  <2>1. refCount[Head(freeList)] = 0 /\ Cardinality(Holders(Head(freeList))) = 0
    BY <1>2 DEF KVInv, RefCountExact, TypeOK
  <2>2. QED BY <2>1, HoldersFinite, FS_EmptySet
<1>4. /\ PopStop \in Nat /\ call.pos < PopStop /\ PopStop <= call.end
      /\ PopStop - call.pos \in 1 .. BlockSize
  BY SMTT(60), <1>1, AllocFacts DEF PopStop, Least
<1>5. PopContent \in Seq(Tokens) /\ Len(PopContent) = PopStop - call.pos
  <2>1. PopStop <= Len(Sequence(call.req)) /\ call.pos <= PopStop
    BY SMTT(60), <1>1, <1>4, AllocFacts, SequenceType
  <2>2. QED BY ZenonT(60), <1>1, <1>4, <2>1, AllocFacts, StoredType DEF PopContent
<1>6. /\ tokens' = [tokens EXCEPT ![Head(freeList)] = PopContent]
      /\ call' = [call EXCEPT !.pos = PopStop]
      /\ freeBlockCnt' = freeBlockCnt - 1
      /\ requestMap' = [requestMap EXCEPT ![call.req] = Append(@, Head(freeList))]
  BY DEF PopBlock, PopStop, PopContent
<1>7. /\ call'.op = "alloc" /\ call'.req = call.req /\ call'.pos = PopStop
      /\ call'.end = call.end /\ call'.cached = call.cached
  BY <1>1, <1>6, AllocFacts
<1>8. /\ requestMap' \in [Requests -> Seq(Blocks)]
      /\ requestMap'[call.req] = Append(requestMap[call.req], Head(freeList))
      /\ \A q \in Requests \ {call.req} : requestMap'[q] = requestMap[q]
  <2>1. call.req \in Requests /\ Append(requestMap[call.req], Head(freeList)) \in Seq(Blocks)
    BY <1>1, <1>2, AllocFacts
  <2>2. requestMap \in [Requests -> Seq(Blocks)] BY DEF KVInv, TypeOK
  <2>3. QED BY <1>6, <2>1, <2>2
<1>9. RangeOf(requestMap'[call.req]) =
        RangeOf(requestMap[call.req]) \cup {Head(freeList)}
  <2>1. requestMap[call.req] \in Seq(Blocks) BY <1>1, AllocFacts
  <2>2. QED BY <1>2, <1>8, <2>1, AppendDistinct
<1>10. QED BY <1>1, <1>2, <1>3, <1>4, <1>5, <1>6, <1>7, <1>8, <1>9

(* A claim moves the first of the cached blocks to the request's list. *)
LEMMA ClaimFacts ==
  ASSUME KVInv, ClaimCached
  PROVE  /\ call.op = "alloc" /\ call.pos < call.end /\ call.cached # <<>>
         /\ Head(call.cached) \in Blocks
         /\ Head(call.cached) \in RangeOf(call.cached)
         /\ RangeOf(Tail(call.cached)) = RangeOf(call.cached) \ {Head(call.cached)}
         /\ call'.op = "alloc" /\ call'.req = call.req /\ call'.pos = call.pos
         /\ call'.end = call.end /\ call'.cached = Tail(call.cached)
         /\ inUse' = [inUse EXCEPT ![Head(call.cached)] = TRUE]
         /\ freeBlockCnt' = IF inUse[Head(call.cached)] THEN freeBlockCnt
                            ELSE freeBlockCnt - 1
         /\ requestMap' \in [Requests -> Seq(Blocks)]
         /\ requestMap'[call.req] = Append(requestMap[call.req], Head(call.cached))
         /\ RangeOf(requestMap'[call.req]) =
              RangeOf(requestMap[call.req]) \cup {Head(call.cached)}
         /\ \A q \in Requests \ {call.req} : requestMap'[q] = requestMap[q]
         /\ UNCHANGED <<tokens, hash, hashToBlock, progress, running>>
<1>1. /\ call.op = "alloc" /\ call.pos < call.end /\ call.cached # <<>>
      /\ UNCHANGED <<tokens, hash, hashToBlock, progress, running>>
  BY DEF ClaimCached
<1>2. /\ Head(call.cached) \in Blocks
      /\ Head(call.cached) \in RangeOf(call.cached)
      /\ RangeOf(Tail(call.cached)) = RangeOf(call.cached) \ {Head(call.cached)}
  BY <1>1, AllocFacts, TailDistinct
<1>3. /\ call' = [call EXCEPT !.cached = Tail(@)]
      /\ inUse' = [inUse EXCEPT ![Head(call.cached)] = TRUE]
      /\ freeBlockCnt' = IF inUse[Head(call.cached)] THEN freeBlockCnt
                         ELSE freeBlockCnt - 1
      /\ requestMap' = [requestMap EXCEPT ![call.req] = Append(@, Head(call.cached))]
  BY DEF ClaimCached
<1>4. /\ call'.op = "alloc" /\ call'.req = call.req /\ call'.pos = call.pos
      /\ call'.end = call.end /\ call'.cached = Tail(call.cached)
  BY <1>1, <1>3, AllocFacts
<1>5. /\ requestMap' \in [Requests -> Seq(Blocks)]
      /\ requestMap'[call.req] = Append(requestMap[call.req], Head(call.cached))
      /\ \A q \in Requests \ {call.req} : requestMap'[q] = requestMap[q]
  <2>1. call.req \in Requests /\ Append(requestMap[call.req], Head(call.cached)) \in Seq(Blocks)
    BY <1>1, <1>2, AllocFacts
  <2>2. requestMap \in [Requests -> Seq(Blocks)] BY DEF KVInv, TypeOK
  <2>3. QED BY <1>3, <2>1, <2>2
<1>6. RangeOf(requestMap'[call.req]) =
        RangeOf(requestMap[call.req]) \cup {Head(call.cached)}
  <2>1. requestMap[call.req] \in Seq(Blocks) BY <1>1, AllocFacts
  <2>2. QED BY <1>2, <1>5, <2>1, AppendDistinct
<1>7. QED BY <1>1, <1>2, <1>3, <1>4, <1>5, <1>6

(* A claim takes at most the block the budget kept apart for it. *)
LEMMA ClaimCachedRoomInv ==
  ASSUME KVInv, RoomInv, ClaimCached
  PROVE  RoomInv'
<1> PICK r \in Requests, b \in Blocks : r = call.req /\ b = Head(call.cached)
  BY ClaimFacts, AllocFacts
<1>0. call.op # "release" /\ call'.op # "release" BY ClaimFacts
<1>9. RangeOf(call.cached)' = RangeOf(call.cached) \ {b}
  <2>1. RangeOf(call.cached)' = RangeOf(Tail(call.cached))
    <3>1. call'.cached = Tail(call.cached) BY ClaimFacts
    <3>2. QED BY <3>1 DEF RangeOf
  <2>2. QED BY <2>1, ClaimFacts
<1>10. /\ RangeOf(requestMap[r])' = RangeOf(requestMap[r]) \cup {b}
      /\ \A q \in Requests \ {r} : RangeOf(requestMap[q])' = RangeOf(requestMap[q])
  <2>1. RangeOf(requestMap[r])' = RangeOf(requestMap'[r]) BY DEF RangeOf
  <2>2. \A q \in Requests \ {r} : RangeOf(requestMap[q])' = RangeOf(requestMap[q])
    BY ClaimFacts DEF RangeOf
  <2>3. QED BY <2>1, <2>2, ClaimFacts
<1>1. Len(tokens[b]) = BlockSize BY ClaimFacts DEF RoomInv, CachedFull
<1>2. /\ Held(r)' = Held(r) \cup {b}
      /\ \A q \in Requests \ {r} : Held(q)' = Held(q)
  BY <1>0, <1>10 DEF Held
<1>3. Private'
  <2> SUFFICES ASSUME NEW p \in Requests, NEW q \in Requests,
                      NEW c \in Held(p)' \cap Held(q)', Len(tokens'[c]) # BlockSize
               PROVE  p = q
    BY DEF Private
  <2>1. tokens' = tokens /\ c # b BY <1>1, ClaimFacts
  <2>2. c \in Held(p) \cap Held(q) BY <1>2, <2>1
  <2>3. QED BY <2>1, <2>2 DEF RoomInv, Private
<1>4. CachedFull' BY <1>9, ClaimFacts DEF RoomInv, CachedFull
<1>5. Filled'
  <2> SUFFICES ASSUME NEW q \in Requests, NEW c \in RangeOf(requestMap'[q])
               PROVE  Len(tokens'[c]) \in 1 .. BlockSize
    BY DEF Filled, RangeOf
  <2>1. tokens' = tokens /\ (c \in RangeOf(requestMap[q]) \/ c = b)
    BY ClaimFacts
  <2>2. BlockSize \in 1 .. BlockSize BY KVAssumption
  <2>3. QED BY <1>1, <2>1, <2>2 DEF RoomInv, Filled
<1>6. AtRest' BY ClaimFacts DEF RoomInv, AtRest
<1>7. Budget'
  <2>1. PICK k \in Nat :
          /\ call.end - call.pos <= Room(r) + k * BlockSize
          /\ k + Cardinality(FreeCached) <= freeBlockCnt
    BY ClaimFacts DEF RoomInv, Budget
  <2>2. Room(r) = 0 BY ClaimFacts DEF Room
  <2>3. Room(r)' \in Nat
    <3>1. (\/ Room(r)' = 0
           \/ /\ Len(tokens'[Last(requestMap'[r])]) \in 1 .. BlockSize - 1
              /\ Room(r)' = BlockSize - Len(tokens'[Last(requestMap'[r])]))
      BY ClaimFacts DEF Room, LatestIsPartial, Last
    <3>2. BlockSize \in Nat BY KVAssumption
    <3>3. QED BY <3>1, <3>2
  <2>4. /\ IsFiniteSet(FreeCached) /\ Cardinality(FreeCached) \in Nat
    BY ClaimFacts, AllocFacts, FreeCachedCount DEF FreeCached
  <2>5. k + Cardinality(FreeCached') <= freeBlockCnt'
    <3>2. FreeCached' = FreeCached \ {b}
      <4>1. \A c \in RangeOf(call.cached) : c \in Blocks
        <5>1. call.cached \in Seq(Blocks) BY ClaimFacts, AllocFacts
        <5>2. QED BY <5>1 DEF RangeOf
      <4>2. \A c \in Blocks \ {b} : inUse'[c] = inUse[c]
        BY ClaimFacts DEF KVInv, TypeOK
      <4>3. QED BY <1>9, <4>1, <4>2 DEF FreeCached
    <3>3. CASE inUse[b]
      <4>1. FreeCached' = FreeCached BY <3>2, <3>3 DEF FreeCached
      <4>2. QED BY <2>1, <3>3, <4>1, ClaimFacts
    <3>4. CASE ~inUse[b]
      <4>1. b \in FreeCached BY <3>4, ClaimFacts DEF FreeCached
      <4>2. Cardinality(FreeCached') = Cardinality(FreeCached) - 1
        BY <2>4, <3>2, <4>1, FS_RemoveElement
      <4>3. freeBlockCnt' = freeBlockCnt - 1 /\ freeBlockCnt \in Nat
        BY <3>4, ClaimFacts, AllocFacts
      <4>4. QED BY <2>1, <2>4, <4>2, <4>3
    <3>5. QED BY <3>3, <3>4
  <2>6. call'.end - call'.pos <= Room(r)' + k * BlockSize
    <3>1. k * BlockSize \in Nat /\ call.end \in Nat /\ call.pos \in Nat
      BY Multiples, ClaimFacts, AllocFacts
    <3>2. call.end - call.pos <= k * BlockSize BY <2>1, <2>2, <3>1
    <3>3. call'.end = call.end /\ call'.pos = call.pos BY ClaimFacts
    <3>4. QED BY <2>3, <3>1, <3>2, <3>3
  <2>7. Room(call.req)' = Room(r)'
    BY ClaimFacts DEF Room, LatestIsPartial, Last
  <2>8. QED BY <2>5, <2>6, <2>7 DEF Budget
<1>8. QED BY <1>3, <1>4, <1>5, <1>6, <1>7 DEF RoomInv

(* The room in the latest block is used up before any block is taken. *)
LEMMA FillLatestRoomInv ==
  ASSUME KVInv, RoomInv, FillLatest
  PROVE  RoomInv'
<1> DEFINE r == call.req
<1>0. /\ r \in Requests /\ tokens \in [Blocks -> Seq(Tokens)]
      /\ tokens'[FillBlock] = FillContent
      /\ \A c \in Blocks \ {FillBlock} : tokens'[c] = tokens[c]
  BY FillFacts, AllocFacts
<1>1. \A q \in Requests : Held(q)' \subseteq Held(q)
  BY FillFacts DEF Held, RangeOf
<1>2. Private'
  <2>1. \A c \in Blocks : Len(tokens'[c]) # BlockSize => Len(tokens[c]) # BlockSize
    <3>1. Len(tokens[FillBlock]) # BlockSize BY FillFacts, KVAssumption
    <3>2. QED BY <1>0, <3>1
  <2>2. QED BY <1>1, <2>1, PrivateKept DEF KVInv, RoomInv
<1>3. CachedFull'
  <2>1. RangeOf(call.cached)' = {} BY FillFacts DEF RangeOf
  <2>2. QED BY <2>1 DEF CachedFull
<1>4. Filled'
  <2> SUFFICES ASSUME NEW q \in Requests, NEW c \in RangeOf(requestMap'[q])
               PROVE  Len(tokens'[c]) \in 1 .. BlockSize
    BY DEF Filled, RangeOf
  <2>1. c \in RangeOf(requestMap[q]) /\ c \in Blocks
    BY FillFacts, HeldType DEF KVInv
  <2>2. Len(tokens[c]) \in 1 .. BlockSize BY <2>1 DEF RoomInv, Filled
  <2>3. Len(FillContent) \in 1 .. BlockSize BY FillFacts
  <2>4. QED BY <1>0, <2>1, <2>2, <2>3
<1>5. AtRest' BY FillFacts DEF RoomInv, AtRest
<1>6. Budget'
  <2> SUFFICES ASSUME call'.pos < call'.end
               PROVE  \E k \in Nat :
                        /\ call'.end - call'.pos <= Room(call.req)' + k * BlockSize
                        /\ k + Cardinality(FreeCached') <= freeBlockCnt'
    BY DEF Budget
  <2>1. PICK k \in Nat :
          /\ call.end - call.pos <= Room(r) + k * BlockSize
          /\ k + Cardinality(FreeCached) <= freeBlockCnt
    BY FillFacts DEF RoomInv, Budget
  <2>2. Room(r) = BlockSize - Len(tokens[FillBlock])
    BY FillFacts DEF Room, LatestIsPartial, FillBlock
  <2>3. Room(call.req)' \in Nat
    <3>1. (\/ Room(call.req)' = 0
           \/ /\ Len(tokens'[Last(requestMap'[call'.req])]) \in 1 .. BlockSize - 1
              /\ Room(call.req)' = BlockSize - Len(tokens'[Last(requestMap'[call'.req])]))
      BY DEF Room, LatestIsPartial, Last
    <3>2. BlockSize \in Nat BY KVAssumption
    <3>3. QED BY <3>1, <3>2
  <2>4. FreeCached' = FreeCached BY FillFacts DEF FreeCached, RangeOf
  <2>5. FillStop = call.pos + BlockSize - Len(tokens[FillBlock])
    BY FillFacts DEF FillStop, Least
  <2>6. call'.end - call'.pos <= k * BlockSize /\ call'.end - call'.pos \in Int
    <3> DEFINE used == Len(tokens[FillBlock])
    <3>1. /\ call'.end = call.end /\ call'.pos = FillStop
          /\ call.pos \in Nat /\ call.end \in Nat /\ BlockSize \in Nat /\ used \in Nat
      BY FillFacts, AllocFacts
    <3>2. call.end - call.pos <= (BlockSize - used) + k * BlockSize
          /\ FillStop = call.pos + BlockSize - used
      BY <2>1, <2>2, <2>5
    <3>3. k * BlockSize \in Nat BY Multiples
    <3> HIDE DEF used
    <3>4. QED BY <3>1, <3>2, <3>3
  <2>7. call'.end - call'.pos <= Room(call.req)' + k * BlockSize
    BY <2>3, <2>6, Multiples
  <2>8. freeBlockCnt' = freeBlockCnt BY FillFacts
  <2>9. QED BY <2>1, <2>4, <2>7, <2>8
<1>7. QED BY <1>2, <1>3, <1>4, <1>5, <1>6 DEF RoomInv

(* An allocation that asks for a block finds one. *)
LEMMA BudgetFeedsPop ==
  ASSUME KVInv, Budget, call.op = "alloc", call.pos < call.end,
         call.cached = <<>>, ~LatestIsPartial(call.req)
  PROVE  \E k \in Nat \ {0} : /\ call.end - call.pos <= k * BlockSize
                              /\ k <= freeBlockCnt
<1>1. PICK k \in Nat :
        /\ call.end - call.pos <= Room(call.req) + k * BlockSize
        /\ k + Cardinality(FreeCached) <= freeBlockCnt
  BY DEF Budget
<1>2. Room(call.req) = 0 BY DEF Room
<1>3. Cardinality(FreeCached) = 0
  <2>1. FreeCached = {} BY DEF FreeCached, RangeOf
  <2>2. QED BY <2>1, FS_EmptySet
<1>4. /\ k * BlockSize \in Nat /\ 0 * BlockSize = 0
      /\ call.pos \in Nat /\ call.end \in Nat /\ freeBlockCnt \in Nat
  BY Multiples, AllocFacts
<1>5. call.end - call.pos <= k * BlockSize BY <1>1, <1>2, <1>4
<1>6. k # 0 BY <1>4, <1>5
<1>7. QED BY <1>1, <1>3, <1>4, <1>5, <1>6

(* A block taken stores a whole block of tokens or ends the call. *)
LEMMA PopBlockRoomInv ==
  ASSUME KVInv, RoomInv, PopBlock
  PROVE  RoomInv'
<1> PICK r \in Requests, b \in Blocks : r = call.req /\ b = Head(freeList)
  BY PopFacts, AllocFacts
<1>0. /\ call.op # "release" /\ call'.op # "release"
      /\ tokens \in [Blocks -> Seq(Tokens)]
      /\ tokens'[b] = PopContent
      /\ \A c \in Blocks \ {b} : tokens'[c] = tokens[c]
  BY PopFacts, AllocFacts
<1>1. /\ Held(r)' = Held(r) \cup {b}
      /\ \A q \in Requests \ {r} : Held(q)' = Held(q)
      /\ \A q \in Requests : b \notin Held(q)
  <2>1. RangeOf(requestMap[r])' = RangeOf(requestMap[r]) \cup {b}
    <3>1. RangeOf(requestMap[r])' = RangeOf(requestMap'[r]) BY DEF RangeOf
    <3>2. QED BY <3>1, PopFacts
  <2>2. \A q \in Requests \ {r} : RangeOf(requestMap[q])' = RangeOf(requestMap[q])
    BY PopFacts DEF RangeOf
  <2>3. \A q \in Requests : b \notin Held(q) BY PopFacts DEF Holders
  <2>4. QED BY <1>0, <2>1, <2>2, <2>3 DEF Held
<1>2. Private'
  <2> SUFFICES ASSUME NEW p \in Requests, NEW q \in Requests,
                      NEW c \in Held(p)' \cap Held(q)', Len(tokens'[c]) # BlockSize
               PROVE  p = q
    BY DEF Private
  <2>1. CASE c = b BY <1>1, <2>1
  <2>2. CASE c # b
    <3>1. c \in Held(p) \cap Held(q) /\ c \in Blocks
      BY <1>1, <2>2, HeldType DEF KVInv
    <3>2. QED BY <1>0, <2>2, <3>1 DEF RoomInv, Private
  <2>3. QED BY <2>1, <2>2
<1>3. CachedFull'
  <2>1. RangeOf(call.cached)' = {} BY PopFacts DEF RangeOf
  <2>2. QED BY <2>1 DEF CachedFull
<1>4. Filled'
  <2> SUFFICES ASSUME NEW q \in Requests, NEW c \in RangeOf(requestMap'[q])
               PROVE  Len(tokens'[c]) \in 1 .. BlockSize
    BY DEF Filled, RangeOf
  <2>1. c = b \/ c \in RangeOf(requestMap[q]) BY PopFacts
  <2>2. CASE c = b BY <1>0, <2>2, PopFacts
  <2>3. CASE c # b
    <3>1. c \in RangeOf(requestMap[q]) /\ c \in Blocks
      BY <2>1, <2>3, HeldType DEF KVInv
    <3>2. QED BY <1>0, <2>3, <3>1 DEF RoomInv, Filled
  <2>4. QED BY <2>2, <2>3
<1>5. AtRest' BY PopFacts DEF RoomInv, AtRest
<1>6. Budget'
  <2> SUFFICES ASSUME call'.pos < call'.end
               PROVE  \E k \in Nat :
                        /\ call'.end - call'.pos <= Room(call.req)' + k * BlockSize
                        /\ k + Cardinality(FreeCached') <= freeBlockCnt'
    BY DEF Budget
  <2>1. PICK k \in Nat \ {0} : /\ call.end - call.pos <= k * BlockSize
                               /\ k <= freeBlockCnt
    BY PopFacts, BudgetFeedsPop DEF RoomInv
  <2>2. /\ call'.end = call.end /\ call'.pos = PopStop /\ freeBlockCnt' = freeBlockCnt - 1
        /\ PopStop = call.pos + BlockSize
        /\ call.end \in Nat /\ call.pos \in Nat /\ BlockSize \in Nat /\ freeBlockCnt \in Nat
    BY PopFacts, AllocFacts DEF PopStop, Least
  <2>3. PICK j \in Nat : k = j + 1 BY <2>1, k - 1 \in Nat
  <2>9. /\ j * BlockSize \in Nat
        /\ k * BlockSize = j * BlockSize + BlockSize
    BY <2>3, Multiples
  <2>4. Room(call.req)' \in Nat
    <3>1. (\/ Room(call.req)' = 0
           \/ /\ Len(tokens'[Last(requestMap'[call'.req])]) \in 1 .. BlockSize - 1
              /\ Room(call.req)' = BlockSize - Len(tokens'[Last(requestMap'[call'.req])]))
      BY DEF Room, LatestIsPartial, Last
    <3>2. QED BY <2>2, <3>1
  <2>5. Cardinality(FreeCached') = 0
    <3>1. FreeCached' = {} BY PopFacts DEF FreeCached, RangeOf
    <3>2. QED BY <3>1, FS_EmptySet
  <2>6. call'.end - call'.pos <= j * BlockSize /\ call'.end - call'.pos \in Int
    BY <2>1, <2>2, <2>9
  <2>7. call'.end - call'.pos <= Room(call.req)' + j * BlockSize
    BY <2>4, <2>6, <2>9
  <2>8. j + Cardinality(FreeCached') <= freeBlockCnt' BY <2>1, <2>2, <2>3, <2>5
  <2>10. QED BY <2>7, <2>8
<1>7. QED BY <1>2, <1>3, <1>4, <1>5, <1>6 DEF RoomInv

(* Every step keeps RoomInv. *)
LEMMA NextRoomInv == KVInv /\ RoomInv /\ [Next]_vars => RoomInv'
<1> SUFFICES ASSUME KVInv, RoomInv, [Next]_vars PROVE RoomInv' OBVIOUS
<1>1. CASE UNCHANGED vars
  <2>1. \A q \in Requests : Held(q)' \subseteq Held(q)
    BY <1>1 DEF vars, Held, RangeOf
  <2>2. Private' /\ Filled'
    BY <1>1, <2>1, PrivateKept, FilledKept DEF vars, KVInv, RoomInv
  <2>3. CachedFull' /\ AtRest'
    BY <1>1 DEF vars, RoomInv, CachedFull, AtRest, RangeOf
  <2>4. /\ FreeCached' = FreeCached /\ Room(call.req)' = Room(call.req)
        /\ call' = call /\ freeBlockCnt' = freeBlockCnt
    BY <1>1 DEF vars, FreeCached, RangeOf, Room, LatestIsPartial, Last
  <2>5. Budget' BY <2>4 DEF RoomInv, Budget
  <2>6. QED BY <2>2, <2>3, <2>5 DEF RoomInv
<1>2. CASE \E r \in Requests : Admit(r) \/ ContinuePrefill(r) \/ Decode(r)
                               \/ Complete(r) \/ Withdraw(r)
  BY <1>2, AdmitRoomInv, ContinuePrefillRoomInv, DecodeRoomInv, CompleteRoomInv,
     WithdrawRoomInv
<1>3. CASE ClaimCached \/ FillLatest \/ PopBlock
  BY <1>3, ClaimCachedRoomInv, FillLatestRoomInv, PopBlockRoomInv
<1>4. CASE FinishAllocate \/ ReleaseBlock \/ FinishRelease
  BY <1>4, FinishAllocateRoomInv, ReleaseBlockRoomInv, FinishReleaseRoomInv
<1>5. QED BY <1>1, <1>2, <1>3, <1>4 DEF Next

(* RoomInv holds in every reachable state. *)
LEMMA AlwaysRoomInv == Spec => [](KVInv /\ RoomInv)
<1>1. QED BY InitKVInv, NextKVInv, InitRoomInv, NextRoomInv, PTL DEF Spec

------------------------------
(* An allocation that asks for a block finds the free list holding one. *)
LEMMA RoomFeedsPop == KVInv /\ RoomInv => PopNeverFails
<1> SUFFICES ASSUME KVInv, RoomInv, call.op = "alloc", call.pos < call.end,
                    call.cached = <<>>, ~LatestIsPartial(call.req)
             PROVE  freeList # <<>>
  BY DEF PopNeverFails
<1>1. freeBlockCnt \in Nat /\ freeBlockCnt # 0
  BY BudgetFeedsPop, AllocFacts DEF RoomInv
<1>2. freeBlockCnt = Len(freeList) BY DEF KVInv, Conservation
<1>3. QED BY <1>1, <1>2

(* The panic of AllocateKVBlocks after its pre-check is unreachable, for   *)
(* every cache, workload and chunking: the claims of cached blocks and the *)
(* blocks already taken never use up what the check promised.              *)
THEOREM KVPopNeverFails == Spec => []PopNeverFails
<1>1. QED BY RoomFeedsPop, AlwaysRoomInv, PTL

(* Only the block an allocation appends to or takes off the free list is   *)
(* written, and nobody else holds it.                                      *)
LEMMA SharedBlocksKept ==
  ASSUME KVInv, RoomInv, [Next]_vars, NEW b \in Blocks, refCount[b] > 1
  PROVE  tokens'[b] = tokens[b]
<1>1. CASE FillLatest
  <2>1. b # FillBlock
    <3> SUFFICES ASSUME b = FillBlock PROVE FALSE OBVIOUS
    <3>0. call.req \in Requests /\ b \in RangeOf(requestMap[call.req])
          /\ Len(tokens[b]) \in 1 .. BlockSize - 1
      BY <1>1, FillFacts, AllocFacts
    <3>1. /\ Len(tokens[b]) # BlockSize /\ b \in Held(call.req)
          /\ call.req \in Requests
      BY <3>0, KVAssumption DEF Held
    <3>2. \A q \in Requests : b \in Held(q) => q = call.req
      BY <3>1 DEF RoomInv, Private
    <3>3. Holders(b) = {call.req} BY <3>1, <3>2 DEF Holders
    <3>4. Cardinality(Holders(b)) = 1 BY <3>3, FS_Singleton
    <3>5. QED BY <3>4 DEF KVInv, RefCountExact
  <2>2. QED BY <1>1, <2>1, FillFacts, AllocFacts
<1>2. CASE PopBlock
  <2>1. b # Head(freeList) BY <1>2, PopFacts
  <2>2. QED BY <1>2, <2>1, PopFacts, AllocFacts
<1>3. CASE ~FillLatest /\ ~PopBlock
  BY <1>3 DEF Next, vars, poolVars, Admit, ContinuePrefill, Decode, Complete,
     Withdraw, StartRelease, ClaimCached, FinishAllocate, ReleaseBlock, FinishRelease
<1>4. QED BY <1>1, <1>2, <1>3

(* No step but the recycling of the block that carries it drops an entry. *)
LEMMA EntriesKept ==
  ASSUME [Next]_vars, NEW h \in DOMAIN hashToBlock
  PROVE  \/ h \in DOMAIN hashToBlock'
         \/ /\ freeList # <<>>
            /\ hash[Head(freeList)] = h
            /\ freeList' = Tail(freeList)
<1>1. CASE FillLatest BY <1>1 DEF FillLatest, SetHash
<1>2. CASE PopBlock
  <2> DEFINE index == IndexWithout(hash[Head(freeList)])
  <2>1. /\ freeList # <<>> /\ freeList' = Tail(freeList)
        /\ DOMAIN index \subseteq DOMAIN hashToBlock'
    BY <1>2 DEF PopBlock, SetHash
  <2>2. DOMAIN index = (DOMAIN hashToBlock) \ {hash[Head(freeList)]}
    BY DEF IndexWithout
  <2>3. QED BY <2>1, <2>2
<1>3. CASE ~FillLatest /\ ~PopBlock
  <2>1. hashToBlock' = hashToBlock
    BY <1>3 DEF Next, vars, poolVars, Admit, ContinuePrefill, Decode, Complete,
       Withdraw, StartRelease, ClaimCached, FinishAllocate, ReleaseBlock, FinishRelease
  <2>2. QED BY <2>1
<1>4. QED BY <1>1, <1>2, <1>3

(* What a block holds is not lost to another request (AllocateKVBlocks,    *)
(* ReleaseKVBlocks): a block with two holders is never written, and a      *)
(* stored prefix is forgotten only when its block is recycled.             *)
THEOREM KVContentKept == Spec => ContentKept
<1>1. KVInv /\ RoomInv /\ [Next]_vars =>
        [\A b \in Blocks : refCount[b] > 1 => tokens'[b] = tokens[b]]_vars
  BY SharedBlocksKept
<1>2. [Next]_vars =>
        [\A h \in DOMAIN hashToBlock :
           \/ h \in DOMAIN hashToBlock'
           \/ /\ freeList # <<>>
              /\ hash[Head(freeList)] = h
              /\ freeList' = Tail(freeList)]_vars
  BY EntriesKept
<1>3. Spec => SharedBlocksAreReadOnly
  BY <1>1, AlwaysRoomInv, PTL DEF Spec, SharedBlocksAreReadOnly
<1>4. Spec => OnlyRecyclingForgets BY <1>2, PTL DEF Spec, OnlyRecyclingForgets
<1>5. QED BY <1>3, <1>4 DEF ContentKept

------------------------------
(* Contents and hashes. *)

(* A prompt that ends inside a block can never be found in the cache as a  *)
(* whole, so its last tokens are always computed and stored.               *)
PromptsEndInsideABlock == \A r \in Requests : InputLen(r) % BlockSize # 0

(* The part of the first n tokens of a sequence that its i-th block holds. *)
Chunk(s, i, n) == SubSeq(s, (i - 1) * BlockSize + 1, Least(i * BlockSize, n))

(* How many tokens of r its listed blocks hold: what it has computed, and  *)
(* during an allocation what the loop has claimed or stored so far.        *)
Stored(r) ==
  IF call.op = "alloc" /\ call.req = r
  THEN call.pos - Len(call.cached) * BlockSize
  ELSE progress[r]

(* A block with this content and hash holds the i-th part of the sequence  *)
(* of r up to token n; when it is full, under the hash of the sequence up  *)
(* to there.                                                               *)
Carries(content, h, r, i, n) ==
  /\ content = Chunk(Sequence(r), i, n)
  /\ Len(content) = BlockSize => h = Chain(Sequence(r), i)

HoldsStored(r) ==
  /\ Stored(r) <= Len(requestMap[r]) * BlockSize
  /\ requestMap[r] # <<>> => (Len(requestMap[r]) - 1) * BlockSize < Stored(r)
  /\ \A i \in 1 .. Len(requestMap[r]) :
       LET b == requestMap[r][i]
       IN  Carries(tokens[b], hash[b], r, i, Stored(r))

(* The cached blocks of a call continue what its request already lists,    *)
(* and something is left to store behind them; a call that starts behind   *)
(* the prompt stores one token.                                            *)
Claims ==
  call.op = "alloc" =>
    /\ call.cached # <<>> =>
         /\ call.pos = (Len(requestMap[call.req]) + Len(call.cached)) * BlockSize
         /\ call.pos < call.end
    /\ \A j \in 1 .. Len(call.cached) :
         LET b == call.cached[j]
             i == Len(requestMap[call.req]) + j
         IN  Carries(tokens[b], hash[b], call.req, i, i * BlockSize)
    /\ progress[call.req] >= InputLen(call.req) => call.end <= call.pos + 1

ContentInv ==
  /\ \A r \in running : HoldsStored(r)
  /\ Claims
  /\ IndexedHashesAreLineages

(* The consequences of the premise on the prompts. *)
LEMMA InsideABlock ==
  ASSUME PromptsEndInsideABlock, NEW r \in Requests
  PROVE  /\ BlockSize \in Nat /\ BlockSize >= 2
         /\ \A n \in Nat : n * BlockSize # InputLen(r)
<1>1. InputLen(r) \in Nat /\ InputLen(r) % BlockSize # 0
      /\ BlockSize \in Nat /\ BlockSize >= 1
  BY SequenceType, KVAssumption DEF PromptsEndInsideABlock
<1>2. BlockSize # 1
  <2>1. InputLen(r) % 1 = 0 BY <1>1
  <2>2. QED BY <1>1, <2>1
<1>3. ASSUME NEW n \in Nat, n * BlockSize = InputLen(r) PROVE FALSE
  <2>1. (n * BlockSize) % BlockSize = 0 BY <1>1
  <2>2. QED BY <1>1, <1>3, <2>1
<1>4. QED BY <1>1, <1>2, <1>3

(* A part of a sequence and its length. *)
LEMMA ChunkType ==
  ASSUME NEW r \in Requests, NEW k \in Nat, NEW n \in Nat,
         k * BlockSize <= n, n <= Len(Sequence(r))
  PROVE  /\ Chunk(Sequence(r), k + 1, n) \in Seq(Tokens)
         /\ Len(Chunk(Sequence(r), k + 1, n)) =
              Least((k + 1) * BlockSize, n) - k * BlockSize
<1> DEFINE a == k * BlockSize
           stop == Least((k + 1) * BlockSize, n)
<1>1. /\ a \in Nat /\ (k + 1) * BlockSize = a + BlockSize
      /\ BlockSize \in Nat /\ k + 1 \in Nat /\ k + 1 - 1 = k
  BY Multiples, KVAssumption
<1>2. stop \in Nat /\ a <= stop /\ stop <= n
  <2> HIDE DEF a
  <2>1. QED BY <1>1 DEF Least, a
<1>3. stop <= Len(Sequence(r)) /\ Len(Sequence(r)) \in Nat
  BY <1>2, SequenceType
<1>4. Chunk(Sequence(r), k + 1, n) = SubSeq(Sequence(r), a + 1, stop)
  <2>1. (k + 1) - 1 = k OBVIOUS
  <2>2. Chunk(Sequence(r), k + 1, n) =
        SubSeq(Sequence(r), ((k + 1) - 1) * BlockSize + 1, stop)
    BY DEF Chunk
  <2> HIDE DEF stop
  <2>3. QED BY <2>1, <2>2
<1> HIDE DEF a, stop
<1>5. /\ SubSeq(Sequence(r), a + 1, stop) \in Seq(Tokens)
      /\ Len(SubSeq(Sequence(r), a + 1, stop)) = stop - a
  BY <1>1, <1>2, <1>3, StoredType
<1>6. QED BY <1>4, <1>5 DEF a, stop

(* A part that is complete does not depend on what follows. *)
LEMMA ChunkSettled ==
  ASSUME NEW s, NEW i \in Nat, NEW m \in Nat, NEW n \in Nat,
         i * BlockSize <= m, i * BlockSize <= n
  PROVE  Chunk(s, i, m) = Chunk(s, i, n)
<1>2. Least(i * BlockSize, m) = i * BlockSize /\ Least(i * BlockSize, n) = i * BlockSize
  BY DEF Least
<1>3. QED BY <1>2 DEF Chunk

(* The hashes of a sequence: each full block extends the chain by its own  *)
(* content.                                                                *)
LEMMA ChainFacts ==
  ASSUME NEW s \in Seq(Tokens), NEW k \in Nat
  PROVE  /\ Chain(s, 0) = NoHash
         /\ Len(Chain(s, k)) = k
         /\ Chain(s, k + 1) =
              HashBlock(Chain(s, k), Chunk(s, k + 1, (k + 1) * BlockSize))
         /\ Last(Chain(s, k + 1)) = Chunk(s, k + 1, (k + 1) * BlockSize)
<1> DEFINE part(i) == SubSeq(s, (i - 1) * BlockSize + 1, i * BlockSize)
           S == {part(i) : i \in 1 .. k + 1}
<1>1. \A i \in 1 .. k + 1 : part(i) \in S OBVIOUS
<1>2. Chunk(s, k + 1, (k + 1) * BlockSize) = part(k + 1) BY DEF Chunk, Least
<1>3. Chain(s, k) = [i \in 1 .. k |-> part(i)]
      /\ Chain(s, k + 1) = [i \in 1 .. k + 1 |-> part(i)]
  BY DEF Chain
<1>4. Chain(s, 0) = NoHash BY DEF Chain, NoHash
<1> HIDE DEF part, S
<1>5. Chain(s, k) \in Seq(S) /\ Len(Chain(s, k)) = k BY <1>1, <1>3, IsASeq
<1>6. Chain(s, k + 1) \in Seq(S) /\ Len(Chain(s, k + 1)) = k + 1
  BY <1>1, <1>3, IsASeq
<1>7. part(k + 1) \in S BY <1>1
<1>8. Chain(s, k + 1) = Append(Chain(s, k), part(k + 1))
  <2>1. /\ Append(Chain(s, k), part(k + 1)) \in Seq(S)
        /\ Len(Append(Chain(s, k), part(k + 1))) = k + 1
    BY <1>5, <1>7
  <2>2. \A i \in 1 .. k + 1 : Append(Chain(s, k), part(k + 1))[i] = Chain(s, k + 1)[i]
    BY <1>3, <1>5, <1>7
  <2>3. QED BY <1>6, <2>1, <2>2, SeqEqual
<1>9. Last(Chain(s, k + 1)) = part(k + 1) BY <1>3, <1>6 DEF Last
<1>10. QED BY <1>2, <1>4, <1>5, <1>8, <1>9 DEF HashBlock

(* The prompt and the whole sequence of a request have the same hashes     *)
(* over the prompt.                                                        *)
LEMMA ChainOfPrompt ==
  ASSUME NEW r \in Requests, NEW k \in Nat, k * BlockSize <= InputLen(r)
  PROVE  Chain(InputTokens[r], k) = Chain(Sequence(r), k)
<1>1. /\ InputTokens[r] \in Seq(Tokens) /\ OutputTokens[r] \in Seq(Tokens)
      /\ Len(InputTokens[r]) = InputLen(r) /\ BlockSize \in Nat /\ BlockSize >= 1
  BY KVAssumption DEF InputLen
<1>2. ASSUME NEW i \in 1 .. k
      PROVE  SubSeq(InputTokens[r], (i - 1) * BlockSize + 1, i * BlockSize) =
             SubSeq(Sequence(r), (i - 1) * BlockSize + 1, i * BlockSize)
  <2>1. PICK j \in Nat : i = j + 1 BY i - 1 \in Nat
  <2>2. /\ j * BlockSize \in Nat /\ (j + 1) * BlockSize = j * BlockSize + BlockSize
    BY Multiples
  <2>3. (j + 1) * BlockSize <= k * BlockSize
    BY <2>1, j + 1 \in Nat, j + 1 <= k, MultiplesOrder
  <2>4. k * BlockSize \in Nat /\ InputLen(r) \in Nat BY Multiples, SequenceType
  <2>5. j * BlockSize + 1 \in 1 .. InputLen(r) /\ (j + 1) * BlockSize \in 1 .. InputLen(r)
    <3> DEFINE a == j * BlockSize
               c == (j + 1) * BlockSize
               m == k * BlockSize
    <3>1. /\ a \in Nat /\ c = a + BlockSize /\ c <= m /\ m \in Nat /\ m <= InputLen(r)
          /\ InputLen(r) \in Nat /\ BlockSize \in Nat /\ BlockSize >= 1
      BY <1>1, <2>2, <2>3, <2>4
    <3> HIDE DEF a, c, m
    <3>2. a + 1 \in 1 .. InputLen(r) /\ c \in 1 .. InputLen(r) BY <3>1
    <3>3. QED BY <3>2 DEF a, c
  <2>6. SubSeq(InputTokens[r] \o OutputTokens[r], j * BlockSize + 1, (j + 1) * BlockSize) =
        SubSeq(InputTokens[r], j * BlockSize + 1, (j + 1) * BlockSize)
    <3> DEFINE a == j * BlockSize + 1
               c == (j + 1) * BlockSize
    <3>1. a \in 1 .. Len(InputTokens[r]) /\ c \in 1 .. Len(InputTokens[r])
      BY <1>1, <2>5
    <3> HIDE DEF a, c
    <3>2. SubSeq(InputTokens[r] \o OutputTokens[r], a, c) = SubSeq(InputTokens[r], a, c)
      BY <1>1, <3>1, SubSeqOfConcat1
    <3>3. QED BY <3>2 DEF a, c
  <2>7. i - 1 = j BY <2>1
  <2>8. QED BY <2>1, <2>6, <2>7 DEF Sequence
<1>3. QED BY <1>2 DEF Chain

------------------------------
(* ContentInv: the shared facts. *)

(* A request whose list, progress and blocks a step leaves alone. *)
LEMMA HoldsKept ==
  ASSUME NEW r \in Requests, HoldsStored(r), requestMap'[r] = requestMap[r],
         Stored(r)' = Stored(r),
         \A b \in RangeOf(requestMap[r]) : tokens'[b] = tokens[b] /\ hash'[b] = hash[b]
  PROVE  HoldsStored(r)'
<1>1. \A i \in 1 .. Len(requestMap[r]) :
        /\ tokens'[requestMap[r][i]] = tokens[requestMap[r][i]]
        /\ hash'[requestMap[r][i]] = hash[requestMap[r][i]]
  BY DEF RangeOf
<1>2. QED BY <1>1 DEF HoldsStored

(* A step that registers nothing keeps the lineages. *)
LEMMA LineagesKept ==
  ASSUME IndexedHashesAreLineages, DOMAIN hashToBlock' \subseteq DOMAIN hashToBlock
  PROVE  IndexedHashesAreLineages'
BY DEF IndexedHashesAreLineages

(* What the loop has stored, from the call. *)
LEMMA StoredFacts ==
  ASSUME KVInv, Claims
  PROVE  /\ \A r \in Requests :
              ~(call.op = "alloc" /\ call.req = r) => Stored(r) = progress[r]
         /\ call.op = "alloc" =>
              /\ call.cached = <<>> => Stored(call.req) = call.pos
              /\ call.cached # <<>> =>
                   Stored(call.req) = Len(requestMap[call.req]) * BlockSize
<1>1. ASSUME call.op = "alloc", call.cached = <<>>
      PROVE  Stored(call.req) = call.pos
  <2>1. Stored(call.req) = call.pos - 0 * BlockSize BY <1>1 DEF Stored
  <2>2. 0 * BlockSize = 0 /\ call.pos \in Nat BY <1>1, Multiples, AllocFacts
  <2>3. QED BY <2>1, <2>2
<1>2. ASSUME call.op = "alloc", call.cached # <<>>
      PROVE  Stored(call.req) = Len(requestMap[call.req]) * BlockSize
  <2> DEFINE k == Len(requestMap[call.req])
             m == Len(call.cached)
  <2>1. k \in Nat /\ m \in Nat /\ BlockSize \in Nat BY SMTT(60), <1>2, AllocFacts
  <2>2. call.pos = (k + m) * BlockSize BY <1>2 DEF Claims
  <2>3. Stored(call.req) = call.pos - m * BlockSize BY <1>2 DEF Stored
  <2> HIDE DEF k, m
  <2>4. (k + m) * BlockSize = k * BlockSize + m * BlockSize BY <2>1
  <2>5. k * BlockSize \in Nat /\ m * BlockSize \in Nat BY <2>1, Multiples
  <2>6. Stored(call.req) = k * BlockSize BY <2>2, <2>3, <2>4, <2>5
  <2>7. QED BY <2>6 DEF k
<1>3. QED BY <1>1, <1>2 DEF Stored

(* An empty cache holds nothing. *)
LEMMA InitContentInv == Init => ContentInv
BY DEF Init, Idle, ContentInv, Claims, IndexedHashesAreLineages

------------------------------
(* ContentInv: starts and ends of calls. *)

(* Requests that a new or finished call is not about. *)
LEMMA OthersHold ==
  ASSUME KVInv, ContentInv, NEW r \in Requests,
         call.op = "alloc" => call.req = r,
         call'.op = "alloc" => call'.req = r,
         \A q \in Requests \ {r} : requestMap'[q] = requestMap[q] /\ progress'[q] = progress[q],
         tokens' = tokens, hash' = hash, running' \subseteq running \cup {r},
         NEW q \in running', q # r
  PROVE  HoldsStored(q)'
<1>1. q \in Requests /\ q \in running BY DEF KVInv, TypeOK
<1>2. Stored(q)' = Stored(q) BY <1>1 DEF Stored
<1>3. HoldsStored(q) BY <1>1 DEF ContentInv
<1>4. QED BY <1>1, <1>2, <1>3, HoldsKept

(* Admission: the blocks found in the cache carry the start of the prompt.*)
LEMMA AdmitContentInv ==
  ASSUME PromptsEndInsideABlock, KVInv, RoomInv, ContentInv,
         NEW r \in Requests, Admit(r)
  PROVE  ContentInv'
<1>1. PICK n \in PrefixHits(InputTokens[r]) :
        \E end \in n * BlockSize .. InputLen(r) :
          /\ end = n * BlockSize => end = InputLen(r)
          /\ call' = AllocCall(r, n * BlockSize, end,
                               CachedBlocks(InputTokens[r], n), FALSE)
  BY DEF Admit
<1>2. PICK end \in n * BlockSize .. InputLen(r) :
        /\ end = n * BlockSize => end = InputLen(r)
        /\ call' = AllocCall(r, n * BlockSize, end,
                             CachedBlocks(InputTokens[r], n), FALSE)
  BY <1>1
<1>3. n \in Nat /\ \A i \in 1 .. n : Chain(InputTokens[r], i) \in DOMAIN hashToBlock
  BY DEF PrefixHits
<1>4. n * BlockSize \in Nat /\ InputLen(r) \in Nat
  BY <1>3, Multiples, SequenceType
<1>5. n * BlockSize < end /\ end <= InputLen(r)
  BY <1>2, <1>3, <1>4, InsideABlock
<1>6. /\ CachedBlocks(InputTokens[r], n) \in Seq(Blocks)
      /\ Len(CachedBlocks(InputTokens[r], n)) = n
      /\ \A i \in 1 .. n :
           CachedBlocks(InputTokens[r], n)[i] = hashToBlock[Chain(InputTokens[r], i)]
  <2>1. \A i \in 1 .. n : hashToBlock[Chain(InputTokens[r], i)] \in Blocks
    BY <1>3 DEF KVInv, TypeOK
  <2>2. QED BY <1>3, <2>1, IsASeq DEF CachedBlocks
<1> DEFINE cached == CachedBlocks(InputTokens[r], n)
<1>7. /\ call'.op = "alloc" /\ call'.req = r /\ call'.pos = n * BlockSize
      /\ call'.end = end /\ call'.cached = cached
  BY <1>2 DEF AllocCall
<1>8. /\ call = Idle /\ call.op # "alloc" /\ r \notin running
      /\ requestMap' = requestMap /\ tokens' = tokens /\ hash' = hash
      /\ hashToBlock' = hashToBlock /\ progress' = progress
      /\ running' = running \cup {r}
  BY DEF Admit, poolVars, Idle
<1>9. requestMap[r] = <<>> /\ progress[r] = 0
  BY <1>8 DEF KVInv, Ownership, RoomInv, AtRest
<1>10. HoldsStored(r)'
  <2>1. Stored(r)' = 0
    <3>1. Stored(r)' = n * BlockSize - Len(cached) * BlockSize
      BY <1>7 DEF Stored
    <3>2. QED BY <1>4, <1>6, <3>1
  <2>2. requestMap'[r] = <<>> /\ Len(requestMap'[r]) = 0 /\ 0 * BlockSize = 0
    BY <1>8, <1>9, Multiples
  <2>3. QED BY <2>1, <2>2 DEF HoldsStored
<1>11. \A q \in running' : q # r => HoldsStored(q)' BY <1>7, <1>8, OthersHold
<1>12. Claims'
  <2>1. Len(requestMap[call.req])' = 0 BY <1>7, <1>8, <1>9
  <2>2. ASSUME NEW j \in 1 .. n
        PROVE  Carries(tokens[cached[j]], hash[cached[j]], r, j, j * BlockSize)
    <3>1. PICK i \in Nat : j = i + 1 BY j - 1 \in Nat
    <3>2. j * BlockSize <= InputLen(r)
      <4>1. j \in Nat /\ j <= n BY <1>3
      <4>2. j * BlockSize <= n * BlockSize /\ j * BlockSize \in Nat
        BY <1>3, <4>1, MultiplesOrder
      <4>3. n * BlockSize <= InputLen(r) BY <1>2, <1>4
      <4>4. QED BY <1>4, <4>2, <4>3
    <3>3. Chain(InputTokens[r], j) = Chain(Sequence(r), j)
      BY <3>2, ChainOfPrompt
    <3>4. /\ hash[cached[j]] = Chain(Sequence(r), j)
          /\ tokens[cached[j]] = Last(Chain(Sequence(r), j))
      BY <1>3, <1>6, <3>3 DEF KVInv, IndexSound
    <3>5. Last(Chain(Sequence(r), j)) = Chunk(Sequence(r), j, j * BlockSize)
      BY <3>1, SequenceType, ChainFacts
    <3>6. QED BY <3>4, <3>5 DEF Carries
  <2>3. ASSUME NEW j \in 1 .. n
        PROVE  LET b == call'.cached[j]
                   i == Len(requestMap'[call'.req]) + j
               IN  Carries(tokens'[b], hash'[b], call'.req, i, i * BlockSize)
    <3>1. Len(requestMap'[call'.req]) + j = j BY <2>1
    <3>2. QED BY <1>7, <1>8, <2>2, <3>1
  <2>4. progress'[r] < InputLen(r) BY <1>8, <1>9, SequenceType
  <2>5. call'.pos = (0 + n) * BlockSize BY <1>7, <1>3
  <2> HIDE DEF cached
  <2>7. progress'[call'.req] < InputLen(call.req)' /\ progress'[r] \in Nat
    BY <1>7, <1>8, <1>9, <2>4 DEF InputLen
  <2>8. ~(progress'[call'.req] >= InputLen(call.req)')
    BY <1>4, <1>7, <2>7 DEF InputLen
  <2>9. Len(call.cached)' = n BY <1>6, <1>7 DEF cached
  <2>10. QED BY <1>5, <1>7, <2>1, <2>3, <2>5, <2>8, <2>9 DEF Claims
<1>13. IndexedHashesAreLineages' BY <1>8, LineagesKept DEF ContentInv
<1>14. QED BY <1>10, <1>11, <1>12, <1>13 DEF ContentInv

(* A running request asks for more: nothing is stored yet. *)
LEMMA ExtendContentInv ==
  ASSUME KVInv, ContentInv, call = Idle, UNCHANGED <<poolVars, progress, running>>,
         NEW r \in running, NEW end \in Nat, NEW final \in BOOLEAN,
         progress[r] < InputLen(r) \/ end = progress[r] + 1,
         call' = AllocCall(r, progress[r], end, <<>>, final)
  PROVE  ContentInv'
<1>1. r \in Requests /\ progress[r] \in Nat /\ InputLen(r) \in Nat
  BY SequenceType DEF KVInv, TypeOK
<1>2. /\ call'.op = "alloc" /\ call'.req = r /\ call'.pos = progress[r]
      /\ call'.end = end /\ call'.cached = <<>> /\ call.op # "alloc"
  BY DEF AllocCall, Idle
<1>3. /\ requestMap' = requestMap /\ tokens' = tokens /\ hash' = hash
      /\ hashToBlock' = hashToBlock /\ progress' = progress /\ running' = running
  BY DEF poolVars
<1>4. HoldsStored(r)'
  <2>1. Stored(r)' = progress[r] - 0 * BlockSize BY <1>2 DEF Stored
  <2>2. Stored(r) = progress[r] BY <1>2 DEF Stored
  <2>3. Stored(r)' = Stored(r)
    <3>1. 0 * BlockSize = 0 BY Multiples
    <3>2. QED BY <1>1, <2>1, <2>2, <3>1
  <2>4. QED BY <1>1, <1>3, <2>3, HoldsKept DEF ContentInv
<1>5. \A q \in running' : q # r => HoldsStored(q)'
  BY <1>1, <1>2, <1>3, OthersHold
<1>6. Claims'
  <2>1. progress'[call'.req] >= InputLen(call'.req) => call'.end <= call'.pos + 1
    BY <1>1, <1>2, <1>3
  <2>2. call'.cached = <<>> /\ 1 .. Len(call'.cached) = {} BY <1>2
  <2>3. QED BY <2>1, <2>2 DEF Claims
<1>7. IndexedHashesAreLineages' BY <1>3, LineagesKept DEF ContentInv
<1>8. QED BY <1>4, <1>5, <1>6, <1>7 DEF ContentInv

(* A released request no longer claims any content. *)
LEMMA StartReleaseContentInv ==
  ASSUME KVInv, ContentInv, NEW r \in running,
         call.op = "alloc" => call.req = r, StartRelease(r)
  PROVE  ContentInv'
<1>1. /\ r \in Requests /\ call'.op # "alloc" /\ running' = running \ {r}
      /\ tokens' = tokens /\ hash' = hash /\ hashToBlock' = hashToBlock
  BY DEF KVInv, TypeOK, StartRelease, ReleaseCall
<1>2. \A q \in Requests \ {r} : requestMap'[q] = requestMap[q] /\ progress'[q] = progress[q]
  BY DEF KVInv, TypeOK, StartRelease
<1>3. \A q \in running' : HoldsStored(q)'
  <2>1. \A q \in running' : q # r => HoldsStored(q)' BY <1>1, <1>2, OthersHold
  <2>2. QED BY <1>1, <2>1
<1>4. IndexedHashesAreLineages' BY <1>1, LineagesKept DEF ContentInv
<1>5. QED BY <1>1, <1>3, <1>4 DEF ContentInv, Claims

(* What the loop stored becomes the progress of the request. *)
LEMMA FinishAllocateContentInv ==
  ASSUME KVInv, ContentInv, FinishAllocate
  PROVE  ContentInv'
<1> PICK r \in Requests : r = call.req BY AllocFacts DEF FinishAllocate
<1>1. call.op = "alloc" /\ r \in running /\ call.pos = call.end
  BY AllocFacts DEF FinishAllocate
<1>2. CASE call.final BY <1>1, <1>2, StartReleaseContentInv DEF FinishAllocate
<1>3. CASE ~call.final
  <2>1. /\ progress' = [progress EXCEPT ![r] = call.end]
        /\ call' = Idle /\ call'.op = "idle"
        /\ requestMap' = requestMap /\ tokens' = tokens /\ hash' = hash
        /\ hashToBlock' = hashToBlock /\ running' = running
    BY <1>3 DEF FinishAllocate, Idle, poolVars
  <2>2. HoldsStored(r)'
    <3>1. call.cached = <<>> BY <1>1, AllocFacts DEF ContentInv, Claims
    <3>2. Stored(r) = call.pos BY <1>1, <3>1, StoredFacts DEF ContentInv
    <3>3. Stored(r)' = call.pos BY <1>1, <2>1 DEF Stored, KVInv, TypeOK
    <3>4. QED BY <1>1, <2>1, <3>2, <3>3, HoldsKept DEF ContentInv
  <2>3. \A q \in running' : q # r => HoldsStored(q)'
    <3>1. \A q \in Requests \ {r} : progress'[q] = progress[q]
      BY <2>1 DEF KVInv, TypeOK
    <3>2. QED BY <2>1, <3>1, OthersHold
  <2>4. Claims' BY <2>1 DEF Claims
  <2>5. IndexedHashesAreLineages' BY <2>1, LineagesKept DEF ContentInv
  <2>6. QED BY <2>2, <2>3, <2>4, <2>5 DEF ContentInv
<1>4. QED BY <1>2, <1>3

(* Steps that touch neither contents nor lists, outside an allocation. *)
LEMMA ReleaseContentInv ==
  ASSUME KVInv, ContentInv, call.op # "alloc", call'.op # "alloc",
         UNCHANGED <<tokens, hash, hashToBlock, requestMap, progress, running>>
  PROVE  ContentInv'
<1>1. \A q \in running' : HoldsStored(q)'
  <2> SUFFICES ASSUME NEW q \in running PROVE HoldsStored(q)' OBVIOUS
  <2>1. q \in Requests /\ Stored(q)' = Stored(q) BY DEF KVInv, TypeOK, Stored
  <2>2. QED BY <2>1, HoldsKept DEF ContentInv
<1>2. IndexedHashesAreLineages' BY LineagesKept DEF ContentInv
<1>3. QED BY <1>1, <1>2 DEF ContentInv, Claims

------------------------------
(* ContentInv: the iterations. *)

(* Requests that run beside the one being served. *)
LEMMA BystandersHold ==
  ASSUME KVInv, ContentInv, call.op = "alloc", call'.op = "alloc",
         call'.req = call.req, progress' = progress, running' = running,
         NEW q \in running, q # call.req, requestMap'[q] = requestMap[q],
         \A b \in RangeOf(requestMap[q]) : tokens'[b] = tokens[b] /\ hash'[b] = hash[b]
  PROVE  HoldsStored(q)'
<1>1. q \in Requests /\ HoldsStored(q) BY DEF KVInv, TypeOK, ContentInv
<1>2. Stored(q)' = Stored(q) BY DEF Stored
<1>3. QED BY <1>1, <1>2, HoldsKept

(* The list of the request being served grows by a block that carries the  *)
(* next part.                                                              *)
LEMMA ListGrows ==
  ASSUME NEW r \in Requests, NEW b \in Blocks,
         requestMap[r] \in Seq(Blocks), HoldsStored(r),
         Stored(r) = Len(requestMap[r]) * BlockSize,
         requestMap'[r] = Append(requestMap[r], b), Stored(r)' \in Nat,
         Stored(r) < Stored(r)',
         Stored(r)' <= (Len(requestMap[r]) + 1) * BlockSize,
         \A c \in RangeOf(requestMap[r]) : tokens'[c] = tokens[c] /\ hash'[c] = hash[c],
         Carries(tokens'[b], hash'[b], r, Len(requestMap[r]) + 1, Stored(r)')
  PROVE  HoldsStored(r)'
<1>1. PICK k \in Nat : k = Len(requestMap[r]) OBVIOUS
<1>2. /\ Len(requestMap'[r]) = k + 1 /\ requestMap'[r][k + 1] = b
      /\ \A i \in 1 .. k : requestMap'[r][i] = requestMap[r][i]
      /\ requestMap'[r] # <<>>
  <2>1. ASSUME NEW s \in Seq(Blocks)
        PROVE  /\ Len(Append(s, b)) = Len(s) + 1 /\ Append(s, b)[Len(s) + 1] = b
               /\ \A i \in 1 .. Len(s) : Append(s, b)[i] = s[i]
               /\ Append(s, b) # <<>>
    BY AppendProperties
  <2>2. QED BY ZenonT(60), <1>1, <2>1
<1>3. ASSUME NEW i \in 1 .. k
      PROVE  Carries(tokens'[requestMap'[r][i]], hash'[requestMap'[r][i]], r, i, Stored(r)')
  <2>1. /\ tokens'[requestMap[r][i]] = tokens[requestMap[r][i]]
        /\ hash'[requestMap[r][i]] = hash[requestMap[r][i]]
        /\ requestMap'[r][i] = requestMap[r][i]
    BY <1>1, <1>2 DEF RangeOf
  <2>2. Carries(tokens[requestMap[r][i]], hash[requestMap[r][i]], r, i, Stored(r))
    BY <1>1 DEF HoldsStored
  <2>3. i \in Nat /\ i <= k /\ i * BlockSize \in Nat /\ k * BlockSize \in Nat
        /\ i * BlockSize <= k * BlockSize
    <3>1. i \in Nat /\ i <= k OBVIOUS
    <3>2. QED BY <3>1, MultiplesOrder
  <2>4. /\ Stored(r) \in Nat /\ i * BlockSize <= Stored(r) /\ i * BlockSize <= Stored(r)'
    BY <1>1, <2>3
  <2>5. Chunk(Sequence(r), i, Stored(r)) = Chunk(Sequence(r), i, Stored(r)')
    BY <2>3, <2>4, ChunkSettled
  <2>6. Carries(tokens[requestMap[r][i]], hash[requestMap[r][i]], r, i, Stored(r)')
    BY <2>2, <2>5 DEF Carries
  <2>7. QED BY <2>1, <2>6
<1>4. ASSUME NEW i \in 1 .. k + 1
      PROVE  Carries(tokens'[requestMap'[r][i]], hash'[requestMap'[r][i]], r, i, Stored(r)')
  <2>1. CASE i = k + 1 BY <1>1, <1>2, <2>1
  <2>2. CASE i # k + 1
    <3>1. i \in 1 .. k BY <2>2
    <3>2. QED BY <1>3, <3>1
  <2>3. QED BY <2>1, <2>2
<1>5. (Len(requestMap'[r]) - 1) * BlockSize < Stored(r)'
  <2>1. Len(requestMap'[r]) - 1 = Len(requestMap[r]) BY <1>1, <1>2
  <2>2. QED BY <2>1
<1>6. Stored(r)' <= Len(requestMap'[r]) * BlockSize
  <2>1. \A s \in Seq(Blocks) : Len(Append(s, b)) = Len(s) + 1
    BY SMTT(60), AppendProperties
  <2>2. QED BY <2>1
<1>7. QED BY <1>2, <1>4, <1>5, <1>6 DEF HoldsStored

(* A list with a block in it has a predecessor of its length. *)
LEMMA NonEmptyLength ==
  ASSUME NEW s \in Seq(Blocks), s # <<>>
  PROVE  \E l \in Nat : Len(s) = l + 1
<1>1. Len(s) - 1 \in Nat /\ Len(s) = (Len(s) - 1) + 1 OBVIOUS
<1>2. QED BY ZenonT(60), <1>1

(* The same with bounds, where an equation would be rewritten away. *)
LEMMA NonEmptyBounds ==
  ASSUME NEW s \in Seq(Blocks), s # <<>>
  PROVE  \E l \in Nat : l + 1 <= Len(s) /\ Len(s) <= l + 1
<1>1. Len(s) - 1 \in Nat /\ (Len(s) - 1) + 1 <= Len(s) /\ Len(s) <= (Len(s) - 1) + 1
  OBVIOUS
<1>2. QED BY <1>1

(* A claimed block continues what the list already holds. *)
LEMMA ClaimCachedContentInv ==
  ASSUME KVInv, RoomInv, ContentInv, ClaimCached
  PROVE  ContentInv'
<1> PICK r \in Requests, b \in Blocks : r = call.req /\ b = Head(call.cached)
  BY ClaimFacts, AllocFacts
<1>1. /\ call.cached \in Seq(Blocks) /\ call.cached # <<>>
      /\ requestMap[r] \in Seq(Blocks) /\ call.op = "alloc"
      /\ Claims /\ HoldsStored(r) /\ r \in running
  BY ClaimFacts, AllocFacts DEF ContentInv
<1>2. PICK k \in Nat : k = Len(requestMap[r]) BY <1>1
<1>3. PICK l \in Nat : Len(call.cached) = l + 1 BY <1>1, NonEmptyLength
<1>4. /\ call'.op = "alloc" /\ call'.req = r /\ call'.pos = call.pos
      /\ call'.end = call.end /\ call'.cached = Tail(call.cached)
      /\ requestMap'[r] = Append(requestMap[r], b)
      /\ tokens' = tokens /\ hash' = hash /\ hashToBlock' = hashToBlock
      /\ progress' = progress /\ running' = running
  BY ClaimFacts
<1>5. /\ b = call.cached[1] /\ Len(call'.cached) = l
      /\ \A j \in 1 .. l : call'.cached[j] = call.cached[j + 1]
  BY <1>1, <1>3, <1>4
<1>6. /\ call.pos = (k + (l + 1)) * BlockSize /\ call.pos < call.end
      /\ Stored(r) = k * BlockSize
  BY <1>1, <1>2, <1>3, StoredFacts DEF Claims
<1>7. \A j \in 1 .. l + 1 :
        Carries(tokens[call.cached[j]], hash[call.cached[j]], r, k + j, (k + j) * BlockSize)
  BY <1>1, <1>2, <1>3 DEF Claims
<1>8. (k + (l + 1)) * BlockSize = (k + 1) * BlockSize + l * BlockSize
      /\ k + (l + 1) = (k + 1) + l
      /\ (k + 1) * BlockSize \in Nat /\ l * BlockSize \in Nat
      /\ (k + 1) * BlockSize = k * BlockSize + BlockSize /\ k * BlockSize \in Nat
  <2>1. k + 1 \in Nat /\ k + (l + 1) = (k + 1) + l OBVIOUS
  <2>2. QED BY <2>1, MultiplesOrder, Multiples
<1>9. Stored(r)' = (k + 1) * BlockSize
  <2>1. Stored(r)' = (k + (l + 1)) * BlockSize - l * BlockSize
    BY <1>4, <1>5, <1>6 DEF Stored
  <2>2. QED BY <1>8, <2>1
<1>10. HoldsStored(r)'
  <2>1. Stored(r)' \in Nat /\ Stored(r) < Stored(r)'
        /\ Stored(r)' <= (Len(requestMap[r]) + 1) * BlockSize
        /\ Stored(r) = Len(requestMap[r]) * BlockSize
    BY <1>2, <1>6, <1>8, <1>9, KVAssumption
  <2>2. 1 \in 1 .. l + 1 OBVIOUS
  <2>3. Carries(tokens'[b], hash'[b], r, Len(requestMap[r]) + 1, Stored(r)')
    BY <1>2, <1>4, <1>5, <1>7, <1>9, <2>2
  <2>4. \A c \in RangeOf(requestMap[r]) : tokens'[c] = tokens[c] /\ hash'[c] = hash[c]
    BY <1>4
  <2>5. QED BY <1>1, <1>4, <2>1, <2>3, <2>4, ListGrows
<1>11. \A q \in running' : q # r => HoldsStored(q)'
  <2>1. \A q \in Requests \ {r} : requestMap'[q] = requestMap[q] BY ClaimFacts
  <2>2. \A q \in running : q \in Requests BY DEF KVInv, TypeOK
  <2>3. QED BY <1>1, <1>4, <2>1, <2>2, BystandersHold
<1>12. Claims'
  <2>1. Len(requestMap'[r]) = k + 1 BY <1>1, <1>2, <1>4
  <2>2. call'.pos = ((k + 1) + l) * BlockSize /\ call'.pos < call'.end
    BY <1>4, <1>6, <1>8
  <2>3. ASSUME NEW j \in 1 .. l
        PROVE  LET c == call'.cached[j]
                   i == (k + 1) + j
               IN  Carries(tokens'[c], hash'[c], r, i, i * BlockSize)
    <3>1. j + 1 \in 1 .. l + 1 /\ k + (j + 1) = (k + 1) + j OBVIOUS
    <3>2. Carries(tokens[call.cached[j + 1]], hash[call.cached[j + 1]], r,
                  k + (j + 1), (k + (j + 1)) * BlockSize)
      BY <1>7, <3>1
    <3>3. QED BY <1>4, <1>5, <3>1, <3>2
  <2>4. progress'[r] >= InputLen(r) => call'.end <= call'.pos + 1
    BY <1>1, <1>4 DEF Claims
  <2>5. QED BY <1>4, <1>5, <2>1, <2>2, <2>3, <2>4 DEF Claims
<1>13. IndexedHashesAreLineages' BY <1>4, LineagesKept DEF ContentInv
<1>14. QED BY <1>4, <1>10, <1>11, <1>12, <1>13 DEF ContentInv

(* Registering the hash of a part that is full keeps the lineages. *)
LEMMA LineageRegistered ==
  ASSUME IndexedHashesAreLineages, NEW r \in Requests, NEW k \in Nat,
         k * BlockSize <= Len(Sequence(r)),
         DOMAIN hashToBlock' \subseteq (DOMAIN hashToBlock) \cup {Chain(Sequence(r), k)}
  PROVE  IndexedHashesAreLineages'
<1>1. Len(Chain(Sequence(r), k)) = k BY SequenceType, ChainFacts
<1>2. ASSUME NEW h \in DOMAIN hashToBlock'
      PROVE  \E q \in Requests : /\ Len(h) * BlockSize <= Len(Sequence(q))
                                 /\ h = Chain(Sequence(q), Len(h))
  <2>1. CASE h \in DOMAIN hashToBlock BY <2>1 DEF IndexedHashesAreLineages
  <2>2. CASE h = Chain(Sequence(r), k) BY <2>2, <1>1
  <2>3. QED BY <2>1, <2>2
<1>3. QED BY <1>2 DEF IndexedHashesAreLineages

(* The full blocks of a list carry the chain of the sequence. *)
LEMMA ListedHash ==
  ASSUME NEW r \in Requests, HoldsStored(r), requestMap[r] \in Seq(Blocks),
         Stored(r) \in Nat, Stored(r) <= Len(Sequence(r)),
         NEW k \in Nat, k + 1 <= Len(requestMap[r]), (k + 1) * BlockSize <= Stored(r)
  PROVE  /\ Len(tokens[requestMap[r][k + 1]]) = BlockSize
         /\ hash[requestMap[r][k + 1]] = Chain(Sequence(r), k + 1)
<1> DEFINE b == requestMap[r][k + 1]
<1>1. k + 1 \in 1 .. Len(requestMap[r]) OBVIOUS
<1>2. Carries(tokens[b], hash[b], r, k + 1, Stored(r)) BY <1>1 DEF HoldsStored
<1>3. /\ k * BlockSize \in Nat /\ (k + 1) * BlockSize = k * BlockSize + BlockSize
      /\ BlockSize \in Nat
  BY Multiples, KVAssumption
<1>4. k * BlockSize <= Stored(r) BY <1>3
<1>5. Least((k + 1) * BlockSize, Stored(r)) = (k + 1) * BlockSize BY DEF Least
<1>6. Len(Chunk(Sequence(r), k + 1, Stored(r))) = BlockSize
  <2>1. Len(Chunk(Sequence(r), k + 1, Stored(r))) = (k + 1) * BlockSize - k * BlockSize
    BY <1>4, <1>5, ChunkType
  <2>2. QED BY <1>3, <2>1
<1>7. QED BY <1>2, <1>6 DEF Carries

(* The hash of one more block of a request. *)
FullPart(r, i) == Chunk(Sequence(r), i, i * BlockSize)

LEMMA ChainGrows ==
  \A r \in Requests, k \in Nat :
    Chain(Sequence(r), k + 1) = HashBlock(Chain(Sequence(r), k), FullPart(r, k + 1))
<1>1. \A r \in Requests : Sequence(r) \in Seq(Tokens) BY SequenceType
<1>2. QED BY <1>1, ChainFacts DEF FullPart

(* What the latest block holds once it is filled, and its hash. *)
LEMMA FillCarries ==
  ASSUME KVInv, ContentInv, FillLatest, NEW k \in Nat,
         k + 1 <= Len(requestMap[call.req]), Len(requestMap[call.req]) <= k + 1
  PROVE  /\ FillStop <= (k + 1) * BlockSize
         /\ k * BlockSize < call.pos
         /\ FillContent = Chunk(Sequence(call.req), k + 1, FillStop)
         /\ Len(FillContent) = FillStop - k * BlockSize
         /\ FillBlock = requestMap[call.req][k + 1]
<1> PICK r \in Requests : r = call.req BY FillFacts, AllocFacts
<1>1. /\ call.op = "alloc" /\ call.cached = <<>> /\ r \in running
      /\ call.pos \in Nat /\ call.end \in Nat /\ call.pos < call.end
      /\ call.end <= Len(Sequence(r)) /\ requestMap[r] \in Seq(Blocks)
      /\ FillStop \in Nat /\ call.pos < FillStop /\ FillStop <= call.end
  BY FillFacts, AllocFacts
<1>2. HoldsStored(r) /\ Claims BY <1>1 DEF ContentInv
<1>3. Stored(r) = call.pos BY <1>1, <1>2, StoredFacts
<1>4. /\ Len(requestMap[r]) = k + 1 /\ requestMap[r] # <<>>
      /\ Len(requestMap[r]) - 1 = k
  BY <1>1
<1>5. /\ k * BlockSize \in Nat /\ (k + 1) * BlockSize = k * BlockSize + BlockSize
      /\ BlockSize \in Nat
  BY Multiples, KVAssumption
<1>6. call.pos <= (k + 1) * BlockSize /\ k * BlockSize < call.pos
  BY <1>2, <1>3, <1>4 DEF HoldsStored
<1>7. FillBlock = requestMap[r][k + 1] BY <1>4 DEF FillBlock, Last
<1>8. k + 1 \in 1 .. Len(requestMap[r]) BY <1>4
<1>9. tokens[FillBlock] = Chunk(Sequence(r), k + 1, call.pos)
  <2>1. Carries(tokens[requestMap[r][k + 1]], hash[requestMap[r][k + 1]], r, k + 1, Stored(r))
    BY <1>2, <1>8 DEF HoldsStored
  <2>2. QED BY <1>3, <1>7, <2>1 DEF Carries
<1>10. Least((k + 1) * BlockSize, call.pos) = call.pos
  BY SMTT(60), <1>1, <1>5, <1>6 DEF Least
<1>11. Len(tokens[FillBlock]) = call.pos - k * BlockSize
  <2>1. k * BlockSize <= call.pos /\ call.pos <= Len(Sequence(r))
    BY SMTT(60), <1>1, <1>5, <1>6, SequenceType
  <2>2. QED BY <1>1, <1>9, <1>10, <2>1, ChunkType
<1>12. FillStop = Least((k + 1) * BlockSize, call.end)
  <2>1. call.pos + BlockSize - (call.pos - k * BlockSize) = (k + 1) * BlockSize
    BY SMTT(60), <1>1, <1>5
  <2>2. QED BY <1>11, <2>1 DEF FillStop
<1>13. FillStop <= (k + 1) * BlockSize BY <1>1, <1>5, <1>12 DEF Least
<1>14. FillContent = Chunk(Sequence(r), k + 1, FillStop)
  <2> DEFINE a == k * BlockSize
             p == call.pos
             s == Sequence(r)
             e == FillStop
  <2>1. tokens[FillBlock] = SubSeq(s, a + 1, p)
    <3>1. (k + 1) - 1 = k OBVIOUS
    <3>2. QED BY <1>9, <1>10, <3>1 DEF Chunk
  <2>2. Chunk(s, k + 1, e) = SubSeq(s, a + 1, e)
    <3>1. (k + 1) - 1 = k OBVIOUS
    <3>2. Least((k + 1) * BlockSize, e) = e BY <1>1, <1>5, <1>13 DEF Least
    <3>3. QED BY <3>1, <3>2 DEF Chunk
  <2>3. FillContent = tokens[FillBlock] \o SubSeq(s, p + 1, e)
    BY DEF FillContent
  <2>4. /\ a \in Nat /\ p \in Nat /\ e \in Nat /\ a < p /\ p < e /\ e <= Len(s)
        /\ s \in Seq(Tokens) /\ Len(s) \in Nat
    BY SMTT(60), <1>1, <1>5, <1>6, SequenceType
  <2> HIDE DEF a, p, s, e
  <2>5. SubSeq(s, a + 1, p) \o SubSeq(s, p + 1, e) = SubSeq(s, a + 1, e)
    <3>1. a + 1 \in 1 .. Len(s) + 1 /\ p \in (a + 1) - 1 .. Len(s) /\ e \in p .. Len(s)
      BY <2>4
    <3>2. QED BY <2>4, <3>1, ConcatAdjacentSubSeq
  <2>6. QED BY <2>1, <2>2, <2>3, <2>5 DEF s, e
<1>15. Len(FillContent) = FillStop - k * BlockSize
  <2> DEFINE a == k * BlockSize
             p == call.pos
             e == FillStop
             m == Len(tokens[FillBlock])
             n == Len(FillContent)
  <2>1. n = m + (e - p) /\ m = p - a /\ a \in Nat /\ p \in Nat /\ e \in Nat
    BY <1>1, <1>5, <1>11, FillFacts
  <2> HIDE DEF a, p, e, m, n
  <2>2. n = e - a BY <2>1
  <2>3. QED BY <2>2 DEF a, e, n
<1>16. QED BY <1>6, <1>7, <1>13, <1>14, <1>15

(* Filling the latest block keeps everybody's contents: it is private. *)
LEMMA FillLatestContentInv ==
  ASSUME KVInv, RoomInv, ContentInv, FillLatest
  PROVE  ContentInv'
<1> PICK r \in Requests : r = call.req BY FillFacts, AllocFacts
<1>1. /\ call.op = "alloc" /\ call.cached = <<>> /\ r \in running
      /\ call.pos \in Nat /\ call.end \in Nat /\ call.pos < call.end
      /\ call.end <= Len(Sequence(r)) /\ requestMap[r] \in Seq(Blocks)
      /\ FillStop \in Nat /\ call.pos < FillStop /\ FillStop <= call.end
      /\ requestMap[r] # <<>> /\ Len(Sequence(r)) \in Nat
  BY FillFacts, AllocFacts, SequenceType
<1>2. HoldsStored(r) /\ Claims /\ Stored(r) = call.pos
  BY <1>1, StoredFacts DEF ContentInv
<1>3. PICK k \in Nat : k + 1 <= Len(requestMap[r]) /\ Len(requestMap[r]) <= k + 1
  BY <1>1, NonEmptyBounds
<1>4. /\ FillStop <= (k + 1) * BlockSize /\ k * BlockSize < call.pos
      /\ FillContent = Chunk(Sequence(r), k + 1, FillStop)
      /\ Len(FillContent) = FillStop - k * BlockSize
      /\ FillBlock = requestMap[r][k + 1]
  BY <1>3, FillCarries
<1>5. /\ k * BlockSize \in Nat /\ (k + 1) * BlockSize = k * BlockSize + BlockSize
      /\ BlockSize \in Nat
  BY Multiples, KVAssumption
<1>6. /\ call'.op = "alloc" /\ call'.req = r /\ call'.pos = FillStop
      /\ call'.end = call.end /\ call'.cached = <<>>
      /\ requestMap' = requestMap /\ progress' = progress /\ running' = running
  BY <1>1, FillFacts
<1>7. /\ FillBlock \in Blocks /\ FillBlock \in RangeOf(requestMap[r])
      /\ Len(tokens[FillBlock]) # BlockSize
      /\ tokens'[FillBlock] = FillContent
      /\ \A c \in Blocks \ {FillBlock} : tokens'[c] = tokens[c]
  <2>1. /\ FillBlock \in Blocks /\ FillBlock \in RangeOf(requestMap[r])
        /\ Len(tokens[FillBlock]) \in 1 .. BlockSize - 1
        /\ tokens' = [tokens EXCEPT ![FillBlock] = FillContent]
        /\ tokens \in [Blocks -> Seq(Tokens)]
    BY FillFacts, AllocFacts
  <2>2. Len(tokens[FillBlock]) # BlockSize BY <1>5, <2>1
  <2>3. QED BY <2>1, <2>2
<1>8. (* The hash of the block, when the step fills it. *)
      ASSUME Len(FillContent) = BlockSize
      PROVE  /\ hash' = [hash EXCEPT ![FillBlock] = Chain(Sequence(r), k + 1)]
             /\ DOMAIN hashToBlock' = (DOMAIN hashToBlock) \cup {Chain(Sequence(r), k + 1)}
             /\ (k + 1) * BlockSize <= Len(Sequence(r))
  <2> DEFINE prev == IF Len(requestMap[r]) >= 2
                     THEN hash[requestMap[r][Len(requestMap[r]) - 1]] ELSE NoHash
  <2>1. FillStop = (k + 1) * BlockSize /\ (k + 1) * BlockSize <= Len(Sequence(r))
    BY SMTT(60), <1>1, <1>4, <1>5, <1>8
  <2>2. prev = Chain(Sequence(r), k)
    <3>1. CASE k = 0 BY <1>3, <3>1, SequenceType, ChainFacts
    <3>2. CASE k # 0
      <4>1. PICK j \in Nat : k = j + 1 BY <3>2, k - 1 \in Nat
      <4>2. /\ Len(requestMap[r]) >= 2 /\ Len(requestMap[r]) - 1 = j + 1
            /\ j + 1 <= Len(requestMap[r])
        BY <1>1, <1>3, <4>1
      <4>3. (j + 1) * BlockSize <= Stored(r) /\ Stored(r) \in Nat
            /\ Stored(r) <= Len(Sequence(r))
        BY <1>1, <1>2, <1>4, <1>5, <4>1
      <4>4. hash[requestMap[r][j + 1]] = Chain(Sequence(r), j + 1)
        BY <1>1, <1>2, <4>2, <4>3, ListedHash
      <4>5. QED BY <4>1, <4>2, <4>4
    <3>3. QED BY <3>1, <3>2
  <2>3. HashBlock(prev, FillContent) = Chain(Sequence(r), k + 1)
    <3>1. FillContent = FullPart(r, k + 1) BY <1>4, <2>1 DEF FullPart
    <3>2. Chain(Sequence(r), k + 1) = HashBlock(Chain(Sequence(r), k), FullPart(r, k + 1))
      BY SMTT(60), ChainGrows
    <3>3. QED BY <2>2, <3>1, <3>2
  <2> DEFINE h == HashBlock(prev, FillContent)
  <2>4. /\ hash' = [hash EXCEPT ![FillBlock] = h]
        /\ hashToBlock' = [g \in (DOMAIN hashToBlock) \cup {h} |->
                            IF g = h THEN FillBlock ELSE hashToBlock[g]]
    BY <1>8 DEF FillLatest, SetHash, FillBlock, FillStop, FillContent
  <2> HIDE DEF h
  <2>5. DOMAIN hashToBlock' = (DOMAIN hashToBlock) \cup {h} BY <2>4
  <2>6. h = Chain(Sequence(r), k + 1) BY SMTT(60), <2>3 DEF h
  <2>7. QED BY <2>1, <2>4, <2>5, <2>6
<1>9. ASSUME Len(FillContent) # BlockSize
      PROVE  hash' = hash /\ hashToBlock' = hashToBlock
  BY <1>9 DEF FillLatest, FillBlock, FillStop, FillContent
<1>10. \A c \in Blocks \ {FillBlock} : tokens'[c] = tokens[c] /\ hash'[c] = hash[c]
  BY <1>7, <1>8, <1>9 DEF KVInv, TypeOK
<1>11. Stored(r)' = FillStop
  <2>1. Stored(r)' = FillStop - 0 * BlockSize BY <1>6 DEF Stored
  <2>2. QED BY <1>1, <2>1, Multiples
<1>12. HoldsStored(r)'
  <2>1. ASSUME NEW i \in 1 .. Len(requestMap[r])
        PROVE  Carries(tokens'[requestMap[r][i]], hash'[requestMap[r][i]], r, i, FillStop)
    <3>1. CASE i = k + 1
      <4>1. Len(FillContent) = BlockSize => hash'[FillBlock] = Chain(Sequence(r), k + 1)
        BY <1>7, <1>8 DEF KVInv, TypeOK
      <4>2. QED BY <1>4, <1>7, <3>1, <4>1 DEF Carries
    <3>2. CASE i # k + 1
      <4>1. PICK j \in Nat : i = j + 1 /\ j + 1 <= Len(requestMap[r]) /\ j + 1 <= k
        BY <1>1, <1>3, <3>2, i - 1 \in Nat
      <4>2. (j + 1) * BlockSize \in Nat /\ (j + 1) * BlockSize <= k * BlockSize
        BY <4>1, j + 1 \in Nat, MultiplesOrder
      <4>3. /\ (j + 1) * BlockSize <= Stored(r) /\ (j + 1) * BlockSize <= FillStop
            /\ Stored(r) \in Nat /\ Stored(r) <= Len(Sequence(r))
        <5> DEFINE a == k * BlockSize
                   c == (j + 1) * BlockSize
                   n == Len(Sequence(r))
        <5>1. /\ a \in Nat /\ c \in Nat /\ c <= a /\ a < call.pos
              /\ call.pos \in Nat /\ call.end \in Nat /\ FillStop \in Nat /\ n \in Nat
              /\ call.pos < FillStop /\ call.pos < call.end /\ call.end <= n
              /\ Stored(r) = call.pos
          BY <1>1, <1>2, <1>4, <1>5, <4>2
        <5> HIDE DEF a, c, n
        <5>2. c <= call.pos /\ c <= FillStop /\ call.pos <= n BY <5>1
        <5>3. QED BY <5>1, <5>2 DEF c, n
      <4>4. Len(tokens[requestMap[r][j + 1]]) = BlockSize
        BY <1>1, <1>2, <4>1, <4>3, ListedHash
      <4>5. requestMap[r][j + 1] \in Blocks \ {FillBlock}
        BY <1>1, <1>7, <4>1, <4>4
      <4>6. Carries(tokens[requestMap[r][i]], hash[requestMap[r][i]], r, i, Stored(r))
        BY <1>2 DEF HoldsStored
      <4>7. Chunk(Sequence(r), i, Stored(r)) = Chunk(Sequence(r), i, FillStop)
        BY <1>1, <4>1, <4>2, <4>3, ChunkSettled
      <4>8. Carries(tokens[requestMap[r][i]], hash[requestMap[r][i]], r, i, FillStop)
        BY <4>6, <4>7 DEF Carries
      <4>9. QED BY <1>10, <4>1, <4>5, <4>8
    <3>3. QED BY <3>1, <3>2
  <2>2. Len(requestMap[r]) = k + 1 /\ Len(requestMap[r]) - 1 = k BY <1>1, <1>3
  <2>3. FillStop <= Len(requestMap[r]) * BlockSize
        /\ (Len(requestMap[r]) - 1) * BlockSize < FillStop
    BY <1>1, <1>4, <1>5, <2>2
  <2>4. QED BY <1>6, <1>11, <2>1, <2>3 DEF HoldsStored
<1>13. \A q \in running' : q # r => HoldsStored(q)'
  <2> SUFFICES ASSUME NEW q \in running, q # r PROVE HoldsStored(q)' BY <1>6
  <2>1. q \in Requests BY DEF KVInv, TypeOK
  <2>2. FillBlock \notin RangeOf(requestMap[q])
    BY <1>7, <2>1 DEF RoomInv, Private, Held
  <2>3. \A c \in RangeOf(requestMap[q]) : tokens'[c] = tokens[c] /\ hash'[c] = hash[c]
    BY <1>10, <2>1, <2>2, HeldType DEF KVInv
  <2>4. QED BY <1>1, <1>6, <2>3, BystandersHold
<1>14. Claims'
  <2>1. progress'[r] >= InputLen(r) => call'.end <= call'.pos + 1
    <3>1. progress[r] >= InputLen(r) => call.end <= call.pos + 1
      BY <1>1, <1>2 DEF Claims
    <3>2. QED BY <1>1, <1>6, <3>1
  <2>2. 1 .. Len(call'.cached) = {} BY <1>6
  <2>3. QED BY <1>6, <2>1, <2>2 DEF Claims
<1>15. IndexedHashesAreLineages'
  <2>1. CASE Len(FillContent) = BlockSize
    <3>1. k + 1 \in Nat OBVIOUS
    <3>2. QED BY <1>8, <2>1, <3>1, LineageRegistered DEF ContentInv
  <2>2. CASE Len(FillContent) # BlockSize
    BY <1>9, <2>2, LineagesKept DEF ContentInv
  <2>3. QED BY <2>1, <2>2
<1>16. QED BY <1>6, <1>12, <1>13, <1>14, <1>15 DEF ContentInv

(* A block is taken when the listed ones are full. *)
LEMMA PopBehindFullBlocks ==
  ASSUME KVInv, RoomInv, ContentInv, PopBlock
  PROVE  call.pos = Len(requestMap[call.req]) * BlockSize
<1> PICK r \in Requests : r = call.req BY PopFacts, AllocFacts
<1>1. /\ call.op = "alloc" /\ call.cached = <<>> /\ r \in running
      /\ call.pos \in Nat /\ call.end \in Nat /\ call.pos < call.end
      /\ call.end <= Len(Sequence(r)) /\ requestMap[r] \in Seq(Blocks)
      /\ ~LatestIsPartial(r) /\ Len(Sequence(r)) \in Nat /\ BlockSize \in Nat
  BY PopFacts, AllocFacts, SequenceType
<1>2. HoldsStored(r) /\ Stored(r) = call.pos
  BY <1>1, StoredFacts DEF ContentInv
<1>3. CASE requestMap[r] = <<>>
  <2>1. call.pos <= 0 * BlockSize /\ 0 * BlockSize = 0 /\ Len(requestMap[r]) = 0
    BY <1>2, <1>3, Multiples DEF HoldsStored
  <2>2. QED BY <1>1, <2>1
<1>4. CASE requestMap[r] # <<>>
  <2>1. PICK j \in Nat : j + 1 <= Len(requestMap[r]) /\ Len(requestMap[r]) <= j + 1
    BY <1>1, <1>4, NonEmptyBounds
  <2>2. /\ Len(requestMap[r]) = j + 1 /\ Len(requestMap[r]) - 1 = j
        /\ j + 1 \in 1 .. Len(requestMap[r])
    BY <1>1, <2>1
  <2>3. /\ Last(requestMap[r]) = requestMap[r][j + 1]
        /\ Last(requestMap[r]) \in RangeOf(requestMap[r])
    BY <2>2 DEF Last, RangeOf
  <2>4. Len(tokens[requestMap[r][j + 1]]) = BlockSize
    <3>1. Len(tokens[Last(requestMap[r])]) \in 1 .. BlockSize
      BY <2>3 DEF RoomInv, Filled
    <3>2. Len(tokens[Last(requestMap[r])]) \notin 1 .. BlockSize - 1
      BY <1>1, <1>4 DEF LatestIsPartial
    <3>3. QED BY SMTT(60), <1>1, <2>3, <3>1, <3>2
  <2>5. /\ j * BlockSize \in Nat /\ (j + 1) * BlockSize = j * BlockSize + BlockSize
        /\ j * BlockSize < call.pos /\ call.pos <= (j + 1) * BlockSize
    BY <1>2, <1>4, <2>2, Multiples DEF HoldsStored
  <2>6. tokens[requestMap[r][j + 1]] = Chunk(Sequence(r), j + 1, call.pos)
    BY <1>2, <2>2 DEF HoldsStored, Carries
  <2>7. Len(Chunk(Sequence(r), j + 1, call.pos)) =
          Least((j + 1) * BlockSize, call.pos) - j * BlockSize
    <3>1. j * BlockSize <= call.pos /\ call.pos <= Len(Sequence(r))
      BY SMTT(60), <1>1, <2>5
    <3>2. QED BY <1>1, <3>1, ChunkType
  <2>8. Least((j + 1) * BlockSize, call.pos) = call.pos BY <1>1, <2>5 DEF Least
  <2>9. call.pos - j * BlockSize = BlockSize BY <2>4, <2>6, <2>7, <2>8
  <2>10. QED BY SMTT(60), <1>1, <2>2, <2>5, <2>9
<1>5. QED BY <1>3, <1>4

(* A block off the free list is nobody's, and gets the next part. *)
LEMMA PopBlockContentInv ==
  ASSUME PromptsEndInsideABlock, KVInv, RoomInv, ContentInv, PopBlock
  PROVE  ContentInv'
<1> PICK r \in Requests, b \in Blocks : r = call.req /\ b = Head(freeList)
  BY PopFacts, AllocFacts
<1>1. /\ call.op = "alloc" /\ call.cached = <<>> /\ r \in running
      /\ call.pos \in Nat /\ call.end \in Nat /\ call.pos < call.end
      /\ call.end <= Len(Sequence(r)) /\ requestMap[r] \in Seq(Blocks)
      /\ PopStop \in Nat /\ call.pos < PopStop /\ PopStop <= call.end
      /\ Len(PopContent) = PopStop - call.pos /\ Len(PopContent) \in 1 .. BlockSize
      /\ Len(Sequence(r)) \in Nat /\ Holders(b) = {}
  <2>1. /\ call.op = "alloc" /\ call.cached = <<>> /\ call.pos < call.end
        /\ PopStop \in Nat /\ call.pos < PopStop /\ PopStop <= call.end
        /\ Len(PopContent) = PopStop - call.pos /\ Len(PopContent) \in 1 .. BlockSize
        /\ Holders(b) = {}
    BY PopFacts
  <2>2. /\ r \in running /\ call.pos \in Nat /\ call.end \in Nat
        /\ call.end <= Len(Sequence(r)) /\ requestMap[r] \in Seq(Blocks)
    BY <2>1, AllocFacts
  <2>3. QED BY <2>1, <2>2, SequenceType
<1>2. HoldsStored(r) /\ Claims /\ Stored(r) = call.pos
  BY <1>1, StoredFacts DEF ContentInv
<1>3. PICK k \in Nat : k = Len(requestMap[r]) BY <1>1
<1>4. call.pos = k * BlockSize BY <1>3, PopBehindFullBlocks
<1>5. /\ k * BlockSize \in Nat /\ (k + 1) * BlockSize = k * BlockSize + BlockSize
      /\ BlockSize \in Nat /\ BlockSize >= 2 /\ (k + 1) - 1 = k
  <2>1. BlockSize \in Nat /\ BlockSize >= 2 BY InsideABlock
  <2>2. k * BlockSize \in Nat /\ (k + 1) * BlockSize = k * BlockSize + BlockSize
    BY Multiples
  <2>3. QED BY <2>1, <2>2
<1>6. /\ call'.op = "alloc" /\ call'.req = r /\ call'.pos = PopStop
      /\ call'.end = call.end /\ call'.cached = <<>>
      /\ requestMap'[r] = Append(requestMap[r], b)
      /\ \A q \in Requests \ {r} : requestMap'[q] = requestMap[q]
      /\ progress' = progress /\ running' = running
  BY <1>1, PopFacts
<1>7. tokens' = [tokens EXCEPT ![b] = PopContent]
      /\ tokens \in [Blocks -> Seq(Tokens)] /\ hash \in [Blocks -> Seq(Seq(Tokens))]
  BY <1>1, PopFacts, AllocFacts
<1>8. PopStop <= (k + 1) * BlockSize BY <1>1, <1>4, <1>5 DEF PopStop, Least
<1>9. PopContent = Chunk(Sequence(r), k + 1, PopStop)
  <2>1. Least((k + 1) * BlockSize, PopStop) = PopStop
    BY <1>1, <1>5, <1>8 DEF Least
  <2>2. QED BY <1>4, <1>5, <2>1 DEF PopContent, Chunk
<1>10. (* A block that is filled is hashed: past the prompt one token is *)
       (* stored at a time, which fills none.                            *)
       ASSUME Len(PopContent) = BlockSize
       PROVE  /\ hash' = [hash EXCEPT ![b] = Chain(Sequence(r), k + 1)]
              /\ DOMAIN hashToBlock' \subseteq
                   (DOMAIN hashToBlock) \cup {Chain(Sequence(r), k + 1)}
              /\ (k + 1) * BlockSize <= Len(Sequence(r))
  <2> DEFINE prev == IF requestMap[r] = <<>> THEN NoHash ELSE hash[Last(requestMap[r])]
  <2>1. PopStop = (k + 1) * BlockSize /\ (k + 1) * BlockSize <= Len(Sequence(r))
    BY <1>1, <1>4, <1>5, <1>8, <1>10
  <2>2. progress[r] < InputLen(r)
    <3>1. progress[r] >= InputLen(r) => call.end <= call.pos + 1
      BY <1>1, <1>2 DEF Claims
    <3>2. ~(call.end <= call.pos + 1)
      <4> DEFINE a == k * BlockSize
                 c == (k + 1) * BlockSize
      <4>1. /\ a \in Nat /\ c = a + BlockSize /\ call.pos = a /\ PopStop = c
            /\ BlockSize \in Nat /\ BlockSize >= 2 /\ PopStop <= call.end
            /\ call.end \in Nat
        BY <1>1, <1>4, <1>5, <2>1
      <4> HIDE DEF a, c
      <4>2. QED BY <4>1
    <3>3. progress[r] \in Nat /\ InputLen(r) \in Nat
      BY SequenceType DEF KVInv, TypeOK
    <3>4. QED BY <3>1, <3>2, <3>3
  <2>3. prev = Chain(Sequence(r), k)
    <3>1. CASE k = 0
      <4>1. Len(requestMap[r]) = 0 BY <1>3, <3>1
      <4>2. \A s \in Seq(Blocks) : Len(s) = 0 => s = <<>> OBVIOUS
      <4>3. requestMap[r] = <<>> BY <1>1, <4>1, <4>2
      <4>4. QED BY <3>1, <4>3, SequenceType, ChainFacts
    <3>2. CASE k # 0
      <4>1. PICK j \in Nat : k = j + 1 BY <3>2, k - 1 \in Nat
      <4>2. /\ requestMap[r] # <<>> /\ Last(requestMap[r]) = requestMap[r][j + 1]
            /\ j + 1 <= Len(requestMap[r])
        <5>1. Len(requestMap[r]) = j + 1 BY <1>3, <4>1
        <5>2. \A s \in Seq(Blocks) : Len(s) = j + 1 => s # <<>> OBVIOUS
        <5>3. QED BY <1>1, <5>1, <5>2 DEF Last
      <4>3. (j + 1) * BlockSize <= Stored(r) /\ Stored(r) \in Nat
            /\ Stored(r) <= Len(Sequence(r))
        BY <1>1, <1>2, <1>4, <1>5, <4>1
      <4>4. hash[requestMap[r][j + 1]] = Chain(Sequence(r), j + 1)
        BY <1>1, <1>2, <4>2, <4>3, ListedHash
      <4>5. QED BY <4>1, <4>2, <4>4
    <3>3. QED BY <3>1, <3>2
  <2>4. HashBlock(prev, PopContent) = Chain(Sequence(r), k + 1)
    <3>1. PopContent = FullPart(r, k + 1) BY <1>9, <2>1 DEF FullPart
    <3>2. Chain(Sequence(r), k + 1) = HashBlock(Chain(Sequence(r), k), FullPart(r, k + 1))
      BY ChainGrows
    <3>3. QED BY <2>3, <3>1, <3>2
  <2> DEFINE h == HashBlock(prev, PopContent)
             index == IndexWithout(hash[b])
  <2>5. /\ hash' = [hash EXCEPT ![b] = h]
        /\ hashToBlock' = [g \in (DOMAIN index) \cup {h} |->
                            IF g = h THEN b ELSE index[g]]
    BY <1>10, <2>2 DEF PopBlock, SetHash, PopStop, PopContent
  <2>6. DOMAIN index \subseteq DOMAIN hashToBlock BY DEF IndexWithout
  <2> HIDE DEF h, index
  <2>7. DOMAIN hashToBlock' \subseteq (DOMAIN hashToBlock) \cup {h}
    BY <2>5, <2>6
  <2>8. h = Chain(Sequence(r), k + 1) BY <2>4 DEF h
  <2>9. QED BY <2>1, <2>5, <2>7, <2>8
<1>11. ASSUME Len(PopContent) # BlockSize
       PROVE  /\ hash' = [hash EXCEPT ![b] = NoHash]
              /\ DOMAIN hashToBlock' \subseteq DOMAIN hashToBlock
  <2>1. hash' = [hash EXCEPT ![b] = NoHash] /\ hashToBlock' = IndexWithout(hash[b])
    BY <1>11 DEF PopBlock, PopStop, PopContent
  <2>2. QED BY <2>1 DEF IndexWithout
<1>12. \A c \in Blocks \ {b} : tokens'[c] = tokens[c] /\ hash'[c] = hash[c]
  BY <1>7, <1>10, <1>11
<1>13. \A q \in Requests : \A c \in RangeOf(requestMap[q]) :
         tokens'[c] = tokens[c] /\ hash'[c] = hash[c]
  <2> SUFFICES ASSUME NEW q \in Requests, NEW c \in RangeOf(requestMap[q])
               PROVE  tokens'[c] = tokens[c] /\ hash'[c] = hash[c]
    OBVIOUS
  <2>1. c \in Blocks BY HeldType DEF KVInv
  <2>2. c # b BY <1>1 DEF Holders, Held
  <2>3. QED BY <1>12, <2>1, <2>2
<1>14. Stored(r)' = PopStop
  <2>1. Stored(r)' = PopStop - 0 * BlockSize BY <1>6 DEF Stored
  <2>2. QED BY <1>1, <2>1, Multiples
<1>15. HoldsStored(r)'
  <2>1. Carries(tokens'[b], hash'[b], r, k + 1, PopStop)
    <3>1. tokens'[b] = PopContent BY <1>7
    <3>2. Len(PopContent) = BlockSize => hash'[b] = Chain(Sequence(r), k + 1)
      BY <1>7, <1>10
    <3>3. QED BY <1>9, <3>1, <3>2 DEF Carries
  <2>2. /\ Stored(r) = Len(requestMap[r]) * BlockSize
        /\ Stored(r)' \in Nat /\ Stored(r) < Stored(r)'
        /\ Stored(r)' <= (Len(requestMap[r]) + 1) * BlockSize
    BY <1>1, <1>2, <1>3, <1>4, <1>8, <1>14
  <2>3. Carries(tokens'[b], hash'[b], r, Len(requestMap[r]) + 1, Stored(r)')
    BY <1>3, <1>14, <2>1
  <2>4. QED BY <1>1, <1>2, <1>6, <1>13, <2>2, <2>3, ListGrows
<1>16. \A q \in running' : q # r => HoldsStored(q)'
  <2> SUFFICES ASSUME NEW q \in running, q # r PROVE HoldsStored(q)' BY <1>6
  <2>1. q \in Requests BY DEF KVInv, TypeOK
  <2>2. requestMap'[q] = requestMap[q] BY <1>6, <2>1
  <2>3. \A c \in RangeOf(requestMap[q]) : tokens'[c] = tokens[c] /\ hash'[c] = hash[c]
    BY <1>13, <2>1
  <2>4. QED BY <1>1, <1>6, <2>2, <2>3, BystandersHold
<1>17. Claims'
  <2>1. progress'[r] >= InputLen(r) => call'.end <= call'.pos + 1
    <3>1. progress[r] >= InputLen(r) => call.end <= call.pos + 1
      BY <1>1, <1>2 DEF Claims
    <3>2. QED BY SMTT(60), <1>1, <1>6, <3>1
  <2>2. 1 .. Len(call'.cached) = {} BY <1>6
  <2>3. QED BY <1>6, <2>1, <2>2 DEF Claims
<1>18. IndexedHashesAreLineages'
  <2>1. CASE Len(PopContent) = BlockSize
    <3>1. k + 1 \in Nat OBVIOUS
    <3>2. QED BY <1>10, <2>1, <3>1, LineageRegistered DEF ContentInv
  <2>2. CASE Len(PopContent) # BlockSize
    BY <1>11, <2>2, LineagesKept DEF ContentInv
  <2>3. QED BY <2>1, <2>2
<1>19. QED BY <1>6, <1>15, <1>16, <1>17, <1>18 DEF ContentInv

------------------------------
(* Every step keeps the contents. *)
LEMMA NextContentInv ==
  PromptsEndInsideABlock => (KVInv /\ RoomInv /\ ContentInv /\ [Next]_vars => ContentInv')
<1> SUFFICES ASSUME PromptsEndInsideABlock, KVInv, RoomInv, ContentInv, [Next]_vars
             PROVE  ContentInv'
  OBVIOUS
<1>1. CASE UNCHANGED vars
  <2>1. \A r \in Requests : Stored(r)' = Stored(r) BY <1>1 DEF vars, Stored
  <2>2. \A r \in running' : HoldsStored(r)'
    <3> SUFFICES ASSUME NEW r \in running PROVE HoldsStored(r)'
      BY <1>1 DEF vars
    <3>1. r \in Requests /\ HoldsStored(r) BY DEF KVInv, TypeOK, ContentInv
    <3>2. QED BY <1>1, <2>1, <3>1, HoldsKept DEF vars
  <2>3. Claims' BY <1>1 DEF vars, ContentInv, Claims
  <2>4. IndexedHashesAreLineages' BY <1>1, LineagesKept DEF vars, ContentInv
  <2>5. QED BY <2>2, <2>3, <2>4 DEF ContentInv
<1>2. ASSUME NEW r \in Requests, Admit(r) PROVE ContentInv'
  BY <1>2, AdmitContentInv
<1>3. ASSUME NEW r \in Requests, ContinuePrefill(r) PROVE ContentInv'
  <2>1. PICK end \in progress[r] + 1 .. InputLen(r) :
          call' = AllocCall(r, progress[r], end, <<>>, FALSE)
    BY <1>3 DEF ContinuePrefill
  <2>2. progress[r] \in Nat /\ InputLen(r) \in Nat
    BY SequenceType DEF KVInv, TypeOK
  <2>3. end \in Nat BY <2>2
  <2>4. QED BY <1>3, <2>1, <2>3, ExtendContentInv DEF ContinuePrefill
<1>4. ASSUME NEW r \in Requests, Decode(r) PROVE ContentInv'
  <2>1. progress[r] + 1 \in Nat BY DEF KVInv, TypeOK
  <2>2. QED BY <1>4, <2>1, ExtendContentInv DEF Decode
<1>5. ASSUME NEW r \in Requests, Complete(r) PROVE ContentInv'
  <2>1. CASE StartRelease(r)
    BY <1>5, <2>1, StartReleaseContentInv DEF Complete, Idle
  <2>2. CASE ~StartRelease(r)
    <3>1. progress[r] + 1 \in Nat BY DEF KVInv, TypeOK
    <3>2. QED BY <1>5, <2>2, <3>1, ExtendContentInv DEF Complete
  <2>3. QED BY <2>1, <2>2
<1>6. ASSUME NEW r \in Requests, Withdraw(r) PROVE ContentInv'
  BY <1>6, StartReleaseContentInv DEF Withdraw, Idle
<1>7. CASE ClaimCached BY <1>7, ClaimCachedContentInv
<1>8. CASE FillLatest BY <1>8, FillLatestContentInv
<1>9. CASE PopBlock BY <1>9, PopBlockContentInv
<1>10. CASE FinishAllocate BY <1>10, FinishAllocateContentInv
<1>11. CASE ReleaseBlock
  <2>1. call.op # "alloc" /\ call'.op # "alloc"
    <3>1. call \in [op : {"release"}, req : Requests, left : Seq(Blocks)]
      BY <1>11 DEF ReleaseBlock, KVInv, TypeOK, Calls, Idle
    <3>2. QED BY <1>11, <3>1 DEF ReleaseBlock
  <2>2. QED BY <1>11, <2>1, ReleaseContentInv DEF ReleaseBlock
<1>12. CASE FinishRelease
  BY <1>12, ReleaseContentInv DEF FinishRelease, Idle, poolVars
<1>13. QED BY <1>1, <1>2, <1>3, <1>4, <1>5, <1>6, <1>7, <1>8, <1>9, <1>10, <1>11,
              <1>12 DEF Next

(* ContentInv holds in every reachable state. *)
LEMMA AlwaysContentInv ==
  ASSUME PromptsEndInsideABlock
  PROVE  Spec => [](KVInv /\ RoomInv /\ ContentInv)
<1>1. KVInv /\ RoomInv /\ ContentInv /\ [Next]_vars => ContentInv'
  BY NextContentInv
<1>2. QED BY <1>1, InitKVInv, NextKVInv, InitRoomInv, NextRoomInv, InitContentInv, PTL
          DEF Spec

(* Between calls, the blocks of a running request hold what it computed. *)
LEMMA ContentIsProgress ==
  ASSUME KVInv, ContentInv
  PROVE  BlocksHoldProgress
<1> SUFFICES ASSUME call = Idle, NEW r \in running
             PROVE  /\ Len(requestMap[r]) = CeilDiv(progress[r], BlockSize)
                    /\ \A i \in 1 .. Len(requestMap[r]) :
                         tokens[requestMap[r][i]] =
                           SubSeq(Sequence(r), (i - 1) * BlockSize + 1,
                                  Least(i * BlockSize, progress[r]))
  BY DEF BlocksHoldProgress
<1>1. /\ r \in Requests /\ HoldsStored(r) /\ progress[r] \in Nat
      /\ requestMap[r] \in Seq(Blocks)
  BY DEF KVInv, TypeOK, ContentInv
<1>2. Stored(r) = progress[r] BY DEF Stored, Idle
<1>3. Len(requestMap[r]) = CeilDiv(progress[r], BlockSize)
  <2>1. Len(requestMap[r]) \in Nat /\ (Len(requestMap[r]) # 0 => requestMap[r] # <<>>)
    BY <1>1
  <2>2. QED BY <1>1, <1>2, <2>1, CeilDivIs DEF HoldsStored
<1>4. QED BY <1>1, <1>2, <1>3 DEF HoldsStored, Carries, Chunk

(* An allocation that passed its check does not fail on the way, stores    *)
(* exactly the tokens it was asked to, and registers them under their own  *)
(* lineage (AllocateKVBlocks), for every cache and every workload whose    *)
(* prompts end inside a block; without that premise a prompt found in the  *)
(* cache as a whole leaves the request with nothing to store.              *)
THEOREM KVAllocationSound ==
  ASSUME PromptsEndInsideABlock
  PROVE  Spec => []AllocationSound
<1>1. KVInv /\ RoomInv /\ ContentInv => AllocationSound
  BY RoomFeedsPop, ContentIsProgress DEF AllocationSound, ContentInv
<1>2. QED BY <1>1, AlwaysContentInv, PTL
=============================================================================
