------------------------------ MODULE KVCache ------------------------------
(***************************************************************************)
(* The single-tier KV cache of one instance (sim/kv/cache.go): a pool of   *)
(* fixed-size blocks with reference counts, an LRU free list, and a prefix *)
(* index from block hashes to blocks, driven by the calls batch formation  *)
(* and the step loop make on it with prefix caching enabled.               *)
(*                                                                         *)
(* AllocateKVBlocks and ReleaseKVBlocks are loops over blocks; one         *)
(* iteration is one step here.  The variable call is the call in progress; *)
(* the simulator is single threaded, so no other call starts meanwhile.    *)
(*                                                                         *)
(* A hash is the sequence of block contents it was chained from: equal     *)
(* exactly when SHA-256 values of equal (previous hash, tokens) pairs are. *)
(* NoHash plays the empty string: the hash of a block that has none, and   *)
(* also the hash the first block of a request is chained from.             *)
(***************************************************************************)
EXTENDS Integers, Sequences, FiniteSets

CONSTANTS
  Requests,      \* request names; a name is reused once its request is done
  NumBlocks,     \* TotalBlocks
  BlockSize,     \* BlockSizeTokens
  Tokens,        \* token values
  InputTokens,   \* Request.InputTokens,  [Requests -> Seq(Tokens)]
  OutputTokens   \* Request.OutputTokens, [Requests -> Seq(Tokens)]

ASSUME KVAssumption ==
  /\ NumBlocks \in Nat \ {0}
  /\ BlockSize \in Nat \ {0}
  /\ IsFiniteSet(Requests)
  /\ InputTokens \in [Requests -> Seq(Tokens)]
  /\ OutputTokens \in [Requests -> Seq(Tokens)]
  /\ \A r \in Requests : InputTokens[r] # <<>>

VARIABLES
  freeList,      \* FreeHead .. FreeTail, the least recently freed block first
  freeBlockCnt,  \* FreeBlockCnt
  refCount,      \* KVBlock.RefCount
  inUse,         \* KVBlock.InUse
  tokens,        \* KVBlock.Tokens
  hash,          \* KVBlock.Hash
  requestMap,    \* RequestMap, <<>> when the request has no entry
  hashToBlock,   \* HashToBlock, a function on the registered hashes
  progress,      \* Request.ProgressIndex, 0 for a request that is not running
  running,       \* the requests in the running batch
  call           \* the AllocateKVBlocks or ReleaseKVBlocks call in progress

vars == <<freeList, freeBlockCnt, refCount, inUse, tokens, hash, requestMap,
          hashToBlock, progress, running, call>>

-----------------------------------------------------------------------------
Blocks == 0 .. NumBlocks - 1

NoHash == <<>>
HashBlock(prev, content) == Append(prev, content)

InputLen(r) == Len(InputTokens[r])
Sequence(r) == InputTokens[r] \o OutputTokens[r]

(* Progress at which processCompletions finishes a request: the first      *)
(* output token is charged to prefill.                                     *)
CompletionProgress(r) ==
  InputLen(r) + (IF OutputTokens[r] = <<>> THEN 1 ELSE Len(OutputTokens[r])) - 1

Idle == [op |-> "idle"]

(* AllocateKVBlocks(req, pos, end, cached); final marks the allocation for *)
(* the last output token, which the release of the request follows.        *)
AllocCall(r, pos, end, cached, final) ==
  [op |-> "alloc", req |-> r, pos |-> pos, end |-> end, cached |-> cached,
   final |-> final]

(* ReleaseKVBlocks(req) with the blocks in left still to be returned.      *)
ReleaseCall(r, left) == [op |-> "release", req |-> r, left |-> left]

Least(a, b) == IF a <= b THEN a ELSE b
Last(s) == s[Len(s)]
RangeOf(s) == {s[i] : i \in 1 .. Len(s)}
CeilDiv(n, d) == (n + d - 1) \div d

(* removeFromFreeList: unlink one block, the others keep their order.      *)
Detach(list, b) ==
  LET k == CHOOSE i \in 1 .. Len(list) : list[i] = b
  IN  [i \in 1 .. Len(list) - 1 |-> IF i < k THEN list[i] ELSE list[i + 1]]

-----------------------------------------------------------------------------
(* The hash of the first k full blocks of a token sequence.                *)
Chain(s, k) ==
  [i \in 1 .. k |-> SubSeq(s, (i - 1) * BlockSize + 1, i * BlockSize)]

(* GetCachedBlocks walks the full blocks of a token sequence and stops at  *)
(* the first hash that is not registered: the number of blocks it found,   *)
(* as a singleton, and the blocks.                                         *)
PrefixHits(s) ==
  {n \in 0 .. Len(s) \div BlockSize :
     /\ \A i \in 1 .. n : Chain(s, i) \in DOMAIN hashToBlock
     /\ n < Len(s) \div BlockSize => Chain(s, n + 1) \notin DOMAIN hashToBlock}
CachedBlocks(s, n) == [i \in 1 .. n |-> hashToBlock[Chain(s, i)]]

(* Spare room in the request's last block, which absorbs new tokens first. *)
Spare(r) ==
  IF requestMap[r] = <<>> THEN 0
  ELSE BlockSize - Len(tokens[Last(requestMap[r])])

(* Mutant of PreCheck: cached blocks still on the free list count as free. *)
PreCheckForgetsCached(r, start, end, cached) ==
  IF progress[r] < InputLen(r)
  THEN CeilDiv((end - start) - Least(Spare(r), end - start), BlockSize)
         <= freeBlockCnt
  ELSE Spare(r) = 0 => freeBlockCnt # 0

(* The check-then-act gate at the top of AllocateKVBlocks: the blocks the  *)
(* new tokens need, and in prefill the cached blocks that leave the free   *)
(* list when they are claimed.                                             *)
PreCheck(r, start, end, cached) ==
  IF progress[r] < InputLen(r)
  THEN LET new == (end - start) - Least(Spare(r), end - start)
       IN  CeilDiv(new, BlockSize)
             + Cardinality({i \in 1 .. Len(cached) : ~inUse[cached[i]]})
           <= freeBlockCnt
  ELSE Spare(r) = 0 => freeBlockCnt # 0

-----------------------------------------------------------------------------
Init ==
  /\ freeList = [i \in 1 .. NumBlocks |-> i - 1]
  /\ freeBlockCnt = NumBlocks
  /\ refCount = [b \in Blocks |-> 0]
  /\ inUse = [b \in Blocks |-> FALSE]
  /\ tokens = [b \in Blocks |-> <<>>]
  /\ hash = [b \in Blocks |-> NoHash]
  /\ requestMap = [r \in Requests |-> <<>>]
  /\ hashToBlock = [h \in {} |-> 0]
  /\ progress = [r \in Requests |-> 0]
  /\ running = {}
  /\ call = Idle

poolVars == <<freeList, freeBlockCnt, refCount, inUse, tokens, hash,
              requestMap, hashToBlock>>

(* Phase 2 of FormBatch admits a waiting request: the cached prefix is     *)
(* looked up, a first chunk of the rest is allocated (the token budget and *)
(* the chunk threshold choose how much).  A refused request keeps waiting. *)
Admit(r) ==
  /\ call = Idle
  /\ r \notin running
  /\ \E n \in PrefixHits(InputTokens[r]) :
       \E end \in n * BlockSize .. InputLen(r) :
         /\ end = n * BlockSize => end = InputLen(r)
         /\ PreCheck(r, n * BlockSize, end, CachedBlocks(InputTokens[r], n))
         /\ call' = AllocCall(r, n * BlockSize, end,
                              CachedBlocks(InputTokens[r], n), FALSE)
  /\ running' = running \cup {r}
  /\ UNCHANGED <<poolVars, progress>>

(* Phase 1 of FormBatch continues a running prefill by one chunk.          *)
ContinuePrefill(r) ==
  /\ call = Idle
  /\ r \in running
  /\ progress[r] < InputLen(r)
  /\ \E end \in progress[r] + 1 .. InputLen(r) :
       /\ PreCheck(r, progress[r], end, <<>>)
       /\ call' = AllocCall(r, progress[r], end, <<>>, FALSE)
  /\ UNCHANGED <<poolVars, progress, running>>

(* Phase 1 of FormBatch schedules one decode token of a running request.   *)
Decode(r) ==
  /\ call = Idle
  /\ r \in running
  /\ InputLen(r) <= progress[r]
  /\ progress[r] < CompletionProgress(r)
  /\ PreCheck(r, progress[r], progress[r] + 1, <<>>)
  /\ call' = AllocCall(r, progress[r], progress[r] + 1, <<>>, FALSE)
  /\ UNCHANGED <<poolVars, progress, running>>

(* ReleaseKVBlocks starts: the map entry goes first.                       *)
StartRelease(r) ==
  /\ call' = ReleaseCall(r, requestMap[r])
  /\ requestMap' = [requestMap EXCEPT ![r] = <<>>]
  /\ progress' = [progress EXCEPT ![r] = 0]
  /\ running' = running \ {r}
  /\ UNCHANGED <<freeList, freeBlockCnt, refCount, inUse, tokens, hash,
                 hashToBlock>>

(* processCompletions: a request at its completion progress gets its last  *)
(* output token stored if the cache has room for it, and is released.      *)
Complete(r) ==
  /\ call = Idle
  /\ r \in running
  /\ progress[r] >= CompletionProgress(r)
  /\ \/ /\ progress[r] < Len(Sequence(r))
        /\ PreCheck(r, progress[r], progress[r] + 1, <<>>)
        /\ call' = AllocCall(r, progress[r], progress[r] + 1, <<>>, TRUE)
        /\ UNCHANGED <<poolVars, progress, running>>
     \/ /\ ~ /\ progress[r] < Len(Sequence(r))
             /\ PreCheck(r, progress[r], progress[r] + 1, <<>>)
        /\ StartRelease(r)

(* Preemption, timeout or eviction of a running request.                   *)
Withdraw(r) ==
  /\ call = Idle
  /\ r \in running
  /\ StartRelease(r)

-----------------------------------------------------------------------------
(* Mutant of ClaimCached: a block in use gains no reference.               *)
ClaimCachedFreeOnly ==
  /\ call.op = "alloc"
  /\ call.pos < call.end
  /\ call.cached # <<>>
  /\ LET b == Head(call.cached)
     IN  /\ IF inUse[b]
            THEN UNCHANGED <<refCount, inUse, freeList, freeBlockCnt>>
            ELSE /\ refCount' = [refCount EXCEPT ![b] = @ + 1]
                 /\ inUse' = [inUse EXCEPT ![b] = TRUE]
                 /\ freeList' = Detach(freeList, b)
                 /\ freeBlockCnt' = freeBlockCnt - 1
         /\ requestMap' = [requestMap EXCEPT ![call.req] = Append(@, b)]
         /\ call' = [call EXCEPT !.cached = Tail(@)]
  /\ UNCHANGED <<tokens, hash, hashToBlock, progress, running>>

(* One iteration of the loop that claims cached blocks, for a request the  *)
(* cache sees for the first time.  The loop runs only if there are new     *)
(* tokens to store.                                                        *)
ClaimCached ==
  /\ call.op = "alloc"
  /\ call.pos < call.end
  /\ call.cached # <<>>
  /\ LET r == call.req
         b == Head(call.cached)
     IN  /\ refCount' = [refCount EXCEPT ![b] = @ + 1]
         /\ inUse' = [inUse EXCEPT ![b] = TRUE]
         /\ IF inUse[b]
            THEN UNCHANGED <<freeList, freeBlockCnt>>
            ELSE /\ freeList' = Detach(freeList, b)
                 /\ freeBlockCnt' = freeBlockCnt - 1
         /\ requestMap' = [requestMap EXCEPT ![r] = Append(@, b)]
         /\ call' = [call EXCEPT !.cached = Tail(@)]
  /\ UNCHANGED <<tokens, hash, hashToBlock, progress, running>>

(* Storing content into block b, chained from prev when hashed.            *)
SetHash(b, h, index) ==
  /\ hash' = [hash EXCEPT ![b] = h]
  /\ hashToBlock' = [k \in (DOMAIN index) \cup {h} |-> IF k = h THEN b ELSE index[k]]

(* The index once a recycled block has lost its hash h; the mutant keeps   *)
(* the entry.                                                              *)
IndexKeeping(h) == hashToBlock
IndexWithout(h) == [k \in (DOMAIN hashToBlock) \ {h} |-> hashToBlock[k]]

LatestIsPartial(r) ==
  /\ requestMap[r] # <<>>
  /\ Len(tokens[Last(requestMap[r])]) \in 1 .. BlockSize - 1

(* The latest block has room: append to it, and hash it once it is full.   *)
FillLatest ==
  /\ call.op = "alloc"
  /\ call.pos < call.end
  /\ call.cached = <<>>
  /\ LatestIsPartial(call.req)
  /\ LET ids  == requestMap[call.req]
         b    == Last(ids)
         stop == Least(call.pos + BlockSize - Len(tokens[b]), call.end)
         full == tokens[b] \o SubSeq(Sequence(call.req), call.pos + 1, stop)
         prev == IF Len(ids) >= 2 THEN hash[ids[Len(ids) - 1]] ELSE NoHash
     IN  /\ tokens' = [tokens EXCEPT ![b] = full]
         /\ IF Len(full) = BlockSize
            THEN SetHash(b, HashBlock(prev, full), hashToBlock)
            ELSE UNCHANGED <<hash, hashToBlock>>
         /\ call' = [call EXCEPT !.pos = stop]
  /\ UNCHANGED <<freeList, freeBlockCnt, refCount, inUse, requestMap,
                 progress, running>>

(* The latest block is full or there is none: take the head of the free    *)
(* list (popFreeBlock), drop its old hash, store up to a block of tokens.  *)
(* A full block is hashed here during prefill only.                        *)
PopBlock ==
  /\ call.op = "alloc"
  /\ call.pos < call.end
  /\ call.cached = <<>>
  /\ ~LatestIsPartial(call.req)
  /\ freeList # <<>>
  /\ LET r     == call.req
         b     == Head(freeList)
         stop  == Least(call.pos + BlockSize, call.end)
         new   == SubSeq(Sequence(r), call.pos + 1, stop)
         prev  == IF requestMap[r] = <<>> THEN NoHash ELSE hash[Last(requestMap[r])]
         index == IndexWithout(hash[b])
     IN  /\ freeList' = Tail(freeList)
         /\ freeBlockCnt' = freeBlockCnt - 1
         /\ refCount' = [refCount EXCEPT ![b] = 1]
         /\ inUse' = [inUse EXCEPT ![b] = TRUE]
         /\ tokens' = [tokens EXCEPT ![b] = new]
         /\ IF Len(new) = BlockSize /\ progress[r] < InputLen(r)
            THEN SetHash(b, HashBlock(prev, new), index)
            ELSE /\ hash' = [hash EXCEPT ![b] = NoHash]
                 /\ hashToBlock' = index
         /\ requestMap' = [requestMap EXCEPT ![r] = Append(@, b)]
         /\ call' = [call EXCEPT !.pos = stop]
  /\ UNCHANGED <<progress, running>>

(* The call returns true; executeBatchStep advances the request to end.    *)
(* After the last output token the request is released.                    *)
FinishAllocate ==
  /\ call.op = "alloc"
  /\ call.pos = call.end
  /\ IF call.final
     THEN StartRelease(call.req)
     ELSE /\ progress' = [progress EXCEPT ![call.req] = call.end]
          /\ call' = Idle
          /\ UNCHANGED <<poolVars, running>>

(* Mutants of ReleaseBlock: the block is freed while still referenced; its *)
(* hash is dropped as soon as it is free.                                  *)
ReleaseBlockEagerly ==
  /\ call.op = "release"
  /\ call.left # <<>>
  /\ refCount' = [refCount EXCEPT ![Last(call.left)] = @ - 1]
  /\ inUse' = [inUse EXCEPT ![Last(call.left)] = refCount[Last(call.left)] > 1]
  /\ freeList' = Append(freeList, Last(call.left))
  /\ freeBlockCnt' = freeBlockCnt + 1
  /\ call' = [call EXCEPT !.left = SubSeq(@, 1, Len(@) - 1)]
  /\ UNCHANGED <<tokens, hash, requestMap, hashToBlock, progress, running>>

ReleaseBlockForgets ==
  /\ call.op = "release"
  /\ call.left # <<>>
  /\ LET b == Last(call.left)
     IN  /\ refCount' = [refCount EXCEPT ![b] = @ - 1]
         /\ IF refCount[b] = 1
            THEN /\ inUse' = [inUse EXCEPT ![b] = FALSE]
                 /\ freeList' = Append(freeList, b)
                 /\ freeBlockCnt' = freeBlockCnt + 1
                 /\ hashToBlock' = IndexWithout(hash[b])
            ELSE UNCHANGED <<inUse, freeList, freeBlockCnt, hashToBlock>>
         /\ call' = [call EXCEPT !.left = SubSeq(@, 1, Len(@) - 1)]
  /\ UNCHANGED <<tokens, hash, requestMap, progress, running>>

(* One iteration of ReleaseKVBlocks, from the last block to the first; a   *)
(* block nobody references any more goes to the tail of the free list.     *)
ReleaseBlock ==
  /\ call.op = "release"
  /\ call.left # <<>>
  /\ LET b == Last(call.left)
     IN  /\ refCount' = [refCount EXCEPT ![b] = @ - 1]
         /\ IF refCount[b] = 1
            THEN /\ inUse' = [inUse EXCEPT ![b] = FALSE]
                 /\ freeList' = Append(freeList, b)
                 /\ freeBlockCnt' = freeBlockCnt + 1
            ELSE UNCHANGED <<inUse, freeList, freeBlockCnt>>
         /\ call' = [call EXCEPT !.left = SubSeq(@, 1, Len(@) - 1)]
  /\ UNCHANGED <<tokens, hash, requestMap, hashToBlock, progress, running>>

FinishRelease ==
  /\ call.op = "release"
  /\ call.left = <<>>
  /\ call' = Idle
  /\ UNCHANGED <<poolVars, progress, running>>

Next ==
  \/ \E r \in Requests : \/ Admit(r)
                         \/ ContinuePrefill(r)
                         \/ Decode(r)
                         \/ Complete(r)
                         \/ Withdraw(r)
  \/ ClaimCached
  \/ FillLatest
  \/ PopBlock
  \/ FinishAllocate
  \/ ReleaseBlock
  \/ FinishRelease

Spec == Init /\ [][Next]_vars
-----------------------------------------------------------------------------
Calls ==
  {Idle}
    \cup [op : {"alloc"}, req : Requests, pos : Nat, end : Nat,
          cached : Seq(Blocks), final : BOOLEAN]
    \cup [op : {"release"}, req : Requests, left : Seq(Blocks)]

(* Every variable of the cache holds a value of its Go type.               *)
TypeOK ==
  /\ freeList \in Seq(Blocks)
  /\ freeBlockCnt \in Nat
  /\ refCount \in [Blocks -> Nat]
  /\ inUse \in [Blocks -> BOOLEAN]
  /\ tokens \in [Blocks -> Seq(Tokens)]
  /\ hash \in [Blocks -> Seq(Seq(Tokens))]
  /\ requestMap \in [Requests -> Seq(Blocks)]
  /\ DOMAIN hashToBlock \subseteq Seq(Seq(Tokens))
  /\ \A h \in DOMAIN hashToBlock : hashToBlock[h] \in Blocks
  /\ progress \in [Requests -> Nat]
  /\ running \subseteq Requests
  /\ call \in Calls

(* The blocks request r references, those a release still has to return    *)
(* included.                                                               *)
Held(r) ==
  RangeOf(requestMap[r])
    \cup (IF call.op = "release" /\ call.req = r THEN RangeOf(call.left) ELSE {})

Holders(b) == {r \in Requests : b \in Held(r)}

(* INV-4: the free list, the in-use flags and the free counter agree after *)
(* every iteration of every allocation and release: the list has no        *)
(* duplicates, holds exactly the blocks not in use, and the counter is its *)
(* length.                                                                 *)
Conservation ==
  /\ \A i, j \in 1 .. Len(freeList) : freeList[i] = freeList[j] => i = j
  /\ RangeOf(freeList) = {b \in Blocks : ~inUse[b]}
  /\ freeBlockCnt = Len(freeList)

(* A block's reference count is the number of requests that reference it,  *)
(* through any mix of shared prefixes, preemptions and completions; it is  *)
(* in use exactly when some request references it.                         *)
RefCountExact ==
  \A b \in Blocks :
    /\ refCount[b] = Cardinality(Holders(b))
    /\ inUse[b] <=> refCount[b] > 0

(* The panic after the pre-check ("popFreeBlock returned nil after         *)
(* pre-check passed") is unreachable: whenever the allocation loop asks    *)
(* for a block, the free list has one, although claims of cached blocks    *)
(* have shortened it since the check.                                      *)
PopNeverFails ==
  ( /\ call.op = "alloc"
    /\ call.pos < call.end
    /\ call.cached = <<>>
    /\ ~LatestIsPartial(call.req) ) => freeList # <<>>

(* The prefix index never points to a block with other content: an entry's *)
(* block carries exactly the hash it is registered under.                  *)
IndexSound ==
  \A h \in DOMAIN hashToBlock :
    /\ hash[hashToBlock[h]] = h
    /\ tokens[hashToBlock[h]] = Last(h)

(* A prefix hit is a real one: every registered hash chains the first full *)
(* blocks of some request's own token sequence, so a lookup never credits  *)
(* a request with tokens that no prompt-to-output sequence starts with.    *)
(* KVBlock.Hash is documented as "identifying this block's content and its *)
(* lineage".                                                               *)
IndexedHashesAreLineages ==
  \A h \in DOMAIN hashToBlock :
    \E r \in Requests :
      /\ Len(h) * BlockSize <= Len(Sequence(r))
      /\ h = Chain(Sequence(r), Len(h))

(* Between calls the blocks of a running request hold exactly the tokens   *)
(* it has computed, in order: a shared or recycled block never lost or     *)
(* gained a token under it.                                                *)
BlocksHoldProgress ==
  call = Idle =>
    \A r \in running :
      LET ids == requestMap[r]
      IN  /\ Len(ids) = CeilDiv(progress[r], BlockSize)
          /\ \A i \in 1 .. Len(ids) :
               tokens[ids[i]] = SubSeq(Sequence(r), (i - 1) * BlockSize + 1,
                                       Least(i * BlockSize, progress[r]))

(* A block two requests share is never written: no step changes the        *)
(* content of a block that was referenced before the step and is           *)
(* referenced by another request too.                                      *)
SharedBlocksAreReadOnly ==
  [][\A b \in Blocks : refCount[b] > 1 => tokens'[b] = tokens[b]]_vars

(* Lazy hash deletion: a stored prefix stays findable through preemption,  *)
(* completion and release.  An index entry disappears only in the step     *)
(* that hands the head of the free list, carrying that very hash, to a new *)
(* owner.                                                                  *)
OnlyRecyclingForgets ==
  [][\A h \in DOMAIN hashToBlock :
       \/ h \in DOMAIN hashToBlock'
       \/ /\ freeList # <<>>
          /\ hash[Head(freeList)] = h
          /\ freeList' = Tail(freeList)]_vars

-----------------------------------------------------------------------------
(* What the runs check. *)

(* An allocation that passed its check does not fail on the way, stores    *)
(* exactly the tokens it was asked to, and registers them under their own  *)
(* lineage (AllocateKVBlocks).                                             *)
AllocationSound ==
  /\ PopNeverFails
  /\ IndexedHashesAreLineages
  /\ BlocksHoldProgress

(* What a block holds is not lost to another request: shared blocks are not*)
(* written, and a stored prefix is forgotten only when its block is        *)
(* recycled.                                                               *)
ContentKept ==
  /\ SharedBlocksAreReadOnly
  /\ OnlyRecyclingForgets
=============================================================================
