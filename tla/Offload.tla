------------------------------- MODULE Offload ------------------------------
(***************************************************************************)
(* The multi-tier KV caches of one instance: the offload chain             *)
(* (sim/kv/offload_chain.go, offload_deferral.go, offload_secondary.go),   *)
(* GPU to CPU to secondary tiers with asynchronous transfers, and the      *)
(* older two-tier cache (sim/kv/tiered.go), driven by the steps of an      *)
(* instance (sim/simulator.go Step, sim/batch_formation.go).               *)
(*                                                                         *)
(* A block holds one token, so a key (a block hash) is the sequence of     *)
(* tokens up to its block, and partly filled blocks, which module KVCache  *)
(* has, do not occur.  A decode block has no hash.                         *)
(*                                                                         *)
(* One call on the cache is one step of the specification; phase says how  *)
(* far the instance's step is.  No clock is kept: module OffloadTiers says *)
(* how transfers land, and an episode may exceed maxDeferTicks at any poll.*)
(***************************************************************************)
EXTENDS OffloadTiers, FiniteSetsExt

CONSTANTS
  NumRequests,   \* requests are 1 .. NumRequests, in the order of their ID strings
  Prompt,        \* Prompt[r], the input tokens
  OutputLen,     \* OutputLen[r], the number of output tokens
  GPUBlocks,     \* blocks of the GPU tier
  NumTiers,      \* secondary tiers of the chain
  Kinds,         \* the caches to consider, of "chain", "cpu", "tiered"
  MaxNumSeqs     \* the limit on the running batch

Requests == 1 .. NumRequests

ASSUME OffloadAssumption ==
  /\ NumRequests \in Nat
  /\ \A r \in Requests : /\ Prompt[r] \in Seq(ToSet(Prompt[r])) \ {<<>>}
                         /\ OutputLen[r] \in Nat \ {0}
  /\ GPUBlocks \in Nat \ {0} /\ NumTiers \in Nat
  /\ Kinds \subseteq {"chain", "cpu", "tiered"}
  /\ MaxNumSeqs \in Nat \ {0}

VARIABLES
  kind,      \* which cache the instance has
  kv,        \* the cache, see EmptyCache
  waitQ,     \* WaitQ
  running,   \* RunningBatch.Requests
  progress,  \* Request.ProgressIndex
  sched,     \* ComputedTokens after this step, for the requests scheduled in it
  phase,     \* "between" steps, or "poll", "run", "wait", "exec" within one
  todo,      \* the running requests Phase 1 has not visited
  skipped,   \* the scan cursor of Phase 2
  halted,    \* PreemptionHappened
  future     \* the requests that have not arrived

schedVars == <<waitQ, running, progress, sched, phase, todo, skipped, halted,
               future>>
vars == <<kind, kv, schedVars>>

-----------------------------------------------------------------------------
Blocks == 1 .. GPUBlocks
Tiers == 1 .. NumTiers
NoHash == <<>>
PromptLen(r) == Len(Prompt[r])
CompletionProgress(r) == PromptLen(r) + OutputLen[r] - 1
HasStation == kind = "chain" /\ NumTiers > 0
LastOf(s) == s[Len(s)]

(* The GPU tier is free, hash, index and owned; a block is in use when it  *)
(* is not on the free list.                                                *)
EmptyCache ==
  [free |-> [i \in 1 .. GPUBlocks |-> i],        \* the GPU's free list
   hash |-> [b \in Blocks |-> NoHash],           \* KVBlock.Hash
   index |-> <<>>,                               \* HashToBlock
   owned |-> [r \in Requests |-> <<>>],          \* RequestMap
   cpu |-> NewOffloadCPUTier,
   secondary |-> [t \in Tiers |-> {}],           \* the keys each tier holds
   station |-> [t \in Tiers |-> NewTier],        \* and its transfer jobs
   deferred |-> <<>>,                            \* deferred, by request
   known |-> {},                                 \* existenceKnown
   latency |-> 0]                                \* pendingLatency, in blocks

(* GetCachedBlocks: the blocks of the longest indexed prefix.              *)
GetCachedBlocks(c, p) ==
  LET n == Max({m \in 0 .. Len(p) :
                  \A i \in 1 .. m : SubSeq(p, 1, i) \in DOMAIN c.index})
  IN  [i \in 1 .. n |-> c.index[SubSeq(p, 1, i)]]

(* Overwriting block b with the content of hash h.                         *)
Rehash(c, b, h) ==
  LET index == Drop(c.index, {c.hash[b]})
  IN  [c EXCEPT !.hash[b] = h,
                !.index = IF h = NoHash THEN index ELSE Put(index, h, b)]

(* commitCachedBlocks: the blocks leave the free list and go to r.         *)
CommitCachedBlocks(c, r, bs) ==
  [c EXCEPT !.free = FoldLeft(Without, @, bs),
            !.owned[r] = @ \o bs]

(* KVCacheState.AllocateKVBlocks: check, then claim and pop.  prefill is   *)
(* whether the request's progress is still within its prompt.              *)
GPUFits(c, r, prefill, start, end, cached) ==
  IF prefill
  THEN (end - start) + Cardinality({i \in DOMAIN cached : cached[i] \in ToSet(c.free)})
         <= Len(c.free)
  ELSE c.free # <<>>
PopBlock(c, r, prefill, token) ==
  LET b    == Head(c.free)
      prev == IF c.owned[r] = <<>> THEN NoHash ELSE c.hash[LastOf(c.owned[r])]
      h    == IF prefill THEN Append(prev, token) ELSE NoHash
  IN  [Rehash([c EXCEPT !.free = Tail(@)], b, h) EXCEPT !.owned[r] = Append(@, b)]
GPUAllocate(c, r, prefill, start, end, cached) ==
  LET first == IF c.owned[r] = <<>> /\ start < end
               THEN CommitCachedBlocks(c, r, cached) ELSE c
  IN  IF prefill
      THEN FoldLeft(LAMBDA x, token : PopBlock(x, r, TRUE, token), first,
                    SubSeq(Prompt[r], start + 1, end))
      ELSE PopBlock(first, r, FALSE, 0)

(* ReleaseKVBlocks: the blocks go back one by one, the last first.  The    *)
(* reference count of a block is the number of times it is in a list.      *)
ReleaseLast(c, r) ==
  LET b    == LastOf(c.owned[r])
      left == [c EXCEPT !.owned[r] = Front(@)]
  IN  IF \E q \in Requests : b \in ToSet(left.owned[q]) THEN left
      ELSE [left EXCEPT !.free = Append(@, b)]
ReleaseKVBlocks(c, r) == FoldLeft(LAMBDA x, b : ReleaseLast(x, r), c, c.owned[r])

-----------------------------------------------------------------------------
(* Secondary tiers: the first tier that holds a key, 0 if none does.       *)
LookupSecondary(c, k) ==
  LET holding == {t \in Tiers : k \in c.secondary[t]}
  IN  IF HasStation /\ holding # {} THEN Min(holding) ELSE 0

(* gatherSecondaryRun: from keys[i], the longest stretch that is neither   *)
(* on the GPU nor in the CPU tier and that one tier, the first for         *)
(* keys[i], is the first to hold.                                          *)
GatherSecondaryRun(c, keys, i) ==
  LET tier  == LookupSecondary(c, keys[i])
      Fits(j) == /\ keys[j] \notin DOMAIN c.index
                 /\ Lookup(c.cpu, keys[j]) = "miss"
                 /\ LookupSecondary(c, keys[j]) = tier
      last  == Max({m \in i .. Len(keys) : \A j \in i + 1 .. m : Fits(j)})
  IN  [tier |-> tier, run |-> SubSeq(keys, i, last)]

(* firePromotionRun, when the gate lets it.                                *)
FirePromotionRun(c, run, tier) ==
  [c EXCEPT !.cpu = PrepareStore(@, run),
            !.station[tier] = Submit(@, Job("read", run))]

(* DeriveChunkKeys for the blocks after the first n, chained from prev.    *)
DeriveChunkKeys(prev, p, n) ==
  [i \in 1 .. Len(p) - n |-> prev \o SubSeq(p, n + 1, n + i)]

(* consultAndReload and reloadPrefixFromCPU.  The walk over the keys skips *)
(* what is on the GPU and ends at the first key that is not readable in    *)
(* the CPU tier, or when every free block has been used once.  Each key it *)
(* reloads takes the head of the free list and goes back to its tail.      *)
Reload(c, k) ==
  LET b == Head(c.free)
  IN  [Rehash([c EXCEPT !.free = Append(Tail(@), b)], b, k)
         EXCEPT !.cpu = IF kind = "tiered" THEN TieredTouch(@, k) ELSE TouchKey(@, k),
                !.latency = IF kind = "tiered" THEN @ + 1 ELSE 0]
WalkStep(keys, s, i) ==
  IF s.end # "no" \/ keys[i] \in DOMAIN s.c.index THEN s
  ELSE IF Lookup(s.c.cpu, keys[i]) # "hit"
       THEN [s EXCEPT !.end = Lookup(s.c.cpu, keys[i]), !.at = i]
  ELSE IF s.n = Len(s.c.free) THEN [s EXCEPT !.end = "full"]
  ELSE [s EXCEPT !.c = Reload(@, keys[i]), !.n = @ + 1]
ConsultWalk(c, keys) ==
  FoldLeft(LAMBDA s, i : WalkStep(keys, s, i),
           [c |-> c, n |-> 0, end |-> "no", at |-> 0], [i \in DOMAIN keys |-> i])

(* maybePromoteFromSecondary, at the key where a walk met a miss.          *)
MaybePromote(c, keys, i) ==
  LET g == GatherSecondaryRun(c, keys, i)
  IN  IF g.tier # 0 /\ Gate(c.cpu, g.run) THEN FirePromotionRun(c, g.run, g.tier)
      ELSE c

(* The keys of the prompt's blocks behind the held or the cached ones.     *)
ChunkKeys(c, r, cached) ==
  LET owned == c.owned[r]
      n     == IF Len(owned) > Len(cached) THEN Len(owned) ELSE Len(cached)
      prev  == IF n = 0 THEN NoHash
               ELSE IF Len(owned) > Len(cached) THEN c.hash[LastOf(owned)]
               ELSE c.hash[LastOf(cached)]
  IN  IF n < PromptLen(r) THEN DeriveChunkKeys(prev, Prompt[r], n) ELSE <<>>
PromoteAtMiss(walk, keys) ==
  IF walk.end = "miss" THEN [walk EXCEPT !.c = MaybePromote(@, keys, walk.at)] ELSE walk
ConsultAndReload(c, keys) == PromoteAtMiss(ConsultWalk(c, keys), keys)

Grow(c, r, prefill, start, end, cached) ==
  IF GPUFits(c, r, prefill, start, end, cached)
  THEN [ok |-> TRUE, c |-> GPUAllocate(c, r, prefill, start, end, cached)]
  ELSE [ok |-> FALSE, c |-> c]

(* What was reloaded is committed to r, and the rest is allocated.         *)
CommitReloaded(c, r, prefill, start, end, found) ==
  LET upTo == Min({end, Len(found)})
      new  == IF c.owned[r] = <<>> THEN SubSeq(found, 1, upTo)
              ELSE SubSeq(found, start + 1, upTo)
      held == CommitCachedBlocks(c, r, new)
  IN  IF Len(found) >= end THEN [ok |-> TRUE, c |-> held]
      ELSE Grow(held, r, prefill, Len(found), end, found)
AllocateAfter(walk, r, prefill, start, end, cached) ==
  LET found == GetCachedBlocks(walk.c, Prompt[r])
  IN  IF walk.n = 0 \/ Len(found) <= start THEN Grow(walk.c, r, prefill, start, end, cached)
      ELSE CommitReloaded(walk.c, r, prefill, start, end, found)

(* allocateThroughChain, and AllocateKVBlocks of the two-tier cache, which *)
(* is the same but for the promotion.  The result has ok and the cache.    *)
AllocateThroughChain(c, r, prefill, start, end, cached) ==
  AllocateAfter(ConsultAndReload(c, ChunkKeys(c, r, cached)), r, prefill, start, end, cached)

-----------------------------------------------------------------------------
(* Deferral.  An episode waits in phase "retry" or "promoting"; "resolved" *)
(* and "recompute" are its two ends.                                       *)
Waiting(c, r) ==
  r \in DOMAIN c.deferred /\ c.deferred[r].phase \in {"retry", "promoting"}
Episode(ph, keys, tier) == [phase |-> ph, keys |-> keys, tier |-> tier]

(* classifyFetch: what a new request with n blocks on the GPU must wait    *)
(* for, <<>> if nothing.                                                   *)
ClassifyFetch(c, r, cached) ==
  LET n    == Len(cached)
      prev == IF n = 0 THEN NoHash ELSE c.hash[cached[n]]
      keys == DeriveChunkKeys(prev, Prompt[r], n)
      stop == {i \in DOMAIN keys : /\ keys[i] \notin DOMAIN c.index
                                   /\ Lookup(c.cpu, keys[i]) # "hit"}
      i    == Min(stop)
      g    == GatherSecondaryRun(c, keys, i)
  IN  IF ~HasStation \/ stop = {} THEN Episode("none", <<>>, 0)
      ELSE IF Lookup(c.cpu, keys[i]) = "pending"
           THEN Episode("promoting", <<keys[i]>>, 0)
      ELSE IF g.tier = 0 THEN Episode("none", <<>>, 0)
      ELSE Episode("retry", g.run, g.tier)

(* The promotion of an episode: submitted, or refused by the gate.         *)
Promote(c, r, e) ==
  IF Gate(c.cpu, e.keys)
  THEN [FirePromotionRun(c, e.keys, e.tier)
          EXCEPT !.deferred = Put(@, r, [e EXCEPT !.phase = "promoting"])]
  ELSE [c EXCEPT !.deferred = Put(@, r, [e EXCEPT !.phase = "recompute"])]

(* registerDeferral: a run whose existence is known is promoted at once.   *)
RegisterDeferral(c, r, e) ==
  IF e.phase = "retry" /\ ToSet(e.keys) \subseteq c.known
  THEN Promote(c, r, e)
  ELSE [c EXCEPT !.deferred = Put(@, r, e)]

AwaitedState(c, keys) ==
  LET found == {Lookup(c.cpu, k) : k \in ToSet(keys)}
  IN  IF "miss" \in found THEN "miss"
      ELSE IF "pending" \in found THEN "pending" ELSE "hit"

PollWaits(c, r, late) ==    \* mutant: a block evicted after it landed is awaited on
  LET e == c.deferred[r]
      To(ph) == [c EXCEPT !.known = @ \cup ToSet(e.keys), !.deferred[r].phase = ph]
  IN  IF ~Waiting(c, r) THEN c
      ELSE IF AwaitedState(c, e.keys) = "hit" THEN To("resolved")
      ELSE IF AwaitedState(c, e.keys) = "pending" THEN To("promoting")
      ELSE IF e.phase = "retry" THEN Promote(To("retry"), r, e)
      ELSE c

(* One episode in PollDeferred; late says that maxDeferTicks has passed.   *)
PollAwaited(c, r, e) ==
  LET seen == [c EXCEPT !.known = @ \cup ToSet(e.keys)]
      To(ph) == [(IF e.phase = "retry" THEN seen ELSE c)
                   EXCEPT !.deferred[r].phase = ph]
  IN  IF AwaitedState(c, e.keys) = "hit" THEN To("resolved")
      ELSE IF AwaitedState(c, e.keys) = "pending" THEN To("promoting")
      ELSE IF e.phase = "retry" THEN Promote(seen, r, e)
      ELSE To("recompute")
GiveUp(c, r) ==
  IF Waiting(c, r) THEN [c EXCEPT !.deferred[r].phase = "recompute"] ELSE c
PollOne(c, r, late) ==
  IF ~Waiting(c, r) THEN c
  ELSE IF late THEN GiveUp(PollAwaited(c, r, c.deferred[r]), r)
  ELSE PollAwaited(c, r, c.deferred[r])

(* PollDeferred, in the order of the IDs.                                  *)
PollAll(c, late) ==
  FoldLeft(LAMBDA x, r : PollOne(x, r, r \in late), c, [r \in Requests |-> r])

ClearDeferred(c, r) == [c EXCEPT !.deferred = Drop(@, {r})]

(* AllocateKVBlocks of the chain: a new request may be deferred instead,   *)
(* and a deferral that is over goes with the allocation.                   *)
EndDeferral(done, r) ==
  IF done.ok THEN [done EXCEPT !.c = ClearDeferred(@, r)] ELSE done
DeferOrAllocate(c, r, prefill, start, end, cached, fetch) ==
  IF fetch.phase # "none" THEN [ok |-> FALSE, c |-> RegisterDeferral(c, r, fetch)]
  ELSE AllocateThroughChain(c, r, prefill, start, end, cached)
AllocateKVBlocks(c, r, prefill, start, end, cached) ==
  IF kind = "tiered" \/ c.owned[r] # <<>>
  THEN AllocateThroughChain(c, r, prefill, start, end, cached)
  ELSE IF Waiting(c, r) THEN [ok |-> FALSE, c |-> c]
  ELSE IF r \in DOMAIN c.deferred
  THEN EndDeferral(AllocateThroughChain(c, r, prefill, start, end, cached), r)
  ELSE DeferOrAllocate(c, r, prefill, start, end, cached, ClassifyFetch(c, r, cached))

(* ReloadablePrefixEnd: how far the prompt is cached or readable in the    *)
(* CPU tier, from the end of its cached prefix.                            *)
ReloadablePrefixEnd(c, r, cached) ==
  LET n    == Len(cached)
      prev == IF n = 0 THEN NoHash ELSE c.hash[cached[n]]
      keys == DeriveChunkKeys(prev, Prompt[r], n)
  IN  IF c.owned[r] # <<>> THEN n
      ELSE n + Max({m \in 0 .. Len(keys) :
                      \A i \in 1 .. m : \/ keys[i] \in DOMAIN c.index
                                        \/ Lookup(c.cpu, keys[i]) = "hit"})

(* MirrorToCPU for one block of the batch, and the write-through of a      *)
(* block that is new in the CPU tier to every secondary tier.              *)
CascadeUnpinned(c, k) ==    \* mutant: the block is written out without a pin
  FoldLeft(LAMBDA x, t : [x EXCEPT !.station[t] = Submit(@, Job("write", <<k>>))],
           c, IF HasStation THEN [t \in Tiers |-> t] ELSE <<>>)
Cascade(c, k) ==
  FoldLeft(LAMBDA x, t : [x EXCEPT !.cpu = Pin(@, k),
                                   !.station[t] = Submit(@, Job("write", <<k>>))],
           c, IF HasStation THEN [t \in Tiers |-> t] ELSE <<>>)
MirrorInPlace(c, k) ==    \* mutant: a block stored in place of another is not written out
  IF k = NoHash \/ kind = "tiered" THEN c
  ELSE IF Lookup(c.cpu, k) # "miss" THEN [c EXCEPT !.cpu = TouchKey(@, k)]
  ELSE IF c.cpu.used = CPUCapacity THEN [c EXCEPT !.cpu = Store(@, k)]
  ELSE Cascade([c EXCEPT !.cpu = Store(@, k)], k)
MirrorKey(c, k) ==
  IF k = NoHash THEN c
  ELSE IF kind = "tiered"
       THEN [c EXCEPT !.cpu = IF Lookup(@, k) = "hit" THEN TieredTouch(@, k)
                              ELSE TieredStore(@, k)]
  ELSE IF Lookup(c.cpu, k) # "miss" THEN [c EXCEPT !.cpu = TouchKey(@, k)]
  ELSE IF ~CanStore(c.cpu) THEN c
  ELSE Cascade([c EXCEPT !.cpu = Store(@, k)], k)
MirrorRequest(c, r) ==
  FoldLeft(LAMBDA x, b : MirrorKey(x, x.hash[b]), c,
           SubSeq(c.owned[r], 1, Min({PromptLen(r), Len(c.owned[r])})))
MirrorToCPU(c, batch) == FoldLeft(MirrorRequest, c, batch)

-----------------------------------------------------------------------------
Init ==
  /\ kind \in Kinds
  /\ kv = EmptyCache
  /\ waitQ = <<>> /\ running = <<>>
  /\ progress = [r \in Requests |-> 0]
  /\ sched = [r \in Requests |-> 0]
  /\ phase = "between" /\ todo = <<>> /\ skipped = 0 /\ halted = FALSE
  /\ future = Requests

(* The next request arrives; IDs are numbered by arrival.                  *)
Arrive(r) ==
  /\ phase = "between"
  /\ r \in future /\ \A q \in future : r <= q
  /\ future' = future \ {r}
  /\ waitQ' = Append(waitQ, r)
  /\ UNCHANGED <<kind, kv, running, progress, sched, phase, todo, skipped, halted>>

(* TimeoutEvent or EvictRequest, for a queued or a running request.        *)
Withdraw(r) ==
  /\ phase = "between"
  /\ r \in ToSet(waitQ) \cup ToSet(running)
  /\ kv' = ClearDeferred(ReleaseKVBlocks(kv, r), r)
  /\ waitQ' = Without(waitQ, r)
  /\ running' = Without(running, r)
  /\ progress' = [progress EXCEPT ![r] = 0]
  /\ UNCHANGED <<kind, sched, phase, todo, skipped, halted, future>>

(* A step begins: SetClock polls the station, which returns the jobs that  *)
(* have landed one by one.                                                 *)
BeginStep ==
  /\ phase = "between"
  /\ waitQ # <<>> \/ running # <<>>
  /\ phase' = "poll"
  /\ UNCHANGED <<kind, kv, waitQ, running, progress, sched, todo, skipped, halted, future>>

TransferLands(t, i) ==
  /\ phase = "poll"
  /\ HasStation
  /\ i \in DOMAIN kv.station[t].active
  /\ LET j == kv.station[t].active[i]
         c == [kv EXCEPT !.station[t] = Land(@, i)]
     IN  kv' = IF j.dir = "read"
               THEN [c EXCEPT !.cpu = FoldLeft(CompleteStore, @, j.keys)]
               ELSE [c EXCEPT !.cpu = FoldLeft(Unpin, @, j.keys),
                              !.secondary[t] = @ \cup ToSet(j.keys)]
  /\ UNCHANGED <<kind, schedVars>>

StartBatch ==
  /\ phase = "poll"
  /\ phase' = "run"
  /\ todo' = running
  /\ halted' = FALSE
  /\ UNCHANGED <<kind, kv, waitQ, running, progress, sched, skipped, future>>

(* Phase 1, one attempt at a running request: a chunk of its prompt or one *)
(* token.  When the cache has no room the last running request is          *)
(* preempted and goes to the front of the queue.                           *)
ContinueNext ==
  /\ phase = "run"
  /\ todo # <<>>
  /\ LET r == Head(todo)
     IN \E end \in IF progress[r] < PromptLen(r)
                   THEN {progress[r] + 1, PromptLen(r)} ELSE {progress[r] + 1} :
         \E done \in {AllocateKVBlocks(kv, r, progress[r] < PromptLen(r), progress[r], end, <<>>)} :
          LET victim == LastOf(running)
          IN  IF done.ok
              THEN /\ kv' = done.c
                   /\ sched' = [sched EXCEPT ![r] = end]
                   /\ todo' = Tail(todo)
                   /\ UNCHANGED <<waitQ, running, progress, halted>>
              ELSE /\ kv' = ReleaseKVBlocks(done.c, victim)
                   /\ running' = Front(running)
                   /\ waitQ' = <<victim>> \o waitQ
                   /\ progress' = [progress EXCEPT ![victim] = 0]
                   /\ todo' = IF victim = r THEN <<>> ELSE Without(todo, victim)
                   /\ halted' = TRUE
                   /\ UNCHANGED sched
  /\ UNCHANGED <<kind, phase, skipped, future>>

(* PollDeferred runs between the two phases.                               *)
PollDeferred ==
  /\ phase = "run"
  /\ todo = <<>>
  /\ \E late \in {{}} \cup {{r} : r \in DOMAIN kv.deferred} :
       kv' = PollAll(kv, late)
  /\ phase' = "wait"
  /\ skipped' = 0
  /\ UNCHANGED <<kind, waitQ, running, progress, sched, todo, halted, future>>

CanAdmit ==
  ~halted /\ Len(running) < MaxNumSeqs /\ skipped < Len(waitQ)

(* Phase 2, one request: skipped if it is deferred or becomes so, admitted *)
(* if its first chunk fits, otherwise the scan ends.                       *)
AdmitNext ==
  /\ phase = "wait"
  /\ CanAdmit
  /\ LET r      == waitQ[skipped + 1]
         cached == GetCachedBlocks(kv, Prompt[r])
         from   == ReloadablePrefixEnd(kv, r, cached)
     IN \E end \in IF from < PromptLen(r) THEN {from + 1, PromptLen(r)} ELSE {from} :
         \E done \in {AllocateKVBlocks(kv, r, TRUE, Len(cached), end, cached)} :
              IF Waiting(kv, r)
              THEN /\ skipped' = skipped + 1
                   /\ UNCHANGED <<kv, waitQ, running, sched, phase>>
              ELSE /\ kv' = done.c
                   /\ IF done.ok
                      THEN /\ waitQ' = Without(waitQ, r)
                           /\ running' = Append(running, r)
                           /\ sched' = [sched EXCEPT ![r] = end]
                           /\ UNCHANGED <<skipped, phase>>
                      ELSE /\ IF Waiting(done.c, r)
                              THEN skipped' = skipped + 1 /\ UNCHANGED phase
                              ELSE phase' = "exec" /\ UNCHANGED skipped
                           /\ UNCHANGED <<waitQ, running, sched>>
  /\ UNCHANGED <<kind, progress, todo, halted, future>>

EndScan ==
  /\ phase = "wait"
  /\ ~CanAdmit
  /\ phase' = "exec"
  /\ UNCHANGED <<kind, kv, waitQ, running, progress, sched, todo, skipped, halted, future>>

(* processCompletions stores the last output token if it can.              *)
StoreLastToken(c, r, at) ==
  AllocateKVBlocks(c, r, FALSE, at, at + 1, <<>>).c

(* The rest of Step: execution moves the scheduled requests on and charges *)
(* the reloads of the two-tier cache, MirrorToCPU runs before completions, *)
(* and a completed request stores its last token if that fits and leaves.  *)
CompleteRequest(at, x, r) ==
  IF at[r] >= CompletionProgress(r)
  THEN [x EXCEPT !.kv = ReleaseKVBlocks(StoreLastToken(@, r, at[r]), r)]
  ELSE [x EXCEPT !.remaining = Append(@, r)]
Completions(at, c, batch) ==
  FoldLeft(LAMBDA x, r : CompleteRequest(at, x, r), [kv |-> c, remaining |-> <<>>], batch)
EndStep ==
  /\ phase = "exec"
  /\ LET at  == [r \in Requests |-> IF sched[r] > 0 /\ r \in ToSet(running)
                                    THEN sched[r] ELSE progress[r]]
         end == Completions(at, [MirrorToCPU(kv, running) EXCEPT !.latency = 0], running)
     IN  /\ progress' = [r \in Requests |->
                           IF r \in ToSet(running) \ ToSet(end.remaining) THEN 0 ELSE at[r]]
         /\ running' = end.remaining
         /\ kv' = end.kv
  /\ sched' = [r \in Requests |-> 0]
  /\ phase' = "between" /\ skipped' = 0 /\ halted' = FALSE
  /\ UNCHANGED <<kind, waitQ, todo, future>>

StepNext ==
  \/ BeginStep \/ StartBatch \/ ContinueNext \/ PollDeferred
  \/ AdmitNext \/ EndScan \/ EndStep

Next ==
  \/ \E r \in Requests : Arrive(r) \/ Withdraw(r)
  \/ StepNext
  \/ \E t \in Tiers : \E i \in DOMAIN kv.station[t].active : TransferLands(t, i)

NoWork == phase = "between" /\ waitQ = <<>> /\ running = <<>>
StepMoves ==
  \/ phase' # phase \/ todo' # todo \/ skipped' # skipped
  \/ sched' # sched \/ halted' # halted

(* The pending step of an instance that has work is always executed: weak  *)
(* fairness of StepNext, spelt out with its enabling condition and with    *)
(* what only a step changes.  A transfer's service time is finite: the     *)
(* oldest job in service of a tier lands at some poll.                     *)
Fairness ==
  /\ []<>NoWork \/ []<><<StepMoves>>_vars
  /\ \A t \in Tiers : SF_vars(TransferLands(t, 1))

Spec == Init /\ [][Next]_vars /\ Fairness
-----------------------------------------------------------------------------
Deferred == {r \in ToSet(waitQ) : Waiting(kv, r)}
WritesOf(c, k) == UNION {{t} \X Covers(c.station[t], "write", k) : t \in Tiers}

(* Every variable holds a value of its Go type.                            *)
TypeOK ==
  /\ kind \in Kinds
  /\ ToSet(kv.free) \subseteq Blocks
  /\ \A r \in Requests : ToSet(kv.owned[r]) \subseteq Blocks
  /\ ToSet(waitQ) \cup ToSet(running) \subseteq Requests \ future
  /\ DOMAIN kv.deferred \subseteq Requests
  /\ phase \in {"between", "poll", "run", "wait", "exec"}
  /\ skipped \in 0 .. NumRequests

(* INV-4 with reloads: whatever mix of reloads, commits, preemptions and   *)
(* releases, each GPU block is on the free list once or held by a request  *)
(* that is queued or running, and an index entry names a block that        *)
(* carries its hash.                                                       *)
GPUConserved ==
  /\ IsInjective(kv.free)
  /\ ToSet(kv.free) = Blocks \ UNION {ToSet(kv.owned[r]) : r \in Requests}
  /\ \A h \in DOMAIN kv.index : kv.hash[kv.index[h]] = h
  /\ \A r \in Requests :
       kv.owned[r] # <<>> => r \in ToSet(waitQ) \cup ToSet(running)

(* The O(1) counters the gate of prepareStore reads agree with the CPU     *)
(* tier: never over capacity, and the LRU list holds exactly the blocks    *)
(* that are ready and not pinned.                                          *)
CPUTierExact ==
  LET c == kv.cpu
  IN  /\ c.used = Cardinality(DOMAIN c.ref) /\ c.used <= CPUCapacity
      /\ c.evictable = Len(c.lru) /\ IsInjective(c.lru)
      /\ ToSet(c.lru) = {k \in DOMAIN c.ref : c.ref[k] = 0}

(* BC-C3: a block of the CPU tier is pinned once for every write job that  *)
(* still reads it, and a slot that is not ready is being read into by a    *)
(* job in flight: no pin and no slot outlives its transfers.               *)
PinsAreTransfers ==
  \A k \in DOMAIN kv.cpu.ref :
    IF kv.cpu.ref[k] = -1
    THEN \E t \in Tiers : Covers(kv.station[t], "read", k) # {}
    ELSE kv.cpu.ref[k] = Cardinality(WritesOf(kv, k))

(* BC-C7a: offloading never loses a block.  What the CPU tier or any       *)
(* secondary tier has, every secondary tier holds or is being sent, even   *)
(* when the CPU tier evicts it the moment its last write lands.            *)
WriteThrough ==
  HasStation =>
    \A k \in DOMAIN kv.cpu.ref \cup UNION {kv.secondary[t] : t \in Tiers} :
      \A t \in Tiers : k \in kv.secondary[t] \/ Covers(kv.station[t], "write", k) # {}

(* BC-S2: the station is work conserving.  No server is lost or shared,    *)
(* and none is idle while either queue of its tier has a job.              *)
StationWorkConserving ==
  \A t \in Tiers :
    LET s == kv.station[t]
    IN  /\ s.freeRead + s.freeWrite + Len(s.active) = NRead + NWrite
        /\ s.freeRead >= 0 /\ s.freeWrite >= 0
        /\ s.readQ \o s.writeQ # <<>> => s.freeRead + s.freeWrite = 0

(* "A CPU->GPU reload happened: recompute the GPU-cached prefix (now       *)
(* longer)": what a request holds of its prompt is its prompt.  The blocks *)
(* of the prefix it was matched with are on the free list while the reload *)
(* refills that list from its head.                                        *)
MatchedPrefixKept ==
  \A r \in Requests : \A i \in DOMAIN kv.owned[r] :
    i <= PromptLen(r) => kv.hash[kv.owned[r][i]] \in {NoHash, SubSeq(Prompt[r], 1, i)}

(* Deferred requests do not hold up the rest: a batch that nobody was      *)
(* preempted from stays empty only while every request in the queue has,   *)
(* or had at this step's poll, a deferral of its own.                      *)
NobodyHeldUp ==
  phase = "exec" /\ running = <<>> /\ ~halted /\ waitQ # <<>>
    => \A r \in ToSet(waitQ) : r \in DOMAIN kv.deferred

(* BC-T3: a deferred request is not deferred forever.  Its episode ends in *)
(* blocks that landed or in recomputation, whoever owns the promotion it   *)
(* waits for and whatever is withdrawn meanwhile.                          *)
DeferralEnds == \A r \in Requests : r \in Deferred ~> r \notin Deferred

-----------------------------------------------------------------------------
(* What the runs check. *)

(* GPU blocks, CPU slots, pins and transfer servers are accounted for: each*)
(* is free or held by exactly what uses it, in every tier.                 *)
TiersExact ==
  /\ TypeOK
  /\ GPUConserved
  /\ CPUTierExact
  /\ PinsAreTransfers
  /\ StationWorkConserving

(* A deferral holds up nobody else and comes to an end.                    *)
DeferralsSound ==
  /\ []NobodyHeldUp
  /\ DeferralEnds
=============================================================================
