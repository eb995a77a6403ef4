---------------------------- MODULE OffloadTiers ----------------------------
(***************************************************************************)
(* The data structures under the offloading KV cache, as operators on      *)
(* records: the CPU tier (sim/kv/offload_cputier.go), the CPU tier of the  *)
(* older two-tier cache (sim/kv/tiered.go), and one tier of the transfer   *)
(* station (sim/kvtransfer/station.go).                                    *)
(*                                                                         *)
(* The station is modelled without its clock.  A job that is in service    *)
(* lands at some later poll: its service time depends on its size, on the  *)
(* jobs in service beside it and on a random jitter, so jobs in service    *)
(* land in any order.                                                      *)
(***************************************************************************)
EXTENDS Integers, Sequences, FiniteSets, SequencesExt

CONSTANTS
  CPUCapacity,   \* blocks of the CPU tier
  NRead, NWrite  \* read- and write-priority servers of a secondary tier

ASSUME TierAssumption ==
  /\ CPUCapacity \in Nat \ {0}
  /\ NRead \in Nat /\ NWrite \in Nat /\ NRead + NWrite > 0

-----------------------------------------------------------------------------
(* The CPU tier.  ref is refCnt by key: -1 for a slot a promotion is being *)
(* read into, 0 for a block nobody writes out, n for a block n write jobs  *)
(* read from.  lru lists the evictable blocks, the oldest first.           *)
NewOffloadCPUTier == [ref |-> <<>>, lru |-> <<>>, used |-> 0, evictable |-> 0]

Lookup(t, k) ==
  IF k \notin DOMAIN t.ref THEN "miss"
  ELSE IF t.ref[k] = -1 THEN "pending" ELSE "hit"

Put(f, k, v) == [x \in DOMAIN f \cup {k} |-> IF x = k THEN v ELSE f[x]]
Drop(f, K) == [x \in DOMAIN f \ K |-> f[x]]
Without(s, x) == RemoveFirst(s, x)

(* evict(n): up to n blocks, from the head of the list.                    *)
Evict(t, n) ==
  LET cnt == IF n < Len(t.lru) THEN n ELSE Len(t.lru)
  IN  [ref |-> Drop(t.ref, ToSet(SubSeq(t.lru, 1, cnt))),
       lru |-> SubSeq(t.lru, cnt + 1, Len(t.lru)),
       used |-> t.used - cnt, evictable |-> t.evictable - cnt]

TouchKey(t, k) ==
  IF k \in DOMAIN t.ref /\ t.ref[k] = 0
  THEN [t EXCEPT !.lru = Append(Without(@, k), k)]
  ELSE t

(* store of a key that is absent: the tier it leaves, the same one if it   *)
(* is full and nothing can be evicted.                                     *)
CanStore(t) == t.used < CPUCapacity \/ t.lru # <<>>
Store(t, k) ==
  LET room == IF t.used >= CPUCapacity THEN Evict(t, 1) ELSE t
  IN  IF ~CanStore(t) THEN t
      ELSE [ref |-> Put(room.ref, k, 0), lru |-> Append(room.lru, k),
            used |-> room.used + 1, evictable |-> room.evictable + 1]

(* prepareStore: not-ready slots for the keys that are absent, all of them *)
(* or none.  The gate counts what can be evicted beside what is free.      *)
Fresh(t, keys) == {i \in DOMAIN keys : keys[i] \notin DOMAIN t.ref}
Gate(t, keys) ==
  Cardinality(Fresh(t, keys)) \in 1 .. (CPUCapacity - t.used) + t.evictable
PrepareStore(t, keys) ==
  LET fresh == Fresh(t, keys)
      over  == Cardinality(fresh) - (CPUCapacity - t.used)
      room  == IF over > 0 THEN Evict(t, over) ELSE t
  IN  [room EXCEPT !.ref = [x \in DOMAIN @ \cup {keys[i] : i \in fresh} |->
                              IF x \in DOMAIN @ THEN @[x] ELSE -1],
                   !.used = @ + Cardinality(fresh)]

(* A block that nobody reads any more goes to the end of the list.         *)
Idle(t, k) ==
  [ref |-> [t.ref EXCEPT ![k] = 0], lru |-> Append(t.lru, k),
   used |-> t.used, evictable |-> t.evictable + 1]
Recount(t, k, n) ==
  [ref |-> [t.ref EXCEPT ![k] = n], lru |-> t.lru,
   used |-> t.used, evictable |-> t.evictable]

(* completeStore(k, true), for every key of a job.                         *)
CompleteStore(t, k) ==
  IF k \in DOMAIN t.ref /\ t.ref[k] = -1 THEN Idle(t, k) ELSE t

Pin(t, k) ==
  IF k \notin DOMAIN t.ref \/ t.ref[k] < 0 THEN t
  ELSE IF t.ref[k] > 0 THEN Recount(t, k, t.ref[k] + 1)
  ELSE [ref |-> [t.ref EXCEPT ![k] = 1], lru |-> Without(t.lru, k),
        used |-> t.used, evictable |-> t.evictable - 1]

Unpin(t, k) ==
  IF k \notin DOMAIN t.ref \/ t.ref[k] <= 0 THEN t
  ELSE IF t.ref[k] > 1 THEN Recount(t, k, t.ref[k] - 1)
  ELSE Idle(t, k)

(* The CPU tier of the two-tier cache: every block is evictable, store     *)
(* makes room by evictHead, touch moves a block to the tail.  It is the    *)
(* same record with every reference count 0.                               *)
EvictHead(t) == IF t.lru = <<>> THEN t ELSE Evict(t, 1)
TieredStore(t, k) ==
  LET room == IF t.used >= CPUCapacity THEN EvictHead(t) ELSE t
  IN  IF k \in DOMAIN t.ref THEN t
      ELSE [ref |-> Put(room.ref, k, 0), lru |-> Append(room.lru, k),
            used |-> room.used + 1, evictable |-> room.evictable + 1]
TieredTouch(t, k) ==
  IF k \in DOMAIN t.ref
  THEN [t EXCEPT !.lru = Append(Without(@, k), k)]
  ELSE t

-----------------------------------------------------------------------------
(* One tier of the station.  A job is [dir, keys, server]; active lists    *)
(* the jobs in service in the order they started.                          *)
NewTier ==
  [readQ |-> <<>>, writeQ |-> <<>>, active |-> <<>>,
   freeRead |-> NRead, freeWrite |-> NWrite]

Job(dir, keys) == [dir |-> dir, keys |-> keys, server |-> "none"]

(* assign, one iteration: an idle server takes the head of the queue of    *)
(* its own direction, or of the other one when that is empty.              *)
AssignRead(s) ==
  IF s.readQ # <<>>
  THEN [s EXCEPT !.readQ = Tail(@), !.freeRead = @ - 1,
                 !.active = Append(@, [Head(s.readQ) EXCEPT !.server = "read"])]
  ELSE [s EXCEPT !.writeQ = Tail(@), !.freeRead = @ - 1,
                 !.active = Append(@, [Head(s.writeQ) EXCEPT !.server = "read"])]
AssignWrite(s) ==
  IF s.writeQ # <<>>
  THEN [s EXCEPT !.writeQ = Tail(@), !.freeWrite = @ - 1,
                 !.active = Append(@, [Head(s.writeQ) EXCEPT !.server = "write"])]
  ELSE [s EXCEPT !.readQ = Tail(@), !.freeWrite = @ - 1,
                 !.active = Append(@, [Head(s.readQ) EXCEPT !.server = "write"])]

AssignNext(s) ==
  IF s.readQ = <<>> /\ s.writeQ = <<>> THEN s
  ELSE IF s.freeRead > 0 THEN AssignRead(s)
  ELSE IF s.freeWrite > 0 THEN AssignWrite(s) ELSE s

(* assign: no more than all the servers can be idle.                       *)
Assign(s) ==
  FoldLeft(LAMBDA p, n : AssignNext(p), s, [n \in 1 .. NRead + NWrite |-> n])

(* Submit; MaxQueueDepth is 0, so no job is rejected.                      *)
Submit(s, j) ==
  Assign(IF j.dir = "read" THEN [s EXCEPT !.readQ = Append(@, j)]
                           ELSE [s EXCEPT !.writeQ = Append(@, j)])

(* advance, one completion: the i-th job in service lands, its server is   *)
(* free and takes the next job.                                            *)
Land(s, i) ==
  LET j == s.active[i]
      t == [s EXCEPT !.active = RemoveAt(@, i)]
  IN  Assign(IF j.server = "read" THEN [t EXCEPT !.freeRead = @ + 1]
                                  ELSE [t EXCEPT !.freeWrite = @ + 1])

InFlight(s) == s.readQ \o s.writeQ \o s.active

(* The jobs of one direction, by position, that move key k.                *)
Covers(s, dir, k) ==
  {i \in DOMAIN InFlight(s) : /\ InFlight(s)[i].dir = dir
                              /\ k \in ToSet(InFlight(s)[i].keys)}
=============================================================================
