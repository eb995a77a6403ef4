---------------------------- MODULE PrefixIndex ----------------------------
(* The approximate prefix index of the prefix-affinity scorer                *)
(* (sim/prefix_cache_index.go): one LRU of block hashes per instance, kept   *)
(* as a lookup table and a doubly linked list, most recently used at head.   *)
(* A block hash stands for the block and everything before it, so it is      *)
(* modelled by the sequence of blocks it covers.                             *)
EXTENDS Integers, Sequences, FiniteSets

CONSTANTS
    Hashes,          \* every block hash a prompt of the model can have
    LRUCapacity      \* defaultLRUCapacity

ASSUME IndexAssumption == /\ LRUCapacity \in Nat \ {0} /\ IsFiniteSet(Hashes)
                          /\ \A h \in Hashes : Len(h) > 0

Nil == <<>>

\* The elements of a sequence, and the sequence of those that are in S.
Elems(s) == {s[n] : n \in 1 .. Len(s)}
Only(s, S) ==
    LET upTo[n \in 0 .. Len(s)] ==
            IF n = 0 THEN <<>>
            ELSE IF s[n] \in S THEN Append(upTo[n - 1], s[n]) ELSE upTo[n - 1]
    IN upTo[Len(s)]

\* The sum of a sequence of numbers.
Total(s) == LET upTo[n \in 0 .. Len(s)] == IF n = 0 THEN 0 ELSE upTo[n - 1] + s[n]
            IN upTo[Len(s)]

\* ComputeBlockHashes: the hash of a block chains the hash of the block before it.
ComputeBlockHashes(prompt) == [n \in 1 .. Len(prompt) |-> SubSeq(prompt, 1, n)]

EmptyIndex == [lookup |-> {}, head |-> Nil, tail |-> Nil,
               prev |-> [h \in Hashes |-> Nil], next |-> [h \in Hashes |-> Nil]]

pushHead(c, h) ==
    [c EXCEPT !.prev = [x \in Hashes |-> IF x = h THEN Nil
                                         ELSE IF x = c.head THEN h ELSE @[x]],
              !.next[h] = c.head,
              !.head = h,
              !.tail = IF @ = Nil THEN h ELSE @]

\* Mutant: the node after the removed one keeps its back pointer, and removing the
\* last node leaves tail on it.
removeNodeForward(c, h) ==
    [c EXCEPT !.head = IF c.prev[h] = Nil THEN c.next[h] ELSE @,
              !.next = [x \in Hashes |-> IF x = h THEN Nil
                                         ELSE IF x = c.prev[h] THEN c.next[h] ELSE @[x]]]

removeNode(c, h) ==
    LET before == c.prev[h]
        after == c.next[h]
    IN [c EXCEPT !.head = IF before = Nil THEN after ELSE @,
                 !.tail = IF after = Nil THEN before ELSE @,
                 !.next = [x \in Hashes |-> IF x = h THEN Nil
                                            ELSE IF x = before THEN after ELSE @[x]],
                 !.prev = [x \in Hashes |-> IF x = h THEN Nil
                                            ELSE IF x = after THEN before ELSE @[x]]]

\* A tail of Nil with a full table is the panic of INV-18; MCRouter would stop on it.
evictOldest(c) == removeNode([c EXCEPT !.lookup = @ \ {c.tail}], c.tail)

touch(c, h) ==
    IF h \in c.lookup
    THEN pushHead(removeNode(c, h), h)
    ELSE LET room == IF Cardinality(c.lookup) >= LRUCapacity THEN evictOldest(c) ELSE c
         IN pushHead([room EXCEPT !.lookup = @ \cup {h}], h)

RecordBlocks(c, hashes) ==
    LET upTo[n \in 0 .. Len(hashes)] == IF n = 0 THEN c ELSE touch(upTo[n - 1], hashes[n])
    IN upTo[Len(hashes)]

\* Blocks matched consecutively from the first one.
MatchLength(hashes, held) ==
    CHOOSE n \in 0 .. Len(hashes) :
        /\ \A k \in 1 .. n : hashes[k] \in held
        /\ n = Len(hashes) \/ hashes[n + 1] \notin held

\* The list from head along next: what the pointers really hold.
Walk(c) ==
    LET from[n \in 0 .. Cardinality(Hashes)] ==
            IF n = 0 THEN c.head
            ELSE IF from[n - 1] = Nil THEN Nil ELSE c.next[from[n - 1]]
    IN Only([n \in 1 .. Cardinality(Hashes) + 1 |-> from[n - 1]], Hashes)
=============================================================================
