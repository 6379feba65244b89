----------------------------- MODULE HeapChunks -----------------------------
(***************************************************************************)
(* The chunks of libbroadway/malloc.c and the bins that hold the free      *)
(* ones.  Addresses and sizes are bytes; m.mem is the heap word by word,   *)
(* m the malloc_state with it.  A linked list or a tree of chunks is kept  *)
(* as the sequence or the trie it stands for; the words its links occupy   *)
(* hold Link.  What a program left in a word it gave back is Junk.         *)
(***************************************************************************)
EXTENDS Integers, Sequences, FiniteSets, SequencesExt

CONSTANTS
    SbrkStart, SbrkEnd,   \* the memory sbrk hands out
    TreebinShift,         \* TREEBIN_SHIFT (8 in the code)
    SizeBits              \* the width of size_t (32 in the code)

ASSUME HeapAssumption ==
    /\ SbrkStart \in Nat \ {0} /\ SbrkStart % 8 = 0
    /\ SbrkEnd \in Nat /\ TreebinShift \in Nat /\ TreebinShift > 4
    /\ SizeBits \in Nat

Junk == 0
Link == -1
Overhead == 4          \* CHUNK_OVERHEAD
MinChunk == 16         \* MIN_CHUNK_SIZE
TopFoot == 40          \* TOP_FOOT_SIZE
MaxSize == 2^SizeBits - 1
MaxRequest == 2^SizeBits - 4 * MinChunk
MinLarge == 2^TreebinShift
Wrap(n) == n % 2^SizeBits
AlignDown(n) == n - (n % 8)

pad_request(bytes) == AlignDown(bytes + Overhead + 7)
request2size(bytes) == IF bytes < MinChunk - Overhead - 1 THEN MinChunk ELSE pad_request(bytes)

(* Head words, and the foot a free chunk leaves in its successor. *)
Word(m, a) == IF a \in DOMAIN m.mem THEN m.mem[a] ELSE Junk
Put(m, a, v) == IF a \in DOMAIN m.mem THEN [m EXCEPT !.mem[a] = v] ELSE m
Spread(m, from, to, v) ==      \* the words from .. to - 4
    [m EXCEPT !.mem = [a \in DOMAIN @ |-> IF from <= a /\ a < to THEN v ELSE @[a]]]
chunksize(m, p) == Word(m, p + 4) - (Word(m, p + 4) % 4)
pinuse(m, p) == Word(m, p + 4) % 2 = 1
cinuse(m, p) == Word(m, p + 4) % 4 \in {2, 3}
next_chunk(m, p) == p + chunksize(m, p)
Bit(b) == IF b THEN 1 ELSE 0
SetPinuse(m, p, b) == Put(m, p + 4, Word(m, p + 4) - Bit(pinuse(m, p)) + Bit(b))

set_inuse(m, p, s) == SetPinuse(Put(m, p + 4, s + 2 + Bit(pinuse(m, p))), p + s, TRUE)
set_inuse_and_pinuse(m, p, s) == SetPinuse(Put(m, p + 4, s + 3), p + s, TRUE)
set_size_and_pinuse_of_inuse_chunk(m, p, s) == Put(m, p + 4, s + 3)
set_size_and_pinuse_of_free_chunk(m, p, s) ==
    Put(Put(Spread(m, p + 8, p + s, Junk), p + 4, s + 1), p + s, s)
set_free_with_pinuse(m, p, s, n) == set_size_and_pinuse_of_free_chunk(SetPinuse(m, n, FALSE), p, s)

SetTop(m, p, s) ==
    Put([Spread(m, p + 8, p + s + 4, Junk) EXCEPT !.top = p, !.topsize = s], p + 4, s + 1)
init_top(m, p, s) == Put([SetTop(m, p, s) EXCEPT !.trim = m.threshold], p + s + 4, TopFoot)

-----------------------------------------------------------------------------
(* Small bins: one list for each size, newest first. *)

is_small(s) == s < MinLarge
small_index(s) == s \div 8
Smallbins == 0 .. small_index(MinLarge) - 1

insert_small_chunk(m, p, s) ==
    [Spread(m, p + 8, p + 16, Link) EXCEPT !.small[small_index(s)] = <<p>> \o @]
unlink_small_chunk(m, p, s) == [m EXCEPT !.small[small_index(s)] = Remove(@, p)]
unlink_first_small_chunk(m, i) == [m EXCEPT !.small[i] = Tail(@)]
replace_dv(m, p, s) ==
    [IF m.dvsize = 0 THEN m ELSE insert_small_chunk(m, m.dv, m.dvsize)
        EXCEPT !.dv = p, !.dvsize = s]

-----------------------------------------------------------------------------
(* Tree bins: a trie on the bits of the size below those the bin fixes.    *)
(* A node is named by the bits that lead to it and holds the ring of the   *)
(* chunks of one size, the one with a parent first, then in fd order.      *)

Treebins == 0 .. 2 * (SizeBits - TreebinShift) - 1
Log2(n) == CHOOSE k \in 0 .. SizeBits : 2^k <= n /\ n < 2^(k + 1)
compute_tree_index(s) ==
    LET x == s \div 2^TreebinShift IN
    IF x = 0 THEN 0
    ELSE 2 * Log2(x) + ((s \div 2^(Log2(x) + TreebinShift - 1)) % 2)
bit_for_tree_index(i) == (i \div 2) + TreebinShift - 2
minsize_for_tree_index(i) ==
    2^((i \div 2) + TreebinShift) + (i % 2) * 2^((i \div 2) + TreebinShift - 1)

(* The first d turns of a chunk of size s below the root of bin i. *)
SizeBit(s, k) == IF k < 0 THEN 0 ELSE (s \div 2^k) % 2
Turns(s, d) == [k \in 1 .. d |-> SizeBit(s, bit_for_tree_index(compute_tree_index(s)) + 1 - k)]
Depths == 0 .. SizeBits

Root == <<>>
Ring(m, i, path) == m.tree[i][path]
RingSize(m, i, path) == chunksize(m, Ring(m, i, path)[1])

PlaceOf(m, i, s) ==      \* the node of size s, or where it belongs
    Turns(s, CHOOSE d \in Depths :
                /\ Turns(s, d) \notin DOMAIN m.tree[i] \/ RingSize(m, i, Turns(s, d)) = s
                /\ \A k \in 0 .. d - 1 : Turns(s, k) \in DOMAIN m.tree[i] /\ RingSize(m, i, Turns(s, k)) # s)
AddAt(m, x, i, path) ==
    [m EXCEPT !.tree[i] = [q \in DOMAIN @ \union {path} |->
        IF q # path THEN @[q] ELSE IF q \in DOMAIN @ THEN <<@[q][1], x>> \o Tail(@[q]) ELSE <<x>>]]
AddTo(m, x, s, i) == AddAt(m, x, i, PlaceOf(m, i, s))
insert_large_chunk(m, x, s) == AddTo(Spread(m, x + 8, x + 32, Link), x, s, compute_tree_index(s))

(* The leaf reached from a node by going right where that is possible. *)
RightmostLeaf(t, path) ==
    CHOOSE q \in DOMAIN t :
        /\ IsPrefix(path, q) /\ q \o <<0>> \notin DOMAIN t /\ q \o <<1>> \notin DOMAIN t
        /\ \A k \in Len(path) + 1 .. Len(q) :
              q[k] = 1 \/ SubSeq(q, 1, k - 1) \o <<1>> \notin DOMAIN t

DropNode(t, path, leaf) == [q \in DOMAIN t \ {leaf} |-> IF q = path THEN t[leaf] ELSE t[q]]
DropAt(t, path, x) ==
    IF Len(t[path]) = 1 THEN DropNode(t, path, RightmostLeaf(t, path))
    ELSE [t EXCEPT ![path] = IF x = @[1] THEN <<Last(@)>> \o Front(Tail(@)) ELSE Remove(@, x)]
DropFrom(t, x) == DropAt(t, CHOOSE q \in DOMAIN t : x \in ToSet(t[q]), x)
unlink_large_chunk(m, x, s) == [m EXCEPT !.tree[compute_tree_index(s)] = DropFrom(@, x)]

insert_chunk(m, p, s) == IF is_small(s) THEN insert_small_chunk(m, p, s) ELSE insert_large_chunk(m, p, s)
unlink_chunk(m, p, s) == IF is_small(s) THEN unlink_small_chunk(m, p, s) ELSE unlink_large_chunk(m, p, s)

(* Going left where that is possible, from a node to a leaf. *)
LeftPath(t, from) ==
    {q \in DOMAIN t : IsPrefix(from, q) /\ \A k \in Len(from) + 1 .. Len(q) :
                          q[k] = 0 \/ SubSeq(q, 1, k - 1) \o <<0>> \notin DOMAIN t}
NonemptyAbove(m, i) == {j \in Treebins : j > i /\ m.tree[j] # <<>>}
Least(S) == CHOOSE n \in S : \A k \in S : n <= k
Longest(S) == CHOOSE q \in S : \A r \in S : Len(r) <= Len(q)
SmallestOf(m, S) == CHOOSE c \in S : \A d \in S : chunksize(m, c) <= chunksize(m, d)
Bases(m, i, paths) == {Ring(m, i, q)[1] : q \in paths}
LeftOfBin(m, i) == Bases(m, i, LeftPath(m.tree[i], Root))
LeftOfNext(m, above) == IF above = {} THEN {} ELSE LeftOfBin(m, Least(above))

(* tmalloc_large's search: the nodes along the bits of nb up to one that   *)
(* fits exactly, then down the left of the deepest right subtree not taken *)
(* or, when this bin has nothing, of the next bin that is not empty.       *)
Along(m, i, nb) ==
    {Turns(nb, d) : d \in {k \in Depths : \A j \in 0 .. k :
        /\ Turns(nb, j) \in DOMAIN m.tree[i]
        /\ j < k => RingSize(m, i, Turns(nb, j)) # nb}}
NotTaken(t, along) == {q \o <<1>> : q \in along} \intersect (DOMAIN t \ along)
BelowRight(t, right) == IF right = {} THEN {} ELSE LeftPath(t, Longest(right))
Fitting(m, chunks, nb) == {c \in chunks : chunksize(m, c) >= nb}
OrNext(m, i, here) == IF here = {} THEN LeftOfNext(m, NonemptyAbove(m, i)) ELSE here
(* Faulty variant: the subtrees to the right are not looked at. *)
SeenFrom_straight(m, i, nb, along) == OrNext(m, i, Fitting(m, Bases(m, i, along), nb))
SeenFrom(m, i, nb, along) ==
    OrNext(m, i, Fitting(m, Bases(m, i, along \union BelowRight(m.tree[i], NotTaken(m.tree[i], along))), nb))
SeenIn(m, i, nb) == SeenFrom(m, i, nb, Along(m, i, nb))
LargeSeen(m, nb) == SeenIn(m, compute_tree_index(nb), nb)

(* tmalloc_large leaves the request to a designated victim that fits better *)
Better(m, seen, nb) == seen # {} /\ (m.dvsize < nb \/ chunksize(m, SmallestOf(m, seen)) < m.dvsize)

=============================================================================
