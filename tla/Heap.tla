-------------------------------- MODULE Heap --------------------------------
(***************************************************************************)
(* The allocator of the PowerPC programs, libbroadway/malloc.c (dlmalloc   *)
(* 2.8.3 as configured there: no mmap, no locks, no footers, granularity   *)
(* 8), over the sbrk of the same file, and a program that calls it and     *)
(* writes every byte it was given.  The code asserts its own state when    *)
(* DEBUG is set, which it is; HeapSound is that state.                     *)
(*                                                                         *)
(* The program stops before sbrk runs out of memory: sbrk then answers 0,  *)
(* which malloc does not take for a failure (it looks for -1).             *)
(***************************************************************************)
EXTENDS HeapChunks

CONSTANTS
    TrimThreshold,   \* DEFAULT_TRIM_THRESHOLD
    Handles,         \* the pointers of the program, positive numbers
    Callers          \* what programs do: {[calls, steps]}

VARIABLES
    heap,    \* the malloc_state and its memory
    live,    \* [Handles -> the block, or NoBlock]
    caller,  \* the program that runs
    made     \* the calls it made: caller.steps bounds them

heapVars == <<heap, live, caller, made>>

NoBlock == [at |-> 0, bytes |-> 0]
Null == 0
Words == {SbrkStart + 4 * k : k \in 0 .. (SbrkEnd - SbrkStart) \div 4}

Fresh ==
    [mem |-> [a \in Words |-> Junk], small |-> [i \in Smallbins |-> <<>>],
     tree |-> [i \in Treebins |-> <<>>], dv |-> 0, dvsize |-> 0, top |-> 0, topsize |-> 0,
     base |-> 0, size |-> 0, trim |-> 0, footprint |-> 0, brk |-> SbrkStart,
     contiguous |-> TRUE, threshold |-> TrimThreshold, granularity |-> 8, exhausted |-> FALSE]

-----------------------------------------------------------------------------
(* Memory from sbrk. *)

granularity_align(m, s) == LET t == Wrap(s + m.granularity) IN t - (t % m.granularity)
sbrk(m, incr) ==
    IF m.brk + incr > SbrkEnd THEN [m EXCEPT !.exhausted = TRUE] ELSE [m EXCEPT !.brk = @ + incr]

Inused(m, p, nb) == [m |-> set_size_and_pinuse_of_inuse_chunk(m, p, nb), p |-> p]
SplitTop(m, p, nb) ==
    Inused(Put([m EXCEPT !.top = p + nb, !.topsize = @ - nb], p + nb + 4, m.topsize - nb + 1), p, nb)
Nothing(m) == [m |-> m, p |-> 0]

(* What sys_alloc asks sbrk for: more of the segment or, after a request   *)
(* that was too large as a signed number, a region of its own, which       *)
(* follows the segment all the same.                                       *)
Missing(m, nb) == granularity_align(m, nb - m.topsize + TopFoot + 1)
Apart(m, nb) == granularity_align(m, nb + TopFoot + 1)
Signed(n) == n < 2^(SizeBits - 1)
FromNew(m, nb) == IF nb < m.topsize THEN SplitTop(m, m.top, nb) ELSE Nothing(m)
Extend(m, asize, nb) ==
    FromNew(IF m.top = 0
            THEN init_top([sbrk(m, asize) EXCEPT !.base = m.brk, !.size = asize, !.footprint = asize],
                          m.brk, asize - TopFoot)
            ELSE init_top([sbrk(m, asize) EXCEPT !.size = @ + asize, !.footprint = @ + asize],
                          m.top, m.topsize + asize), nb)
Elsewhere(m, asize, nb) == IF Signed(asize) /\ asize > Wrap(nb + TopFoot) THEN Extend(m, asize, nb) ELSE Nothing(m)
sys_alloc(m, nb) ==
    IF m.contiguous /\ Signed(IF m.top = 0 THEN Apart(m, nb) ELSE Missing(m, nb))
    THEN Extend(m, IF m.top = 0 THEN Apart(m, nb) ELSE Missing(m, nb), nb)
    ELSE Elsewhere([m EXCEPT !.contiguous = FALSE], Apart(m, nb), nb)

(* sbrk gives nothing back, so trimming only switches itself off. *)
sys_trim(m, pad) == IF pad < MaxRequest /\ m.top # 0 THEN [m EXCEPT !.trim = MaxSize] ELSE m

-----------------------------------------------------------------------------
(* dlmalloc: the chunk p (0: none) and the state it leaves. *)

SmallFit(m, nb) == {i \in {small_index(nb), small_index(nb) + 1} \intersect Smallbins : m.small[i] # <<>>}
SmallAbove(m, nb) == {i \in Smallbins : i > small_index(nb) /\ m.small[i] # <<>>}

TakeSmall(m, i) ==
    [m |-> set_inuse_and_pinuse(unlink_first_small_chunk(m, i), m.small[i][1], i * 8), p |-> m.small[i][1]]

(* What is left of a chunk becomes dv, takes the place of dv or goes into a bin. *)
KeepRest(m, r, s, keep) ==
    CASE keep = "dv" -> [m EXCEPT !.dv = r, !.dvsize = s]
      [] keep = "replace" -> replace_dv(m, r, s)
      [] keep = "bin" -> insert_chunk(m, r, s)
(* The chunk p of s bytes, out of its bin, gives nb. *)
SplitChunk(m, p, s, nb, keep) ==
    IF s - nb < MinChunk THEN [m |-> set_inuse_and_pinuse(m, p, s), p |-> p]
    ELSE Inused(KeepRest(set_size_and_pinuse_of_free_chunk(m, p + nb, s - nb), p + nb, s - nb, keep), p, nb)

SplitSmall(m, i, nb) == SplitChunk(unlink_first_small_chunk(m, i), m.small[i][1], i * 8, nb, "replace")
SplitLarge(m, v, s, nb, keep) == SplitChunk(unlink_large_chunk(m, v, s), v, s, nb, keep)
tmalloc_small(m, v, nb) == SplitLarge(m, v, chunksize(m, v), nb, "replace")
tmalloc_large(m, v, nb) == SplitLarge(m, v, chunksize(m, v), nb, "bin")
TakeDv(m, nb) == SplitChunk([m EXCEPT !.dv = 0, !.dvsize = 0], m.dv, m.dvsize, nb, "dv")

Obtain(m, nb) ==
    IF nb <= m.dvsize THEN TakeDv(m, nb)
    ELSE IF nb < m.topsize THEN SplitTop(m, m.top, nb) ELSE sys_alloc(m, nb)
ObtainSmall(m, nb, fit, above) ==
    IF fit # {} THEN TakeSmall(m, Least(fit))
    ELSE IF nb > m.dvsize /\ above # {} THEN SplitSmall(m, Least(above), nb)
    ELSE IF nb > m.dvsize /\ NonemptyAbove(m, -1) # {} THEN
        tmalloc_small(m, SmallestOf(m, LeftOfNext(m, NonemptyAbove(m, -1))), nb)
    ELSE Obtain(m, nb)
ObtainLarge(m, nb, seen) ==
    IF Better(m, seen, nb) THEN tmalloc_large(m, SmallestOf(m, seen), nb) ELSE Obtain(m, nb)
Allocate(m, bytes, nb) ==
    IF bytes >= MaxRequest THEN Obtain(m, MaxSize)
    ELSE IF bytes < MinLarge - 7 - Overhead THEN ObtainSmall(m, nb, SmallFit(m, nb), SmallAbove(m, nb))
    ELSE ObtainLarge(m, nb, LargeSeen(m, nb))
ToMem(r) == [m |-> r.m, mem |-> IF r.p = 0 THEN Null ELSE r.p + 8]
dlmalloc(m, bytes) == ToMem(Allocate(m, bytes, request2size(bytes)))

-----------------------------------------------------------------------------
(* dlfree *)

TrimmedAt(m) == IF m.topsize > m.trim THEN sys_trim(m, 0) ELSE m
MergeTop(m, p, s) ==
    TrimmedAt(SetTop(IF p = m.dv THEN [m EXCEPT !.dv = 0, !.dvsize = 0] ELSE m, p, m.topsize + s))
MergeDv(m, p, s) == set_size_and_pinuse_of_free_chunk([m EXCEPT !.dv = p, !.dvsize = s], p, s)
Rebin(m, p, s) == IF p = m.dv THEN [m EXCEPT !.dvsize = s] ELSE insert_chunk(m, p, s)
MergeNext(m, p, s, next, n) ==
    Rebin(set_size_and_pinuse_of_free_chunk(unlink_chunk(m, next, n), p, s + n), p, s + n)

(* The chunk p of s bytes, already merged backward, is followed by next. *)
MergeForward(m, p, s, next) ==
    IF cinuse(m, next) THEN Rebin(set_free_with_pinuse(m, p, s, next), p, s)
    ELSE IF next = m.top THEN MergeTop(m, p, s)
    ELSE IF next = m.dv THEN MergeDv(m, p, m.dvsize + s)
    ELSE MergeNext(m, p, s, next, chunksize(m, next))

(* Faulty variant: the chunk before is taken from its bin also when it is the designated victim. *)
MergeBackward_binned(m, p, s, prevsize) ==
    MergeForward(IF pinuse(m, p) \/ is_small(prevsize) THEN m ELSE unlink_chunk(m, p - prevsize, prevsize),
                 IF pinuse(m, p) THEN p ELSE p - prevsize,
                 IF pinuse(m, p) THEN s ELSE s + prevsize, p + s)
MergeBackward(m, p, s, prevsize) ==
    MergeForward(IF pinuse(m, p) \/ p - prevsize = m.dv THEN m ELSE unlink_chunk(m, p - prevsize, prevsize),
                 IF pinuse(m, p) THEN p ELSE p - prevsize,
                 IF pinuse(m, p) THEN s ELSE s + prevsize, p + s)
dlfree(m, mem) == IF mem = Null THEN m ELSE MergeBackward(m, mem - 8, chunksize(m, mem - 8), Word(m, mem - 8))

-----------------------------------------------------------------------------
(* The other entry points. *)

dlcalloc(m, n, e) ==
    LET half == 2^(SizeBits \div 2)
        req == Wrap(n * e)
    IN  dlmalloc(m, IF n # 0 /\ (n >= half \/ e >= half) /\ req \div n # e THEN MaxSize ELSE req)

Copy(m, from, to, n) ==
    [m EXCEPT !.mem = [a \in DOMAIN @ |-> IF to <= a /\ a < to + n THEN @[a - to + from] ELSE @[a]]]
Smaller(a, b) == IF a < b THEN a ELSE b

(* A block is copied when it cannot be resized where it is. *)
Shrink(m, p, s, nb) ==
    IF s - nb < MinChunk THEN m ELSE dlfree(set_inuse(set_inuse(m, p, nb), p + nb, s - nb), p + nb + 8)
IntoTop(m, p, nb, topsize) ==
    Put([set_inuse(m, p, nb) EXCEPT !.top = p + nb, !.topsize = topsize], p + nb + 4, topsize + 1)
(* Faulty variant: the old bytes are not carried over. *)
MoveTo_bare(r, old, n) == IF r.mem = Null THEN r ELSE [m |-> dlfree(r.m, old), mem |-> r.mem]
MoveTo(r, old, n) ==
    IF r.mem = Null THEN r ELSE [m |-> dlfree(Copy(r.m, old, r.mem, n), old), mem |-> r.mem]
Resize(m, old, p, s, nb, bytes) ==
    IF s >= nb THEN [m |-> Shrink(m, p, s, nb), mem |-> old]
    ELSE IF p + s = m.top /\ s + m.topsize > nb THEN [m |-> IntoTop(m, p, nb, s + m.topsize - nb), mem |-> old]
    ELSE MoveTo(dlmalloc(m, bytes), old, Smaller(s - Overhead, bytes))
dlrealloc(m, old, bytes) ==
    IF bytes >= MaxRequest THEN [m |-> m, mem |-> Null]
    ELSE Resize(m, old, old - 8, chunksize(m, old - 8), request2size(bytes), bytes)

(* dlmemalign: the leader before the aligned spot and the spare room after *)
(* the block go back.                                                      *)
PowerOf2(n) == Least({k \in {2^i : i \in 4 .. SizeBits} : k >= n})
FreeIf(b, m, mem) == IF b THEN dlfree(m, mem) ELSE m
Trailer(m, q, nb, size, lead) ==
    FreeIf(size > nb + MinChunk,
           FreeIf(lead > 0, IF size > nb + MinChunk THEN set_inuse(set_inuse(m, q, nb), q + nb, size - nb) ELSE m,
                  q - lead + 8),
           q + nb + 8)
Leader(m, q, nb, size, lead) ==
    Trailer(IF lead = 0 THEN m ELSE set_inuse(set_inuse(m, q, size), q - lead, lead), q, nb, size, lead)
Spot(mem, up, al) == IF mem % al = 0 THEN mem - 8 ELSE IF up - (mem - 8) >= MinChunk THEN up ELSE up + al
CutAt(m, p, q, nb) == [m |-> Leader(m, q, nb, chunksize(m, p) - (q - p), q - p), mem |-> q + 8]
CutOut(r, al, nb) ==
    IF r.mem = Null THEN r
    ELSE CutAt(r.m, r.mem - 8, Spot(r.mem, ((r.mem + al - 1) \div al) * al - 8, al), nb)
AlignTo(m, al, nb) == CutOut(dlmalloc(m, nb + al + MinChunk - Overhead), al, nb)
dlmemalign(m, alignment, bytes) ==
    IF alignment <= 8 THEN dlmalloc(m, bytes)
    ELSE IF bytes >= MaxRequest - PowerOf2(alignment) THEN [m |-> m, mem |-> Null]
    ELSE AlignTo(m, PowerOf2(alignment), request2size(bytes))

(* ialloc: one chunk cut into one for each element and, unless the program *)
(* brings it, one for the array of pointers; the last takes what is over.  *)
Total(sizes) == FoldSeq(+, 0, sizes)
Cuts(chunk) == [i \in 1 .. Len(chunk) |-> Total(SubSeq(chunk, 1, i - 1))]
CutInto(m, p, s, at) ==
    FoldFunction(LAMBDA i, h : set_size_and_pinuse_of_inuse_chunk(
                                   h, p + at[i], (IF i < Len(at) THEN at[i + 1] ELSE s) - at[i]),
                 m, [i \in DOMAIN at |-> i])
Elements(r, at) ==
    IF r.mem = Null THEN [m |-> r.m, mems |-> <<>>]
    ELSE [m |-> CutInto(r.m, r.mem - 8, chunksize(r.m, r.mem - 8), at), mems |-> [i \in DOMAIN at |-> r.mem + at[i]]]
AllOf(r) == [m |-> r.m, mems |-> <<r.mem>>]
Carve(m, chunk) == Elements(dlmalloc(m, Total(chunk) - Overhead), Cuts(chunk))
ialloc(m, sizes, bringsArray) ==
    IF sizes = <<>> THEN IF bringsArray THEN [m |-> m, mems |-> <<>>] ELSE AllOf(dlmalloc(m, 0))
    ELSE Carve(m, [i \in 1 .. Len(sizes) + Bit(~bringsArray) |->
                      request2size(IF i <= Len(sizes) THEN sizes[i] ELSE 4 * Len(sizes))])

change_mparam(m, param, value) ==
    CASE param = "M_TRIM_THRESHOLD" -> [m EXCEPT !.threshold = value]
      [] param = "M_GRANULARITY" /\ value >= 8 /\ value \in {2^k : k \in 0 .. SizeBits} ->
             [m EXCEPT !.granularity = value]
      [] OTHER -> m

-----------------------------------------------------------------------------
(* The program. *)

Mark(id) == -1 - id        \* what it writes in a block
usable_size(m, mem) == chunksize(m, mem - 8) - Overhead
Fill(m, id, mem, from) == Spread(m, mem + from, mem + usable_size(m, mem), Mark(id))
Unused == {id \in Handles : live[id] = NoBlock}
InUse == Handles \ Unused

HeapInit ==
    /\ heap = Fresh
    /\ live = [id \in Handles |-> NoBlock]
    /\ caller \in Callers
    /\ made = 0

Leave(m, blocks) ==
    /\ ~m.exhausted
    /\ heap' = m
    /\ live' = blocks

(* A call that answered a new block of some bytes, or nothing. *)
Receive(id, r, bytes) ==
    IF r.mem = Null THEN Leave(r.m, live)
    ELSE Leave(Fill(r.m, id, r.mem, 0), [live EXCEPT ![id] = [at |-> r.mem, bytes |-> bytes]])
NextId == Least(Unused)

Malloc(c) == Unused # {} /\ Receive(NextId, dlmalloc(heap, c.bytes), c.bytes)
Calloc(c) == Unused # {} /\ Receive(NextId, dlcalloc(heap, c.n, c.each), c.n * c.each)
Memalign(c) == Unused # {} /\ Receive(NextId, dlmemalign(heap, c.align, c.bytes), c.bytes)

Free(id) == Leave(dlfree(heap, live[id].at), [live EXCEPT ![id] = NoBlock])

Resized(r, id, same, bytes) ==
    IF r.mem = Null THEN Leave(r.m, live)
    ELSE Leave(Fill(r.m, id, r.mem, same - (same % 4)), [live EXCEPT ![id] = [at |-> r.mem, bytes |-> bytes]])
Realloc(c, id) == Resized(dlrealloc(heap, live[id].at, c.bytes), id, Smaller(live[id].bytes, c.bytes), c.bytes)

IdsFor(n) == [i \in 1 .. n |-> CHOOSE id \in Unused : Cardinality({x \in Unused : x < id}) = i - 1]
ReceiveAll(r, ids, sizes) ==
    Leave(FoldFunction(LAMBDA i, m : Fill(m, ids[i], r.mems[i], 0), r.m, [i \in DOMAIN r.mems |-> i]),
          [id \in Handles |-> IF \E i \in DOMAIN r.mems : ids[i] = id
                               THEN LET i == CHOOSE k \in DOMAIN r.mems : ids[k] = id
                                    IN  [at |-> r.mems[i], bytes |-> sizes[i]]
                               ELSE live[id]])
Independent(c) ==
    LET sizes == IF c.array THEN c.sizes ELSE Append(c.sizes, 4 * Len(c.sizes)) IN
    /\ Cardinality(Unused) >= Len(sizes)
    /\ ReceiveAll(ialloc(heap, c.sizes, c.array), IdsFor(Len(sizes)), sizes)

Trim(c) == Leave(sys_trim(heap, c.pad), live)
Mallopt(c) == Leave(change_mparam(heap, c.param, c.value), live)

HeapNext ==
    /\ made < caller.steps
    /\ made' = made + 1
    /\ UNCHANGED caller
    /\ \/ \E c \in caller.calls :
             \/ c.op = "malloc" /\ Malloc(c)
             \/ c.op = "calloc" /\ Calloc(c)
             \/ c.op = "memalign" /\ Memalign(c)
             \/ c.op = "realloc" /\ \E id \in InUse : Realloc(c, id)
             \/ c.op = "independent" /\ Independent(c)
             \/ c.op = "trim" /\ Trim(c)
             \/ c.op = "mallopt" /\ Mallopt(c)
       \/ \E id \in InUse : Free(id)

-----------------------------------------------------------------------------
(* What the code asserts (do_check_malloc_state). *)

RECURSIVE Walk(_, _)
Walk(m, q) ==      \* the chunks from q to top
    IF q = m.top THEN {}
    ELSE IF q > m.top \/ chunksize(m, q) < MinChunk THEN {-1} ELSE {q} \union Walk(m, next_chunk(m, q))

InSmall(m, q) == {i \in Smallbins : q \in ToSet(m.small[i])}
InTree(m, q) == {i \in Treebins : \E path \in DOMAIN m.tree[i] : q \in ToSet(Ring(m, i, path))}
LinksOf(m, q) == IF is_small(chunksize(m, q)) THEN {q + 8, q + 12} ELSE {q + 4 * k : k \in 2 .. 7}

(* do_check_inuse_chunk, do_check_free_chunk *)
ChunkSound(m, q) ==
    LET n == next_chunk(m, q) IN
    /\ q % 8 = 0 /\ chunksize(m, q) % 8 = 0
    /\ pinuse(m, n) = cinuse(m, q)
    /\ cinuse(m, q) => InSmall(m, q) = {} /\ InTree(m, q) = {} /\ q # m.dv
    /\ ~cinuse(m, q) =>
          /\ pinuse(m, q) /\ (n = m.top \/ cinuse(m, n))
          /\ Word(m, n) = chunksize(m, q)
          /\ q = m.dv \/ \A a \in LinksOf(m, q) : m.mem[a] = Link
          /\ InSmall(m, q) = IF q # m.dv /\ is_small(chunksize(m, q)) THEN {small_index(chunksize(m, q))} ELSE {}
          /\ InTree(m, q) = IF q = m.dv \/ is_small(chunksize(m, q)) THEN {}
                            ELSE {compute_tree_index(chunksize(m, q))}

(* do_check_smallbin, do_check_tree: no chunk twice, each where its size leads *)
BinsSound(m, chunks) ==
    /\ \A i \in Smallbins : IsInjective(m.small[i]) /\ ToSet(m.small[i]) \subseteq chunks
    /\ \A i \in Treebins : \A path \in DOMAIN m.tree[i] :
          LET s == RingSize(m, i, path) IN
          /\ IsInjective(Ring(m, i, path)) /\ ToSet(Ring(m, i, path)) \subseteq chunks
          /\ \A c \in ToSet(Ring(m, i, path)) : chunksize(m, c) = s
          /\ minsize_for_tree_index(i) <= s /\ s < minsize_for_tree_index(i + 1)
          /\ path = Turns(s, Len(path))
          /\ \A k \in 0 .. Len(path) - 1 :
                SubSeq(path, 1, k) \in DOMAIN m.tree[i] /\ RingSize(m, i, SubSeq(path, 1, k)) # s

(* internal_mallinfo: the free bytes, top and its foot included *)
fordblks(m) ==
    m.topsize + TopFoot + MapThenSumSet(LAMBDA q : IF cinuse(m, q) THEN 0 ELSE chunksize(m, q), Walk(m, m.base))

(* The heap is what malloc.c asserts of it (malloc.c:2546-2808): chunks    *)
(* tile the segment up to top, neighbours agree on what is in use, no two  *)
(* free chunks touch, and every free chunk is the designated victim or is  *)
(* in the one bin, at the one place, its size selects.  And what the       *)
(* program holds (BlocksIntact) is as it left it.                          *)
HeapSound ==
    heap.top # 0 =>
        LET chunks == Walk(heap, heap.base) IN
        /\ -1 \notin chunks
        /\ pinuse(heap, heap.base) /\ pinuse(heap, heap.top) /\ ~pinuse(heap, next_chunk(heap, heap.top))
        /\ chunksize(heap, heap.top) = heap.topsize
        /\ heap.topsize = heap.base + heap.size - heap.top - TopFoot
        /\ heap.dvsize = IF heap.dv = 0 THEN 0 ELSE chunksize(heap, heap.dv)
        /\ heap.dv # 0 => heap.dv \in chunks
        /\ \A q \in chunks : ChunkSound(heap, q)
        /\ BinsSound(heap, chunks)
        /\ heap.base + heap.size = heap.brk /\ heap.size = heap.footprint

(* Every block holds what was asked for, to the byte that an overflow of   *)
(* calloc's product would miss, and every byte of it, the ones realloc     *)
(* carried over included, is what the program wrote; and every chunk in    *)
(* use is some block: realloc, memalign and independent_calloc, which cut  *)
(* chunks by hand (malloc.c:3761-4043), neither overlap nor lose memory.   *)
BlocksIntact ==
    /\ \A id \in InUse :
          /\ live[id].at % 8 = 0
          /\ live[id].bytes <= usable_size(heap, live[id].at)
          /\ \A k \in 0 .. usable_size(heap, live[id].at) \div 4 - 1 :
                heap.mem[live[id].at + 4 * k] = Mark(id)
    /\ heap.top # 0 =>
          /\ {q \in Walk(heap, heap.base) : cinuse(heap, q)} = {live[id].at - 8 : id \in InUse}
          /\ heap.footprint - fordblks(heap) = MapThenSumSet(LAMBDA id : usable_size(heap, live[id].at) + Overhead, InUse)

(* A search of the trees finds the smallest chunk that fits (malloc.c:4062 *)
(* "Find the smallest available binned chunk that fits"), for every        *)
(* request a tree can serve, though it looks at one path and one subtree.  *)
TreesFindBest ==
    LET large == {q \in IF heap.top = 0 THEN {} ELSE Walk(heap, heap.base) : InTree(heap, q) # {}}
        sizes == {chunksize(heap, q) : q \in large}
    IN  \A nb \in {8 * k : k \in MinLarge \div 8 .. (SbrkEnd - SbrkStart) \div 8} :
          LET fitting == {s \in sizes : s >= nb}
              seen == LargeSeen(heap, nb)
          IN  IF fitting = {} THEN seen = {}
              ELSE seen # {} /\ chunksize(heap, SmallestOf(heap, seen)) = Least(fitting)

=============================================================================
