-------------------------------- MODULE Aes --------------------------------
(***************************************************************************)
(* AES decryption across two processors: a program of either writes a      *)
(* ciphertext, the ARM drives the engine (mini/crypto.c), which reads and  *)
(* writes memory past both caches, and the program reads the plaintext.    *)
(* The PowerPC's program goes through libbroadway/mini_ipc.c, which cares  *)
(* for the PowerPC's cache (sync.c); the ARM's cache is crypto.c's part    *)
(* (memory.c, memory_asm.S).  A cell is the 16 bytes of a block.           *)
(*                                                                         *)
(* The plaintext of a block is what it is chained to and its ciphertext.   *)
(* A program decrypts in place or into a buffer apart and has nothing else *)
(* in the lines of its buffers, nor in the line after: mini_ipc.c          *)
(* invalidates one block more than was decrypted.  While it waits it       *)
(* touches neither buffer.                                                 *)
(*                                                                         *)
(* Between the engine and memory is the bus: what the engine wrote may be  *)
(* on its way for long, and a line it read may be held back for the next   *)
(* read.  memory.c's ahb_flush_from and ahb_flush_to are there for that.   *)
(***************************************************************************)
EXTENDS Integers, Sequences, FiniteSets

CONSTANTS
    LineCells,   \* blocks of a cache line (32 bytes: 2)
    Cells,       \* blocks of memory, 0 .. Cells - 1
    Chunk,       \* the most blocks of one command (0x80)
    Jobs         \* what programs decrypt, in order: [by, src, dst, blocks, keep]

Processors == {"arm", "ppc"}

(* Buffers in memory; the plaintext goes where the ciphertext is, or apart. *)
Job == {j \in [by : Processors, src : Nat, dst : Nat, blocks : Nat \ {0}, keep : BOOLEAN] :
            /\ j.src + j.blocks <= Cells /\ j.dst + j.blocks <= Cells
            /\ \/ j.dst = j.src
               \/ j.src + j.blocks <= j.dst
               \/ j.dst + j.blocks <= j.src}

ASSUME AesAssumption ==
    /\ LineCells \in Nat \ {0} /\ Cells \in Nat \ {0} /\ Chunk \in Nat \ {0}
    /\ Jobs \subseteq Seq(Job)

VARIABLES
    mem,     \* the memory
    cache,   \* [processor -> [line -> NoLine or [dirty, data]]]
    engine,  \* the engine: [iv, chain, left, src, dst], left blocks to do
    bus,     \* [posted: what it wrote, by cell; held: the lines it read]
    jobs,    \* the jobs still to do; the first is the current one
    pc,      \* how far the current one is
    at,      \* aes_decrypt: the blocks done and the chaining it asks for
    want     \* the plaintext it must give (ghost)

aesVars == <<mem, cache, engine, bus, jobs, pc, at, want>>

LineOf(c) == c \div LineCells
Lines == {LineOf(c) : c \in 0 .. Cells - 1}
NoLine == [dirty |-> FALSE]
Old == [old |-> 0]
IV == [iv |-> 0]

AesInit ==
    /\ mem = [c \in 0 .. Cells - 1 |-> Old]
    /\ cache = [p \in Processors |-> [l \in Lines |-> NoLine]]
    /\ engine = [iv |-> Old, chain |-> Old, left |-> 0, src |-> 0, dst |-> 0]
    /\ bus = [posted |-> <<>>, held |-> <<>>]
    /\ jobs \in Jobs
    /\ pc = "idle"
    /\ at = [done |-> 0, keep |-> FALSE]
    /\ want = <<>>

-----------------------------------------------------------------------------
(* The caches.  Lines come and go on their own; a line that goes is written *)
(* back if it is dirty.                                                    *)

CellsOf(l) == {c \in 0 .. Cells - 1 : LineOf(c) = l}
LinesOf(start, blocks) == {LineOf(c) : c \in start .. start + blocks - 1} \intersect Lines
InMemory(l) == [dirty |-> FALSE, data |-> [c \in CellsOf(l) |-> mem[c]]]
View(p, c) == IF cache[p][LineOf(c)] = NoLine THEN mem[c] ELSE cache[p][LineOf(c)].data[c]
Dirty(p) == {l \in Lines : cache[p][l].dirty}
WrittenBack(p, lines) == [c \in DOMAIN mem |-> IF LineOf(c) \in lines \intersect Dirty(p) THEN View(p, c) ELSE mem[c]]

Fetch(p, l) ==
    /\ pc = "idle" /\ cache[p][l] = NoLine
    /\ cache' = [cache EXCEPT ![p][l] = InMemory(l)]
    /\ UNCHANGED <<mem, engine, bus, jobs, pc, at, want>>
Evict(p, l) ==
    /\ cache[p][l] # NoLine
    /\ mem' = WrittenBack(p, {l})
    /\ cache' = [cache EXCEPT ![p][l] = NoLine]
    /\ UNCHANGED <<engine, bus, jobs, pc, at, want>>

(* dc_flushrange, sync_after_write: dirty lines are written back and stay. *)
Clean(p, start, blocks) ==
    /\ mem' = WrittenBack(p, LinesOf(start, blocks))
    /\ cache' = [cache EXCEPT ![p] = [l \in Lines |->
                    IF l \in LinesOf(start, blocks) \intersect Dirty(p) THEN [@[l] EXCEPT !.dirty = FALSE] ELSE @[l]]]
(* dc_invalidaterange, sync_before_read: lines are dropped, dirty or not. *)
Invalidate(p, start, blocks) ==
    /\ cache' = [cache EXCEPT ![p] = [l \in Lines |-> IF l \in LinesOf(start, blocks) THEN NoLine ELSE @[l]]]
    /\ UNCHANGED mem

-----------------------------------------------------------------------------
(* The program and, for the PowerPC's, aes_decrypt of mini_ipc.c. *)

job == jobs[1]
Cipher(i) == [job |-> Len(jobs), block |-> i]
Plain(chain, cipher) == [chain |-> chain, cipher |-> cipher]
Chained(i) == IF i > 0 THEN Cipher(i - 1) ELSE IF job.keep THEN engine.chain ELSE IV

Write ==     \* the ciphertext, through the cache; aes_set_iv, aes_set_key
    /\ pc = "idle" /\ jobs # <<>>
    /\ cache' = [cache EXCEPT ![job.by] = [l \in Lines |->
                    IF l \in LinesOf(job.src, job.blocks)
                    THEN [dirty |-> TRUE,
                          data |-> [c \in CellsOf(l) |-> IF c \in job.src .. job.src + job.blocks - 1
                                                         THEN Cipher(c - job.src) ELSE View(job.by, c)]]
                    ELSE @[l]]]
    /\ want' = [i \in 0 .. job.blocks - 1 |-> Plain(Chained(i), Cipher(i))]
    /\ engine' = [engine EXCEPT !.iv = IV]
    /\ pc' = IF job.by = "ppc" THEN "sync" ELSE "flush"
    /\ at' = [done |-> 0, keep |-> job.keep]
    /\ UNCHANGED <<mem, bus, jobs>>

sync_after_write ==
    /\ pc = "sync"
    /\ Clean("ppc", job.src, job.blocks + 1)
    /\ pc' = "flush"
    /\ UNCHANGED <<engine, bus, jobs, at, want>>

(* Some cells over others. *)
Over(some, others) ==
    [c \in DOMAIN some \cup DOMAIN others |-> IF c \in DOMAIN some THEN some[c] ELSE others[c]]

(* aes_decrypt of crypto.c: at most Chunk blocks a command, the later ones *)
(* chained to those before.                                                *)
Left == job.blocks - at.done
dc_flushrange ==
    /\ pc = "flush" /\ Left > 0
    /\ Clean("arm", job.src + at.done, Left)
    /\ pc' = "invalidate"
    /\ UNCHANGED <<engine, bus, jobs, at, want>>
(* Faulty variant: the lines of the destination stay. *)
dc_invalidaterange_skipped ==
    /\ pc = "invalidate"
    /\ pc' = "attach"
    /\ UNCHANGED <<mem, cache, engine, bus, jobs, at, want>>
dc_invalidaterange ==
    /\ pc = "invalidate"
    /\ Invalidate("arm", job.dst + at.done, Left)
    /\ pc' = "attach"
    /\ UNCHANGED <<engine, bus, jobs, at, want>>
(* The engine will read from memory, not from lines it read before. *)
ahb_flush_to ==
    /\ pc = "attach"
    /\ bus' = [bus EXCEPT !.held = <<>>]
    /\ pc' = "command"
    /\ UNCHANGED <<mem, cache, engine, jobs, at, want>>
aes_command ==
    /\ pc = "command"
    /\ engine' = [engine EXCEPT !.left = IF Left > Chunk THEN Chunk ELSE Left,
                                !.src = job.src + at.done, !.dst = job.dst + at.done,
                                !.chain = IF at.keep THEN @ ELSE engine.iv]
    /\ pc' = "busy"
    /\ UNCHANGED <<mem, cache, bus, jobs, at, want>>
(* What the engine wrote has reached memory.  The code polls for that a  *)
(* million times and then goes on regardless (memory.c:193-202): the step *)
(* takes it that the bus is done by then.                                *)
ahb_flush_from ==
    /\ pc = "busy" /\ engine.left = 0
    /\ mem' = Over(bus.posted, mem)
    /\ bus' = [bus EXCEPT !.posted = <<>>]
    /\ pc' = "next"
    /\ UNCHANGED <<cache, engine, jobs, at, want>>
NextChunk ==
    /\ pc = "next"
    /\ at' = [done |-> IF Left > Chunk THEN at.done + Chunk ELSE job.blocks, keep |-> TRUE]
    /\ pc' = "flush"
    /\ UNCHANGED <<mem, cache, engine, bus, jobs, want>>
Decrypted ==
    /\ pc = "flush" /\ Left = 0
    /\ pc' = IF job.by = "ppc" THEN "reply" ELSE "read"
    /\ UNCHANGED <<mem, cache, engine, bus, jobs, at, want>>

sync_before_read ==
    /\ pc = "reply"
    /\ Invalidate("ppc", job.dst, job.blocks + 1)
    /\ pc' = "read"
    /\ UNCHANGED <<engine, bus, jobs, at, want>>
ReadPlain ==
    /\ pc = "read"
    /\ pc' = "idle"
    /\ jobs' = Tail(jobs)
    /\ UNCHANGED <<mem, cache, engine, bus, at, want>>

(* The engine, a block at a time, and the bus. *)
Decrypt ==
    /\ engine.left > 0
    /\ LET read == Over(bus.held, [c \in CellsOf(LineOf(engine.src)) |-> mem[c]])
           written == [c \in {engine.dst} |-> Plain(engine.chain, read[engine.src])] IN
       /\ bus' = [posted |-> Over(written, bus.posted), held |-> read]
       /\ engine' = [engine EXCEPT !.chain = read[engine.src], !.left = @ - 1, !.src = @ + 1, !.dst = @ + 1]
    /\ UNCHANGED <<mem, cache, jobs, pc, at, want>>
Arrive(c) ==
    /\ c \in DOMAIN bus.posted
    /\ mem' = [mem EXCEPT ![c] = bus.posted[c]]
    /\ bus' = [bus EXCEPT !.posted = [d \in DOMAIN bus.posted \ {c} |-> bus.posted[d]]]
    /\ UNCHANGED <<cache, engine, jobs, pc, at, want>>

AesNext ==
    \/ \E p \in Processors, l \in Lines : Fetch(p, l) \/ Evict(p, l)
    \/ Write \/ sync_after_write
    \/ dc_flushrange \/ dc_invalidaterange \/ ahb_flush_to \/ aes_command
    \/ ahb_flush_from \/ NextChunk \/ Decrypted
    \/ sync_before_read \/ ReadPlain
    \/ Decrypt \/ \E c \in DOMAIN bus.posted : Arrive(c)

AesSpec == AesInit /\ [][AesNext]_aesVars

-----------------------------------------------------------------------------
(* When a decryption is over its program reads, through its own cache, the *)
(* plaintext of every block, chained over the commands it was split into   *)
(* and to the decryption before if it asked for that, whatever lines the   *)
(* caches and the bus held, dropped or wrote back meanwhile.  No line of   *)
(* the destination is dirty when a program begins: nothing would write     *)
(* such a line back first, and evicted later it would lie over the         *)
(* plaintext.                                                              *)
ReadsPlaintext == pc = "read" => \A i \in 0 .. job.blocks - 1 : View(job.by, job.dst + i) = want[i]

=============================================================================
