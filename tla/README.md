# Verification of mini-broadway

`mini` runs on the Wii's ARM processor; `libbroadway`, `libdiskmii`,
`libhextwelve` and `libcereal` run on its PowerPC.  The two processors share
memory and a pair of message registers, and no locks.  The PowerPC has no other
way to the NAND flash, the SD card and the keys than to ask the ARM.

This directory holds TLA+ models of that program, TLC runs over small
instances, and theorems with proofs that TLAPS checks.  Paths below are
relative to the repository's root.

## 1. Inventory

| component | state it keeps | operations | talks to |
|---|---|---|---|
| ARM IPC, `mini/ipc.c` | `in_head`, `out_tail`, `slow_queue` with head and tail, its half of the message registers | `ipc_post`, `ipc_irq`/`process_in`, `ipc_enqueue_slow`, `ipc_process_slow`, `ipc_flush`, `ipc_initialize`, `ipc_shutdown` | PowerPC IPC by rings in memory, registers and a bell; all ARM drivers by calls |
| PowerPC IPC, `libbroadway/ipc.c`, `mini_ipc.c` | `in_tail`, `out_head`, `cur_tag` | `ipc_vpost`, `ipc_receive`, `ipc_receive_tagged`, `ipc_exchange`, `ipc_flush` | ARM IPC |
| ARM NAND driver, `mini/nand.c` | `current_request`, `ipc_data`, `ipc_ecc`, `nand_min_page`, `irq_flag` | `nand_ipc` and the commands, `nand_irq`, `nand_correct` | flash controller, its interrupt, ARM IPC |
| ARM SD host controller, `mini/sdhc.c` | `intr_status`, `intr_error_status`, `data_command` | `sdhc_exec_command`, `sdhc_wait_intr`, `sdhc_intr` | card, its interrupt, slow queue (`IPC_SDHC_DISCOVER`) |
| ARM SD card layer, `mini/sdmmc.c` | `card`: `inserted`, `selected`, `new_card`, `num_sectors` | discover, check, acknowledge, read, write, size | host controller, ARM IPC |
| ARM interrupt entry, `mini/irq.c`, `irq_asm.S` | CPSR, ARMIRQMASK | `irq_handler`, `irq_kill`, `irq_restore`, `irq_wait` | every ARM driver |
| ARM main program, `mini/main.c` | the vector to leave to | boot, slow-queue loop, leave | all |
| USB Gecko loader, `mini/gecko.c` | receive state, buffer, start time | `gecko_timer`, `gecko_init`, console | PowerPC control, slow queue |
| PowerPC control, `mini/powerpc.c`, `powerpc_elf.c` | reset line | hang, reset, boot a file or an image | ARM IPC, ARM file system |
| ARM file system, `mini/ff.c` | FATFS with one sector window, one open file | mount, open, read, seek | SD card layer |
| boot2 loader, `mini/boot2.c` | block maps, page buffers, TMD | `boot2_init`, `boot2_load`, `boot2_run` | NAND, crypto, ARM IPC |
| ARM crypto, `mini/crypto.c`, `memory.c`, `seeprom.c` | AES engine and its vector, data cache, OTP, SEEPROM | `aes_decrypt`, cache and bus maintenance, keys | ARM IPC, the engine |
| PowerPC disk layer, `libdiskmii` | sector cache | `disk_read`, `disk_write`, status, initialise | SD card layer through IPC |
| PowerPC file system, `libdiskmii/ff.c` | FATFS with a sector window, FIL with a sector buffer, DIR | `f_open` to `f_rename` | disk layer |
| NAND file system, `libdiskmii/nandfs.c` | superblock, open file | initialise, open, read, seek | NAND driver through IPC |
| PowerPC interrupts, `libbroadway/irq.c`, `exception.c`, `input.c` | MSR, BWIRQMASK, PPCIRQMASK, pressed buttons | enable, disable, dispatch, poll | ARM (`ARMIRQMASK` is shared) |
| Memory allocator, `libbroadway/malloc.c` | `malloc_state`: chunks, small and tree bins, dv, top | malloc, free, realloc, memalign, independent allocations, trim | `sbrk` of the same file |
| Formatters, `mini/vsprintf.c`, `libbroadway/printf.c` | a format being printed into a buffer | `vsnprintf` | every message |
| SHA-1, `libbroadway/sha1.c` | a block buffer, the bit count | initialise, update, final | |
| Lists, `libbroadway/lists.c`, `libhextwelve/lib/list.c` | linked nodes | append, delete, find | their users |
| USB stack, `libhextwelve` | devices, endpoints with toggles, transfer queue | control, bulk, interrupt transfers, enumeration | OHCI registers, class drivers |
| USB class drivers, `libhextwelve/drivers` | a device per driver | probe, check, remove; keys, sectors, ports | USB stack |
| USB serial, `libcereal` | none to speak of | detection | |
| strings, fonts, console, video | | | |

### What is hard

* **Interleaving.** On the ARM a main loop and an interrupt handler share the
  out ring, the slow queue, `ARMMSG`, the NAND driver's request and buffer and
  the SD driver's `intr_status`.  Only `irq_kill` and `irq_restore` separate
  them.  On the PowerPC the root hub's interrupt enumerates devices in the
  middle of a program's own transfers.
* **Two processors and no locks.** Each ring has one producer and one
  consumer; what is published when, and in which order with the bell, decides
  whether a message is lost.  Both processors change `ARMIRQMASK` by reading
  it and writing it back.
* **Caches.** Memory is not coherent between the processors, the AES engine and
  the bus; who flushes or invalidates what, and when, decides what is read.
* **Restart and power.** USB Gecko and `PPC_BOOT` stop the PowerPC anywhere, in
  the middle of a call too, while the ARM and the rings go on.  The power can
  go between any two sectors that a call on a file writes.
* **Blocking.** `ipc_post` on the ARM spins with interrupts off while the reply
  ring is full; `ipc_vpost` on the PowerPC spins while the request ring is.
* **Limits.** A full slow queue is a panic; ring indices wrap; `nand_min_page`
  and the flash's size are boundaries of the page guard; a counter of the
  sector cache and the deadline of an upload wrap; a volume and a directory
  become full.
* **Requests that get no answer.** Some paths of `nand_ipc`, `process_slow` and
  `powerpc_ipc` answer nothing.
* **Removable media and devices.** A card or a USB device can come and go
  between any two steps of a program.
* **Shared buffers and structures.** One FAT window serves two tables and every
  directory; one chunk header serves two neighbours.

`PROJECT.json` lists each hazard with its line and the properties that cover it.

### What makes each component correct

* IPC: each ring is a bounded FIFO; nothing is lost, repeated or overwritten
  while it waits; the registers say what the indices say; the main loop does not
  sleep over a request; `ipc_exchange` returns, and returns its own reply; the
  system stops only where it should.
* NAND: one request at a time; a page below the minimum never changes; a reply
  tells the truth about the flash; a request is answered, once.
* SD and disk: a sector read is what the card in the slot holds, cached or
  not; a failed write leaves nothing stale; a card that was exchanged is not
  touched before it is acknowledged.
* SD host controller: a command that is reported complete is complete, and
  every command returns.
* Loaders: what is started is one whole program, on either processor.
* File systems: files and directories are what the calls made of them; the
  chains of a volume are sound; what was synchronised survives; each reader
  reads the file it opened.
* Interrupt layers: a source belongs to one processor; what is raised is
  served.
* Allocator: what the program has is its own; the bins find the best chunk.
* Formatters: never outside the buffer, the same text from both.
* Crypto: the reader sees the plaintext; a digest is of the whole message.
* USB: a packet goes to the device it is for; toggles agree; changes are
  noticed; the handler ends.

## 2. Plan

The order was that of importance: everything the PowerPC wants goes through the
IPC, then come the drivers that own hardware, then the layers above them, then
the libraries that stand alone.  All of it is done.

| module | stands on | its abstract specification |
|---|---|---|
| `Rings`, `BoundedFifo`, `MiniIpc` | | three instances of `BoundedFifo` |
| `Nand` | queue and reply as `MiniIpc` gives them | |
| `SectorCache`, `LruCache`, `MCSectorCache` | | `LruCache` |
| `SdDisk`, `MCSdDisk` | `SectorCache` (extended); queue and reply as `MiniIpc` gives them | |
| `Sdhc`, `MCSdhc` | | |
| `Gecko` | | |
| `UsbHost` | | |
| `PpcIrq` | | |
| `FatDisk`, `Fat`, `FatFile`, `MiniFat`, `FatSystem`, `MCFat` | both file systems on one card | `FileTree` |
| `HeapChunks`, `Heap` | | the structure the code asserts of itself |
| `NandFs`, `Boot2` | pages and clusters as `Nand` gives them | a file as a function of offsets; a whole copy |
| `MiniText`, `Printf` | | the ARM's formatter is the PowerPC's reference |
| `Aes`, `Sha1` | | the plaintext; the padded message |
| `MCLibraries`, `LibraryInputs` | the last four rows and `SectorCache`, side by side | |

What could follow: `Nand` under `MiniIpc` as a refinement of its three NAND steps
(start, complete, answer); `Sdhc` under the card layer; `Fat` on `SdDisk`, so that
a card exchanged under an open file is followed up into the file system.

## 3. Modules and code

### MiniIpc: `mini/ipc.c`, `libbroadway/ipc.c`, `mini/irq.c`

One step is one access to something that another processor or context can see
or change.  Four actors take steps: the ARM's main loop (`main`), its
interrupt handler (`irq`), the PowerPC program (`ppc`), and devices that raise
interrupts.

| model | code |
|---|---|
| `inQ`, `outQ`, `slowQ` | `in_queue`, `out_queue`, `slow_queue` |
| `inHead`, `outTail`, `slowHead`, `slowTail` | the ARM's indices; `inTail`, `outHead` are the PowerPC's |
| `armMsg`, `ppcMsg` | the registers, with two halves each: what is published of the indices |
| `bell` | the IN bit of the control register |
| `irqOff` | the I bit of CPSR, set by `irq_kill` and on entry to the handler |
| `post[c]`, `cookie[c]`, `copy[c]` | where context `c` is in `ipc_post`, and what it has read of `ARMMSG` |
| `nandReq`, `nandBusy`, `nandFlag` | `current_request`, the controller, its interrupt |
| `done`, `firstId`, `nextId` | history: requests in the order of their execution |

`ipc_post` is five steps (`PostKill` to `PostRestore`), because the question is
what `irq_kill` is for; `poke_outtail` is two, a read and a write of the same
register.  `ipc_process_slow` is a step for every line that touches the queue,
with the second look at the queue between `irq_kill` and `irq_wait`.
`ipc_exchange` is `PpcCall`, `PpcWrite`, `PpcPoke`, `PpcBell`, `PpcReceive`,
`PpcAck` and `PpcDiscard` or `PpcReturn`.  A request is [kind, tag, id]; the kind
says what the ARM does with its code: answer it in the handler, do it there and
answer nothing, put it in the slow queue, start the NAND controller, and so on
(the comment on `ClientKinds`).  `GeckoComplete` and `ProcessBoot` stop the
PowerPC at any step of its program; `PpcInit` starts the next one, with the ring
positions it reads from the registers.

`BoundedFifo` is what a ring promises: a sequence, one element in at the tail or
out at the head.  `Rings` has the index arithmetic and the contents of a ring
as a sequence, which is the refinement mapping.

### Nand: `mini/nand.c`

`Ask` puts a client's request in the queue; `Take`, `Refuse`, `AnswerNow`,
`Ignore`, `Claim`, `Start` and `StartNothing` are the paths through `nand_ipc`;
`ChipRead` and its siblings are the controller; `IrqRead` and `IrqOther` are
`nand_irq`.  A page's content is what was last written; `Mix` is what results
from writing twice without an erasure.  It also
stands for any other data in `ipc_data`.  `damage` is the number of wrong bits
by the ECC words in `ipc_ecc`, which is all `nand_correct` looks at: none, one, many.  Every
command of the controller can fail; a read that does leaves what was in the buffer,
the page, or some of each, and any ECC words.

### SectorCache and LruCache: `libdiskmii/cache.c`

The slots with their stamps, and the counter modulo `StampMod`, as the code's
32-bit counter.  `ReadFromCache`, `AddToCache` and `InvalidateCache` are the three
functions.  `LruCache` is a set of entries and the order of their last uses, as a
relation between sectors; `MCSectorCache` adds the sector that was asked for and
whether the counter has wrapped, and maps slots to entries and stamps to the order.

### SdDisk: `mini/sdmmc.c`, `libdiskmii/diskio.c`

`SdDisk` extends `SectorCache`.  The card in the slot, `struct sdmmc_card`
(`inserted`, `selected`, `newCard`, and, as history, the card that the
block mode and `num_sectors` belong to), the slow queue in which the card
interrupt's discovery and the PowerPC's request meet, and one call of the disk
layer with its progress: transfers of unaligned buffers are one request per
sector, between which everything else may happen.  `Discover` has an outcome for
every place where the discovery gives up.

### Sdhc: `mini/sdhc.c`

`Exec`, `Start`, `Wake`, `TimeOut`, `Stored`, `WaitFails`, `WaitEndsForNothing`,
`CommandDone`, `TransferDone` and `Resume` are `sdhc_exec_command` with what it
calls; `Stored` is apart from `Wake` because `intr_status &= ~status` is a load and
a store.  `Intr` is `sdhc_intr`.  The controller completes commands and
transfers, raises DMA boundaries, reports errors, or dies; `quirks`, chosen once,
says whether it may be late, whether the end of a busy signal interrupts and
whether cards come and go.

### Gecko: `mini/gecko.c`, `mini/powerpc_elf.c`, `mini/powerpc.c`, `mini/main.c`

`CommandByte`, `SizeByte`, `SomeBlocks`, `Complete`, `Silence` and `GiveUp` are the
paths through `gecko_timer`, one call each.  Bytes are shifted into words modulo
`WordMod`, as in the code, so that a command is found at any place in the
stream; blocks of an image are only known by the upload they came with.  The
main program goes from `IpcInitialize` (which empties the slow queue: an image
that was complete before is forgotten) over `BootFile` to the loop, where
`TakeBoot`, `LoadBlock`, `LoadFails` and `StartProgram` are `powerpc_boot_mem`, with
the interrupt between any two blocks.  `owner` and `before` are history: which
upload the memory belongs to, and which programs the main loop had to load
when it took it (`Pending`); it came `Alone` if there were none.  PowerPC requests to boot are left to `MiniIpc`, as is the size
of the slow queue.

### UsbHost: `libhextwelve`

Two contexts run the same code, the program (`main`) and the handler of the root
hub's interrupt (`irq`), which runs to its end before the program goes on.  A
context has a job, a sequence of items still to be done (a transfer, a driver's
probe, the acknowledgement of a port...); every step takes the first item and
puts what it calls in its place.  A transfer becomes a queue of transfer
descriptors on the one endpoint descriptor `ed` (`edhead`), one step each, because
the handler may come between any two.  The controller takes a packet and
answers for the device it is addressed to, if one is there.  Ports hold a keyboard, a disk or a hub, or
nothing; devices are plugged in and pulled at any time.  `dev` are the allocated structs,
`devices` the list as `list_delete_element` leaves it, `connected` what `ohci.c`
remembers for each port.  Two history variables bound what is promised: `raced`
says that the handler interrupted a transfer of the program (`PacketsToOwner` then excuses
the handler's own transfers, while it is in one: `Appending`; `TogglesAgree` says nothing any more), `missed` that a port
changed after the handler had looked at it.

### PpcIrq: `libbroadway/irq.c`, `exception.c`, `input.c`

The masks and flags of the Hollywood and of the Broadway, register by register.
Taking a source from the ARM (`irq_hw_enable`) and giving it back is a read of
`ARMIRQMASK`, a write of it and a change of `PPCIRQMASK`, three steps; the ARM's
own `irq_enable` and `irq_disable` are a read and a write of the same register.
`irq_disable` and `irq_restore` nest, with `nested` as the program's stack of
`was_on`.  The handler dispatches one source per step and clears its flag.
`gpio_read` polls the flag the handler of the buttons clears.  `Reboot` is the ARM
stopping the PowerPC anywhere and `irq_initialize` of the next program.  History:
`due` (what was raised and not served), `raced` (a read-modify-write undid
another), `rebooted`.

### FatDisk, Fat, FatFile, MiniFat, FatSystem, FileTree: `libdiskmii/ff.c`, `mini/ff.c`

A function of `ff.c` is an operator on a record `m`: the disk (a sector is a
sequence of entries of a table or of a directory, or of cells of data), the FATFS,
the DIR, the FIL, the result, the log of sectors written and the number of
transfers left before one fails.  `With(v, F)` names an intermediate value and
`Then(m, F)` is the code's `if (res != FR_OK) return res`.  `FatDisk` has the layout
and `move_window`, `Fat` the tables, chains and directories (`get_fat` to
`dir_remove`, `follow_path`), `FatFile` the functions a program calls (`f_mount`, `f_open`,
`f_read`, `f_write`, `f_sync`, `f_close`, `f_lseek`, `f_truncate`, `f_opendir`, `f_readdir`,
`f_stat`, `f_getfree`, `f_unlink`, `f_mkdir`, `f_chmod`, `f_utime`, `f_rename`), `MiniFat` what the ARM's
copy does to load a program.  Writes reach the card one by one, so the log is
what a power cut is taken from.

`FatSystem` runs a program: `Commit` is a call that ends, `PowerCut` one that is cut
off after any prefix of its writes, `TransferFails` one whose n-th transfer fails
(n in `FailAt`), and `Boot` the ARM loading `BootPath` from what is on the card, with
whatever its own window holds from an earlier load.  The rules the program
keeps are in the module's header; `ff.c` needs them and does not check them, and
section 8 says what happens without them.  `FileTree` is the abstract
specification: a function from paths to files, each call one change of it.
`seen`, what a reader sees through every buffer, and the open files are the
refinement mapping.

### HeapChunks and Heap: `libbroadway/malloc.c`

Memory is a function from word addresses to words, so that a header is where the
code puts it and `prev_foot` overlaps the user's last word.  Small bins are sequences,
tree bins tries with their rings of equal sizes, dv and top with their sizes, as
in `malloc_state`.  A caller's program is a sequence of calls; `HeapKeeps` is
`do_check_malloc_state`, which the library itself would check under `DEBUG`, and
the contents of the caller's blocks; `HeapFits` is best fit.

### NandFs: `libdiskmii/nandfs.c`

`nandfs_initialize` (newest superblock with its magic), `nandfs_open` (the walk
through the file table), `nandfs_read` cluster by cluster, `nandfs_seek`.  Each round
of a loop is a step (`ReadSuper`, `EnterDir` and `NextSibling`, `ReadCluster`,
`SkipCluster`); `call` is the call under way and `todo` what its loop has still to do.
`path` is the file the caller opened: a read is compared with that file's
content, which `ReadsItsFile` defines without the code's searches (`Newest`, `Files`,
`ByteAt`).  It also says that `nandfs_open` fails only if there is no such file; that half needs
directories whose names differ (`Unambiguous`).  `straight` is history: no seek went to a positive multiple of the
cluster size since the file was opened (section 8).  Chips hold what IOS writes
(`Sound`): links lead to nodes, and the root directory is not empty.

### Boot2: `mini/boot2.c`, `mini/main.c`

The chip's pages with one or two copies and their block maps, the election of a
map by generation and two of three equal copies, the list of the copy's blocks,
`read_to` page by page, the load of either copy, `boot2_run` with its patches.  Each
round of a loop is a step (`ReadMaps`, `ListBlock`, `ReadPage`).  `pages_read` wraps at `CounterSize`, as
the code's `u8` does at 256; a copy of that many pages or more is never found
loaded, and what it writes past the buffer of the model is left out.

### MiniText and Printf: `mini/vsprintf.c`, `libbroadway/printf.c`

`MiniText` is the ARM's formatter as a function of a format and arguments;
`Printf` is the PowerPC's `vsnprintf`, character by character through its states
and flags, on narrow integers (`CharBits`, `ShortBits`, `IntBits`).

### Aes: `mini/crypto.c`, `mini/memory.c`, `libbroadway/mini_ipc.c`, `sync.c`

Memory, the cache of each processor, the engine with its chaining vector, and the
bus between them: what the engine writes may be posted, what it reads may be
held back.  Lines are evicted and filled at any moment; none of the destination is
dirty when a program begins (section 8).  The jobs of a program
decrypt in place or elsewhere, chained or not, in one command or more.

### Sha1: `libbroadway/sha1.c`

The context with its buffer and bit count, and the digest as the sequence of the
blocks compressed.  A message of any length up to `MaxMessage` comes in one call, as
`SHA1` makes it; the padding comes cell by cell, the length in two.

### MCLibraries, LibraryInputs

`HeapChunks`/`Heap`, `NandFs`, `Boot2`, `Printf`, `Aes`, `Sha1` and `MCSectorCache` as one
specification: `which` chooses one, the variables of the others are off.  They
call each other nowhere, so nothing is lost.  `LibraryInputs` has the programs,
images, chips and formats.

### Proof modules

`MiniIpcProofs` (rings, registers, queues, requests and replies, then where the ARM
stops), `NandProofs`, `SdDiskProofs` (for `SectorCache` too), `SdhcProofs`, `GeckoProofs`,
`LibraryProofs` (`PpcIrq`, `Aes`, `Boot2`, `Sha1` and `NandFs`, which have no state in common),
`UsbHostProofs` and, on top of it, `UsbHostToggles` hold theorems and nothing of the model.

## 4. Runs

| run | asks | bounds, and why they are enough |
|---|---|---|
| `IpcExchange` | order of execution, and that `ipc_exchange` returns, for a client that uses it and posts register writes | rings of 2 slots: full with one message, wrapping at every second; 3 requests, one card interrupt that competes for the slow queue |
| `IpcReplies` | a client that also posts requests and never reads their replies, or starts boot2: own replies, a slow queue that loses nothing, and all the ways to stop | 4 requests against one usable reply slot and 3 usable slow slots: the reply ring is full, `ipc_post` and `ipc_flush` spin |
| `IpcReboot` | FIFO rings, registers and single execution when the PowerPC is stopped and restarted | one upload and any number of `ppcboot` among 3 requests: stopping happens at each step of a call |
| `NandRequests` | the page guard, the truth of replies when any command can fail (but for a read reported as failed, see 8), one answer, and an answer for what is not dropped | 2 pages, one below the minimum; 3 requests, so that one can come between two; larger blocks are left to the theorems, which cover every size |
| `NandRefusal` | a finding, see 8 | |
| `SdCards` | coherence and card changes | 2 cards, 2 sectors, 1 slot; a call takes two sectors in one request or in two |
| `SdhcCommands` | success that is the command's own, and that every command returns | controllers of every nature (`quirks`), every command form of the card layer, two card changes |
| `GeckoUploads` | whole programs, a PowerPC that runs at most what was to be started anyway while its memory is written, transfers that end, not early | two uploads of at most two blocks, so that one can come while the other waits, is loaded or is half there; words of two digits with a size that is refused; a timer of 5 ticks and a timeout of 2, so that the sum wraps, is the last value, or neither |
| `UsbTransfers` | who gets a packet, toggles, keyboards that answer, changes that are noticed, a handler that ends | 2 changes of a port (a device pulled and another plugged in while the first is still known), 1 error, 1 key, 1 operation of the program, every kind of device |
| `PpcInterrupts` | one owner for a source, and service for what is raised | 3 sources (shared, the ARM's, the buttons), 4 operations, 2 events, sections nested twice, 1 restart: each pair of read-modify-writes meets |
| `FatVolume` | the volume's structure, what survives a power cut, what the ARM loads, and the refinement of `FileTree` | FAT16 and FAT32 of 6 clusters with 2 sectors of 2 cells: files cross sectors and clusters, the volume fills up; four programs of 3 to 7 calls (names and directories, data of two files, clusters freed and taken again, one file again and again); a power cut after each write, a failure of no, the second or the fourth transfer |
| `Libraries` | the seven libraries | heap of 704 bytes with tree bins from 64 bytes (`TreebinShift` 6): all bins, dv, top, trim and failure; 7 blocks; clusters of 2 bytes, 5 calls; boot2 of up to 6 pages; integers of 4, 6 and 11 bits, buffers of 0, 4, 9 and 600 characters; 4 cache lines, commands of 2 blocks; SHA-1 blocks of 8 cells and messages of up to 150, past the wrap of the bit count; a cache of 2 slots with a counter that wraps |

Each property is shown to depend on the code by a faulty variant that violates
it: `PROJECT.json` lists them as mutants (a forgotten `irq_kill`, one message per
bell, an index that does not wrap, a reply matched by its code alone...).

`FatVolume` compares states without `last`, the call that led to them: no action
reads it, and the invariants that do are about the state after `Boot`, where it
stays.  `CHECK_DEADLOCK FALSE` stands in all runs but `SdCards` and
`SdhcCommands`: programs end, numbers of requests are bounded, the ARM leaves.
What that hides in the IPC, `StopsAtRestOrFlooded` brings back: where the system stops, it
is because nobody wants anything of it, or because nobody reads its replies.  It has two
halves: where none of the conditions `Ready` holds the system rests or is flooded
(`StopsOnlyAtRest`), and where one holds a step can be taken (`GuardsSuffice`).

## 5. Fairness

* `MiniIpc`: both processors execute instructions (weak fairness of `Arm` and
  `PpcRun`), the flash controller ends its commands (`NandComplete`), and the ARM
  takes an interrupt that is enabled again and again (strong fairness of
  `IrqEnter`: the main loop switches interrupts off and on in every round, so
  that the interrupt is not continuously enabled).  Clients need not call, no card
  has to move, nothing has to be uploaded.
* `Nand`: main loop, controller and interrupt.
* `Sdhc`: a command in execution goes on, an interrupt is handled, the controller
  works.  `TimeOut` is part of the former: the loop counts its time
  (`sdhc.c:694-706`).  Nobody has to execute a command.
* `Gecko`: the main program runs, the timer counts and the alarm goes off, at
  least once per tick (20 ms against seconds; `irq.c:60` sets the next alarm in
  each).  Nothing need arrive.
* `PpcIrq`: a handler that has been entered and a call that has begun go on
  (`Handler`, `Continues`): the PowerPC executes instructions.  No operation has
  to be begun, no event has to happen, and the ARM may stop for ever.
* `UsbHost`: while there is work, somebody works (`Working`: the program, the
  handler or the controller).  One fairness condition for the three is enough,
  because who waits does so in a loop that is a stutter of the model, and the
  controller serves what is queued.  No device has to be plugged in.

The other runs check safety only.

## 6. Proofs

All for every value of the constants, under the named assumptions of the modules
(rings of more than one slot, a minimum page within the flash, and so on).  The
type invariant of each of these modules is a theorem and not a run's property.

**Rings** (in `MiniIpcProofs`).  The masked increment stays in the ring; moving the tail
occupies exactly one slot, moving the head frees exactly one.

**MiniIpc.** The invariant is
`TypeOK` with `SlotsInv` (a published slot holds a request), `PpcInv` (the
PowerPC's indices are the published ones), `ControlInv` (which states of the two
contexts go together with interrupts off), `RegistersInv` (a copy of `ARMMSG` that
is about to be written back is up to date), `HeldInv` (the message being worked on
stays in its ring) and `NoLostWakeup`.  Types alone are not inductive: that
`ProcessSlow` works on a request takes `SlotsInv` and `HeldInv`; that the main
loop's copy of the register is up to date takes that the handler cannot run in
between, `ControlInv`; that no wakeup is lost takes that interrupts are off
between the second look and the wait.  Proved: `TypeCorrect`,
`RegistersCorrect`, `PostExcludes`, `WakeupNotLost`.

**The rings as queues.** Each ring implements `BoundedFifo`, for rings of every size
(`RingsAreFifosCorrect`).  `ContentsPut` and `ContentsGet` say what moving a tail or a head
does to the sequence `Contents`, which depends on the occupied slots only; the rest is to
find, for every step of the program, which of the two it is.  For the ring of replies
that takes `OutInv`, on top of the invariant above: a context between its write and
its publication has filled the slot after the published replies, there is room for it, and
(`OnePoster`) the other context is not in `ipc_post`.  Most steps are `Silent`, one
lemma for all.

**Requests and replies** (the second half of `MiniIpcProofs`).  Five questions about requests and replies, each with the
invariant it needs:

* Executed once (`RequestsExecutedOnce`).  A request that is still to be executed is in
  one of three places, with the PowerPC, in the ring of requests or in the slow
  queue, and leaves it when it is executed (`IdsInv`); a restarted PowerPC goes on
  with new ids.
* Own replies (`RepliesOfProgram`, `OwnReplies`).  `Seen` is everything that is in a
  variable or a slot, free slots included, because a slot is reused without being
  cleared.  `CallInv`: requests that are seen and have the same id are the same, a tag of the
  running program is below `curTag` or that of the call under way, and the PowerPC's variables
  say which call that is.  That holds however often the PowerPC restarts, and gives
  `RepliesOfProgram`.  A program that was stopped may have used the same tag (section 8), so
  `OwnReplies` is about a PowerPC that nothing stops (`Undisturbed`); by
  `NothingStops` that is every configuration without uploads and without boot requests,
  `IpcReplies` and `IpcExchange` among them.
* Nothing slept over (`NoneSleptOver`).  A PowerPC that the ARM stops between publishing a request
  and ringing leaves the request in the ring until somebody rings again: the hypothesis
  `RingsOnce` excludes that one place, and no other restart.
* Replied before leaving (`BootReplied`), with no hypothesis.  `LeaveInv`: the
  handler never posts the reply to a boot2 request, so that once `ipc_flush` has seen the ring of
  replies empty no such reply comes in.
* Done in order (`DoneBefore`).  `OrderInv`: the ring of requests holds the latest ones,
  with consecutive ids; each one before them has been executed or is the one the PowerPC
  waits for; whatever is a reply has been executed.  What the client posts
  without waiting must be of a kind the handler does itself (`PostKinds \subseteq FastKinds`, as the
  register writes of `mini_ipc.c` are): a request for the main loop waits in the slow
  queue while the handler answers a later one.

**Where the ARM stops** (the end of `MiniIpcProofs`).  `StopsProperly`: where nothing is `Ready`,
all is at rest (`AtRest`: rings of requests empty, the ARM asleep, the PowerPC idle or not running), or the
PowerPC leaves its replies unread (`Flooded`), or the ARM has left, or panicked.  The invariant is `RestInv`, on top of
those above.  Its heart is `Awaited`: while the PowerPC waits for the reply to a request of a kind that
is answered, the request or its reply is in one of the three rings, with the NAND driver, in one of
the two contexts of `ipc_post`, or in the PowerPC's hands.
`SlowKinds` (the main loop is never given what it cannot do), `TimerDue` and `NandDue` (whoever
waits for a device has its interrupt coming) say that each of those places is left.
The lemmas follow the request from place to place: what a step does not post stays
where it is (`OthersKeepPosts`), what it posts goes to the ring.  Hypotheses: a client that waits
for no request of the kinds the ARM does not answer (`"mute"`, `"poke"`), and `RingsOnce`
as above.  `StopsProperlyEnabled` gives the property of the run from it, with `GuardsSuffice` as
its hypothesis.

**Nand.** `TypeOK`, `MainInv` and `InsideInv` (where the main loop is, and what it
has checked), `InterruptHasRequest`, `GuardInv` (a write or an erasure under way
passed the guard, and the minimum only ever falls), `OneInv` (main loop,
controller and interrupt never own the request together), `BufferInv` (the buffer
holds what the request under way is about, unless the controller reports that its read
failed).  From it follow the action properties
`Protected` and `RepliesTruthful`, which has the same exception, and no other: writes,
erasures and identifications that fail are covered (section 8).  `IdsInv` (waiting, served and answered requests
have different ids) gives `AnsweredOnce`.

**SdDisk.** With the types: where a request of the PowerPC can be (queue, reply,
nowhere), that its call is what it says, that the cards
touched since an acknowledgement are one, that a card that can be accessed is known, that the cache agrees with
it.  `CacheCoherent` needs that a sector is dropped from the cache before its
write is sent; `NoSilentExchange` needs that every path that makes another card
accessible sets `newCard`.

**The sector cache** (in `SdDiskProofs`, before `SdDisk`).  No sector is in two slots,
through every overflow of the counter (`CacheHasNoDuplicates`).  Until the counter wraps,
`SectorCache` implements `LruCache` (`CacheRefinesLru`; the run checks the same step
condition as `CacheIsLru`).  The invariant `Ordered` says that all
stamps differ and none is greater than the counter; with it a new stamp makes a slot the
youngest (`BecomesYoungest`, for a lookup and an addition alike), the slot to reuse is
the one whose sector comes before all others (`OldestSlot`), and there are fewer entries than slots
exactly when a slot is free (`EntriesCount`).  The hypothesis `CacheSize > 1` is
needed (the code has 8 slots, `cache.h:12`): a single slot with the stamp 2^32 - 1 is never chosen, and
`_libelmcache_add_to_cache` returns at its "ALGORITHM ERROR" (`cache.c:62`).

**Sdhc.** `TypeCorrect` and `ControllerIsReset` hold of every controller; that a
stopped controller has its error bit raised until the handler runs (`FailedInv`)
makes the latter inductive.  `SuccessCorrect` is about one without `quirks`: its
invariant `WorkInv` says for every state of the controller what the waiting main
loop may find.  Section 8 says what a late or busy controller does.

**Gecko.** Who owns the memory (`OwnerInv`), that what has arrived of an image is
there (`ImageInv`, for which the loader must not be at work in the same memory),
that what waits (`QueueInv`), what is half loaded (`LoadInv`) and what was started is
the owner's as a whole or belongs to somebody earlier (`PastInv`), and that an
owner who came alone has the main loop to itself (`AloneInv`).  While an image
arrives, what the main loop can still start is among `before` (`BeforeInv`): the slow
queue gets nothing new until the image is complete, and each thing the main loop takes was there.  The key lemma is
`OwnerStep`: a job that still belongs to the owner after a step has seen neither a
new owner nor a block arrive.  Proved: `TypeCorrect`, `MemoryIsOwned`,
`StartIsWhole` and `LeaveIsWhole`, which together are `RunsWholeCorrect`.

**PpcIrq.** A source belongs to one processor (`OwnersAreOne`) as long as no
read-modify-write of `ARMIRQMASK` was undone.  The invariant `Owners` says of a copy of the mask that is about to be
written that it is the mask (`ReadsAreFresh`), of a source between the two
processors who may have it (`Apart`), and of the sources the program has, that they are not the ARM's
(`NoneLost`, until a restart empties `PPCIRQMASK` and forgets them).  Most steps are `Quiet`: they touch
neither mask, which one lemma says for all of them.

**Aes.** `ReadsPlaintextAlways`, for any memory, lines, jobs and length of a command.  `DirtyInv`: a
line is dirty only in the cache of the program that has the job, only over its ciphertext, and only before
that cache is cleaned.  So the newest ciphertext (`Latest`) is in memory before the engine
reads, and what the bus holds back of it is no older (`CipherInv`).  The plaintext of
what is done is on the bus or in memory, and nothing that could be written back lies over it
(`PlainInv`); the lines it goes to have left the ARM's cache before the engine starts and
the PowerPC's before it reads (`Dropped`), so a fill comes from memory.  `WantInv` says that the
chaining vector of the engine is the one the next block is to be decrypted with, from one command to
the next too.  A job in place overwrites its own ciphertext: `Begun` separates the
blocks that are done from those that are not.

**Boot2.** `BootsWholeAlways`, for any chip, any number of blocks and pages, and any width of the counter.
`MapInv`: the map held is the best of those of the blocks looked at, and `BestIsNewest` makes of it what
the property calls the newest.  `ListInv`: each listed block belongs to the
copy and has the place of its number among the blocks of the copy (`PageOfCopy`).  `ReadInv`: the buffer has the
first `page_ptr` pages of the copy, all of them good; `page_ptr` goes on where
`pages_read` wraps, so that a copy longer than the counter counts is never found
loaded.  `PhaseInv` and `RunInv`: how far each phase has read, and that only a copy loaded as
a whole is patched and started.

**Sha1.** `HashesMessageAlways`, for messages of any length up to `MaxMessage` and blocks
and words of any size that fit each other (`Sha1Assumption`).  The invariant says of some number `p`, the cells
handed over by the calls before, which cells come now (`StageInv`), that all full blocks went to the
hardware and the rest is in the buffer or in the caller's data (`PlaceInv`), and
what the two words of the bit count are (`CountInv`).  The code finds its place in the buffer
from the low word alone: `Gathers` shows that this is right although the word wraps, since a word is
a multiple of a block.  `PaddedAt` shows that the loop of zeros ends at the first cell that
leaves room for the length, and `MessageBlocks` that the blocks are then those of the
padded message.

**NandFs.** `ReadsItsFileAlways`, for chips of any number of sound superblocks, with any tree of
nodes and any table of clusters, clusters of any size, and any paths, counts and
offsets (`NandFsAssumption`).  Lists of siblings may be cyclic: a list is the least
set that has its head and what follows (`Siblings`), and of a cyclic one the search may not end.  The
invariant `NandFsInv` has a part for each loop:

* `ScanInv`: the superblock in memory is the first of the best among the clusters read so far;
  `ChosenInv`: once `initialized`, it is the newest of the chip (`NewestIs`: there is one).
* `LookInv`: some nodes lead to the one looked at, name by name; and every file that has the path goes
  through the directories entered so far and through the rest of the list.  The second is what makes
  a failed search mean something, and where `Unambiguous` is needed: the code enters
  the first directory of a name and never goes back.  `FoundInv` is what remains of it after the call.
* `AnswerInv`: the bytes read and those to come are what was asked for, clipped to the file.
* `FileInv`: for a file the path leads to, what was read are its bytes (`Answers`), and
  `cur_cluster` follows the offset along its chain (`Following`); while `nandfs_seek` skips, it
  is as many clusters into the chain as were skipped (`Skipping`).  A seek that ends with a whole cluster to
  go would leave it one short, which is the exception that `straight` makes.

`Chain`, the table followed from a file's first cluster, is a recursive function: that
there is one (`LinkedExists`, `LinkedAgree`, `ChainFollows`) is an induction over sets of numbers.
`NextOffset` and `OffsetOf` are the arithmetic of clusters for every cluster size.

**UsbHost.** For any kinds of devices, any bounds on mishaps, key presses and
operations, and addresses of any modulus: `Typed`, `Owners` (`PacketsToOwner`),
`AliveKeyboard` (`KeyboardAlive`) and `NoticedChanges` (`ChangeNoticed`).  The local state of a routine
of the stack is what it has still to do, so the invariant `Inv` speaks of the items of jobs:

* `Jobs`: their order (`Ordered`), and what each item needs of the rest of the
  state (`FitsAt`): only the handler enumerates once interrupts are on, a device that is about to be
  listed has a struct that is alive and not in the list, the keyboard's driver is probed after it
  was registered.  `Registers`: as many registrations are left as there are drivers.
* `Counted`: structs in use, ports with a device nobody looked at, and devices in
  hand are together no more than one and the changes so far.  This is what gives `usb_add_device`
  a struct, and so what `TypeOK` needs; types alone are not inductive.
* `Alive`: a listed device has a struct that is alive, and the keyboard offered is
  alive and was found by the first driver.  `usb_remove_device` asks drivers in order, so the first
  one lets go of it before the struct is freed.
* `Noticed`: for each of the three places the two contexts can be in, who will look at a
  port that has changed: the interrupt that is pending, `hcdi_init`, or the handler.
* `Owned`: the endpoint descriptor and the TDs that are still to be enqueued
  are of one address and endpoint, and belong to the one context that is in a
  transfer (`Unshared`), as long as the handler interrupts none of the program's.  When it
  does, the descriptor is the program's again after each transfer of the handler (`Apart`):
  the controller empties it before the handler goes on.

Every action takes the head of a job away and puts fresh items in its place
(`Advances`); `OrderedSplice` says once what that does to the order, and `Follows` is what the
other invariants need to know of it.  `Filter`, the walk of `list_delete_element`, is a
recursive function: that it exists and keeps only what it should (`FilterKeeps`)
is an induction over sets of numbers, from the library's well-foundedness of `<`.

**UsbHostToggles.** `Agreement`: `TogglesAgree`, for any kinds of devices and any number of changes,
key presses and calls, under `Roomy`: more addresses than there can be enumerations.  That is
needed (section 8).  By itself `TogglesAgree` says nothing of a transfer that is under way, and
nothing of what could disturb one from outside: that another device answers in the disk's place,
or that the keyboard's packets go to a disk.  So the invariant `Wired` has five layers, each
preserved with the help of those before it:

* The program of an enumeration: `Shape` (a job that enumerates is `AddDevice` from some step on, and
  there is one such job), `Names` (addresses that were given are different, below
  `core.nextaddress`, and a device has one exactly from step 5 on), `Known` (what the lists, the drivers and
  the jobs refer to has an address; only what has an address has moved a toggle).
* The packets: `Flights` (each goes to an address that was given; SET_ADDRESS carries the next one,
  in step 3 only), `Wires` (a port that is not enabled has seen nothing).
* The bus, while nothing goes wrong (`Calm`: no error and no race): `Lines`.  No two devices answer
  to the same address (`Distinct`, the theorem `OneAnswers`); who answers to 0 is being enumerated, and who
  answers to the next address has had his SET_ADDRESS; a device without a valid address has never
  been sent a bulk packet (`Untouched`); a halted endpoint has nobody to answer it
  (`Dead`).  These depend on each other: address 0 is only free because the enumeration of the port
  before went as far as SET_ADDRESS, or its device is gone.
* What was heard: the answer to an enumeration comes from its device (`Heard`), so a struct that is
  taken for a keyboard is no disk (`Boards`), and interrupt packets go to no disk (`Keys`).
* The toggles: a bulk packet is alone (`Lone`), and until it is taken the toggle of the core is one
  ahead of the disk's, while the packet has the one that the disk waits for (`Toggles`).

`Flying`, the TDs of the endpoint followed by those that are not enqueued yet, makes
`hcdi_enqueue` and the polling stutters: `FlyingStep` says that only `usb_submit_irp`, the controller and
the end of `hcdi_fire` change it.

## 7. Model-checked only

* Liveness: `CallReturns`, `EveryRequestAnswered`, `ExecReturns`, `TimeoutIsDue`,
  `InterruptServed` and `HandlerEnds`.
* Of `StopsAtRestOrFlooded` the half that speaks of ENABLED (`GuardsSuffice`): that a step
  whose guard holds can be taken.  The other half is proved.
* What is computed by recursion over data: the FAT file system (`VolumeSound`, `SyncedSurvives`,
  `BootReads`), the allocator (`HeapKeeps`, `HeapFits`),
  `FormatsAlike`; and the refinement of `FileTree` (`Implements`).

## 8. Findings

* `NandRefusal`: `nand_ipc` sets `current_request` before `nand_write_page` and
  `nand_erase_block` refuse a protected page without starting anything
  (`mini/nand.c:210`, `231`).  From then on each NAND request is refused as if a
  request were in progress (`nand.c:297`).

What follows was seen while modelling.  The repository promises otherwise
nowhere, so there is no run against it; the models do what the code does, and
where a property needs a condition because of it, the property names it.

IPC and loaders:

* A reply for a program that was stopped may answer its successor's request with
  the same code and tag: `cur_tag` starts at 1 in both (`RepliesOfProgram` says that
  nothing else can).
* The conditions in `MemoryIsMine` (what the main loop had `before`), `StartsWhole` and
  `LeavesToWhole` (module `Gecko`) are needed: an upload that begins while the main loop has a program to load
  finds the PowerPC started under it (`gecko.c:334` against `powerpc_elf.c:211`), and
  its blocks mixed with those of the other.
* A transfer that begins so late that its deadline wraps is abandoned at once, and
  one whose deadline is the timer's last value never (`gecko.c:283`).
* A boot2 of 256 pages or more is read in a circle (`pages_read` is a `u8`,
  `boot2.c:98`); `main.c` runs boot2 although it failed to load; `BOOT2_RUN` is answered
  before the count of patches is found too large and the ARM panics.

NAND:

* `nand_irq` sets `err` to -1 when the controller reports that a read failed (`nand.c:67-70`), and
  replaces it by the verdict of `nand_correct` (`nand.c:84`), which compares ECC words in `ipc_ecc`
  with each other and knows nothing of the report.  If those are of an earlier page, or those an
  erased page has, the read is answered as good with whatever `ipc_data` holds, and
  the caller of `libbroadway/mini_ipc.c:111-120` takes it.  `RepliesTruthful` makes an exception of
  that reply; without it TLC finds the violation in seven steps.
* What `__nand_wait` sees of an error between commands is printed and not
  acted upon (`nand.c:112-119`).

SD:

* The wait of `sdhc_wait_intr_debug` ends at any bit of `intr_status`
  (`sdhc.c:698`): a command may be reported as timed out because its
  predecessor's busy signal ended.
* `intr_status &= ~status` (`sdhc.c:708`) is a load and a store; an interrupt between
  them is lost.
* `intr_status` is cleared before the driver waits for the end of the command
  before (`sdhc.c:435`): a transfer that outlasts its timeout then completes the next
  command.
* A sector of an exchanged card is served from the cache of `libdiskmii` after the
  new card was acknowledged (`diskio.c:129`).
* When the access counter of the cache wraps, slots with stamps near the maximum
  are not evicted for a whole turn of the counter.
* After a discovery that failed, `num_sectors` is still that of the card before.

FAT (`libdiskmii/ff.c` where nothing else is said):

* `f_truncate` keeps a dirty buffer of a cluster it has given back; a later flush
  writes it over another file's data (`ff.c:2402`, `1985`).  It also frees clusters
  on the card before the directory entry says so.
* Removing an open file, the current directory, or moving a directory into
  itself is not checked.
* A failed transfer in the middle of a call may lose a cluster (`create_chain` before
  it is linked), leave a window marked dirty (`put_fat`), or write 0xFFFFFFFF into
  `org_clust` (`f_write`).
* `f_rename` writes the new entry before it removes the old one; `dir_next` links a
  directory's new cluster before clearing it: the power may go between.
* Removing a file by its short name leaves its long-name entries behind.
* After `f_lseek` past the end the gap holds what the clusters held.
* The ARM's window is not read again when the PowerPC has written the same
  sector (`BootReads` excludes a load with a stale window), nor when the card was exchanged:
  mini's `disk_status` does not say so.

Libraries:

* `sbrk` answers 0 on failure (`malloc.c:453`), where its caller tests for `CMFAIL`, -1;
  the lines after it that would add a segment are never reached, and `sys_trim` gives nothing back.
  `calloc` checks its product for overflow, `independent_calloc` does not.
* `nandfs_read` answers `size*nmemb` also when it read less; a failed
  `nandfs_initialize` leaves `initialized` set; after a seek to a positive multiple of the
  cluster size the reader is one cluster behind (`nandfs.c:253`; `ReadsItsFile` is about
  files without such a seek).
* `libbroadway/printf.c`: `'` with a larger precision narrows the field, `%c` ignores
  its width, `%lld` takes 32 bits.
* `gfx_printf` uses `vsnprintf`'s result, which may exceed its buffer, as a length.
* The PowerPC's `aes_decrypt` invalidates the line after its buffer; lines of the
  destination that are dirty before are not written back first; the loops over
  cache lines count down from zero when there is none (`memory_asm.S:23`);
  `ahb_flush_from` gives up after a million looks.
* `strlcpy` never reports truncation; nothing in the repository calls SHA-1.

PowerPC interrupts and USB:

* `irq_disable` and `irq_enable` clear every pending flag; `irq_restore` enables
  interrupts whatever it is given; `irq_hw_disable` gives the ARM sources it never
  had; `irq_initialize`, `irq_shutdown` and a restart give none back.
* `ARMIRQMASK` is changed by both processors without a lock: one may undo the
  other's change (`raced`).
* The flag is acknowledged after the handler ran, and the button handler clears the flag
  `gpio_read` polls.
* `list_delete_element` drops the whole list when the first element goes, and
  compares the first 8 bytes only; `linked_walk` of `lists.h:20` has its result
  inverted, so that `linked_del` of a member does nothing.
* `usb_add_device` returns (void *)-1, which is stored like a device; a disk is entered
  again at each probe, and `massstorage[2]` never shrinks.
* The toggle of an interrupt endpoint is computed and not stored (`core.c:519`); the
  loop of a bulk transfer never reduces `restlength` (`core.c:463`).
* A device exchanged quickly keeps the structure of its predecessor; removing a
  hub calls a NULL function; a failed command of a disk is not noticed and its
  reply is polled for ever; `usb_storage_read_sector` sends the command and never
  reads.
* `core.nextaddress` is a `u8` that comes around (`core.c:71`), and nobody asks whether an address
  is still in use: after that a new device may share the address of an old one, or be told 0.
  With a counter of two values TLC finds `TogglesAgree` violated, hence the hypothesis
  `Roomy` of its proof.  The addresses of the model are those of the variable; an endpoint
  descriptor has seven bits for them (`OHCI_ENDPOINT_ADDRESS_MASK`), and the eighth would fall into the
  endpoint's number.
* The root hub's handler, interrupting a transfer of the program, appends to its
  endpoint descriptor: packets go to the wrong device, until the handler's transfer
  is over (`PacketsToOwner`).

## 9. Not modelled

* Whether the ARM's hardware interrupt flag (`mini/irq.c:66`, `87`) may be set again between
  the handler's work and its acknowledgement: the controller's behaviour is not
  documented here; the model acknowledges first, as `ipc_irq` does with the bell.
* Failures of `sdhc_host_reset`, and `intr_error_status` and `data_command`, which
  nothing reads.
* `SdDisk` takes it that a command reported as done is done; that is `SuccessIsOwn`
  of `Sdhc`, with its assumptions.
* The memory order of the two processors: the code places its cache flushes and
  barriers around each access that is a step of the model.  `Aes` is the exception,
  where caches and bus are the question.
* The bits of the NAND's ECC (an outcome in `Nand`), and the bit-banging of SEEPROM
  and OTP, which have no protocol with anyone else.
* FAT12, whose entries cross sectors; the code pages of `unicode.c`; `f_chdrive` (there
  is one volume); `syncobj.c` (`_FS_REENTRANT` is 0); `mspace_*`, which is not compiled.
* `libcereal` and `libbroadway/lists.c`, whose only user it is: an unfinished driver.
* The EHCI driver and `skeleton.c`, which are stubs, and the USB monitor, which prints.
* Strings, fonts, console, video, the page tables and the exception dump: straight
  code, or data, without a state that two steps share.
