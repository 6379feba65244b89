-------------------------------- MODULE Boot2 --------------------------------
(***************************************************************************)
(* The loader of boot2, mini/boot2.c.  The first LastBlock blocks of the   *)
(* NAND hold two copies of boot2, spread over the blocks a blockmap names; *)
(* the last page of each block holds three copies of a map.  The ARM loads *)
(* copy 0 or, when that fails, copy 1, and runs it when asked to, after    *)
(* changing the title it starts.  Sizes are in pages.                      *)
(*                                                                         *)
(* A chip is [maps : [block -> three maps], pages : [page -> its content]],*)
(* a map [generation, blocks : [block -> used by boot2]] or NoMap, and the *)
(* content of a page a record with good: the page can be corrected; on the *)
(* first page of a copy header: its sizes are the expected ones, and data: *)
(* where the content starts; on the page before that, that of the tmd,     *)
(* content: the pages of content, and menus: how often the title of the    *)
(* system menu occurs in it.                                               *)
(***************************************************************************)
EXTENDS Integers, Sequences, FiniteSets

CONSTANTS
    LastBlock,     \* BOOT2_END
    BlockPages,    \* BLOCK_SIZE
    CounterSize,   \* pages_read counts modulo this
    Chips,
    Menu, Titles   \* the title boot2 starts, and the ones asked for

Blocks == 1 .. LastBlock
NoMap == [generation |-> -1]
Map == [generation : Nat, blocks : [Blocks -> BOOLEAN]] \cup {NoMap}
NoPage == [good |-> FALSE, header |-> FALSE, data |-> 1, content |-> 0, menus |-> 0]
NoReply == -2
NoImage == [title |-> Menu, count |-> 0]

(* The content starts behind the page of the tmd. *)
ASSUME Boot2Assumption ==
    /\ LastBlock \in Nat \ {0} /\ BlockPages \in Nat \ {0} /\ CounterSize \in Nat \ {0}
    /\ \A chip \in Chips :
          /\ chip.maps \in [Blocks -> [1 .. 3 -> Map]]
          /\ DOMAIN chip.pages = BlockPages .. (LastBlock + 1) * BlockPages - 1
          /\ \A p \in DOMAIN chip.pages :
                chip.pages[p].data \in Nat \ {0} /\ chip.pages[p].content \in Nat

VARIABLES
    chip,
    copy,          \* the copy boot2_load loads
    phase,         \* how far it is: start, scan, list, header, data, content; idle
    block,         \* the block its loops are at
    target,        \* the pages it reads up to
    good_blockmap,
    boot2_blocks,  \* the list of blocks (valid_blocks is its length)
    pages_read,
    boot2,         \* the buffer
    page_ptr,      \* and where the next page goes
    boot2_initialized,
    image,         \* what was decrypted to be run: its title, how often
    reply,         \* the answer to BOOT2_RUN: -1, the copy
    vector         \* what main jumps to

boot2Vars == <<chip, copy, phase, block, target, good_blockmap, boot2_blocks, pages_read,
               boot2, page_ptr, boot2_initialized, image, reply, vector>>
loadVars == <<block, target, good_blockmap, boot2_blocks, pages_read, boot2, page_ptr>>

Boot2Init ==
    /\ chip \in Chips
    /\ copy = 0 /\ phase = "start" /\ block = 1
    /\ target = 0
    /\ good_blockmap = NoMap
    /\ boot2_blocks = <<>>
    /\ pages_read = 0
    /\ boot2 = [p \in 0 .. CounterSize - 1 |-> NoPage]
    /\ page_ptr = 0
    /\ boot2_initialized = FALSE
    /\ image = NoImage /\ reply = NoReply /\ vector = "none"

-----------------------------------------------------------------------------
(* Two of the three maps of a block that are equal and have the signature. *)
find_valid_map(maps) ==
    CASE maps[1] # NoMap /\ maps[1] \in {maps[2], maps[3]} -> maps[1]
      [] maps[2] # NoMap /\ maps[2] = maps[3] -> maps[2]
      [] OTHER -> NoMap

(* Of two valid maps that of the higher generation, else the later one. *)
Best(best, map) ==
    IF map # NoMap /\ map.generation >= (IF best = NoMap THEN 0 ELSE best.generation) THEN map ELSE best

boot2_page_translate(page) == (boot2_blocks[page \div BlockPages + 1] * BlockPages) + (page % BlockPages)

(* boot2_load failed: boot2_init tries the other copy, once. *)
Fail ==
    /\ IF copy = 0 THEN copy' = 1 /\ phase' = "start" ELSE phase' = "idle" /\ UNCHANGED copy
    /\ UNCHANGED <<boot2_initialized, image, reply, vector, chip>>

(* Faulty variant: the counter of pages is reset once, not for each copy. *)
Load_once ==
    /\ phase = "start"
    /\ phase' = "scan" /\ block' = 1
    /\ good_blockmap' = NoMap /\ boot2_blocks' = <<>>
    /\ UNCHANGED <<chip, copy, pages_read, target, boot2, page_ptr, boot2_initialized, image, reply, vector>>
Load ==
    /\ phase = "start"
    /\ phase' = "scan" /\ block' = 1
    /\ good_blockmap' = NoMap /\ boot2_blocks' = <<>>
    /\ pages_read' = 0
    /\ UNCHANGED <<chip, copy, target, boot2, page_ptr, boot2_initialized, image, reply, vector>>

(* The maps of one block after the other. *)
ReadMaps ==
    /\ phase = "scan" /\ block <= LastBlock
    /\ good_blockmap' = Best(good_blockmap, find_valid_map(chip.maps[block]))
    /\ block' = block + 1
    /\ UNCHANGED <<chip, copy, phase, target, boot2_blocks, pages_read, boot2, page_ptr, boot2_initialized, image, reply, vector>>
MapsRead ==
    /\ phase = "scan" /\ block > LastBlock
    /\ IF good_blockmap = NoMap THEN Fail /\ UNCHANGED loadVars
       ELSE /\ phase' = "list"
            /\ block' = IF copy = 0 THEN 1 ELSE LastBlock
            /\ UNCHANGED <<chip, copy, target, good_blockmap, boot2_blocks, pages_read, boot2, page_ptr, boot2_initialized, image, reply, vector>>

(* The blocks of copy 0 lie upwards, those of copy 1 downwards. *)
ListBlock ==
    /\ phase = "list" /\ block \in Blocks
    /\ boot2_blocks' = IF good_blockmap.blocks[block] THEN Append(boot2_blocks, block) ELSE boot2_blocks
    /\ block' = IF copy = 0 THEN block + 1 ELSE block - 1
    /\ UNCHANGED <<chip, copy, phase, target, good_blockmap, pages_read, boot2, page_ptr, boot2_initialized, image, reply, vector>>
Listed ==
    /\ phase = "list" /\ block \notin Blocks
    /\ phase' = "header" /\ target' = 1
    /\ page_ptr' = 0
    /\ UNCHANGED <<chip, copy, block, good_blockmap, boot2_blocks, pages_read, boot2, boot2_initialized, image, reply, vector>>

(* read_to: one page, unless there are not that many or it is lost. *)
Loading == phase \in {"header", "data", "content"}
TooFar == target > Len(boot2_blocks) * BlockPages
ReadPage ==
    /\ Loading /\ ~TooFar /\ target > pages_read
    /\ LET content == chip.pages[boot2_page_translate(pages_read)] IN
       IF content.good
       THEN /\ boot2' = [boot2 EXCEPT ![page_ptr] = content]
            /\ page_ptr' = page_ptr + 1
            /\ pages_read' = (pages_read + 1) % CounterSize
            /\ UNCHANGED <<chip, copy, phase, block, target, good_blockmap, boot2_blocks, boot2_initialized, image, reply, vector>>
       ELSE Fail /\ UNCHANGED loadVars
PastEnd == Loading /\ TooFar /\ Fail /\ UNCHANGED loadVars

(* What was read says how far to go on. *)
Arrived == Loading /\ ~TooFar /\ target <= pages_read
GoOn(next, upTo) ==
    /\ phase' = next
    /\ target' = upTo
    /\ UNCHANGED <<chip, copy, block, good_blockmap, boot2_blocks, pages_read, boot2, page_ptr, boot2_initialized, image, reply, vector>>
HeaderRead ==
    /\ Arrived /\ phase = "header"
    /\ IF boot2[0].header THEN GoOn("data", boot2[0].data) ELSE Fail /\ UNCHANGED loadVars
DataRead ==
    /\ Arrived /\ phase = "data"
    /\ GoOn("content", boot2[0].data + boot2[boot2[0].data - 1].content)
ContentRead ==
    /\ Arrived /\ phase = "content"
    /\ phase' = "idle"
    /\ boot2_initialized' = TRUE
    /\ UNCHANGED <<chip, copy, image, reply, vector, loadVars>>

-----------------------------------------------------------------------------
(* boot2_run: the content is decrypted anew and its one title replaced.    *)
(* After a failed load main runs it all the same, with nothing decrypted.  *)

boot2_run(title) ==
    /\ image' = [title |-> title, count |-> boot2[boot2[0].data - 1].menus]
    /\ vector' = IF title = Menu \/ image'.count = 1 THEN "boot2" ELSE "panic"

boot2_ipc(title) ==
    /\ phase = "idle" /\ vector = "none"
    /\ IF boot2_initialized THEN reply' = copy /\ boot2_run(title)
       ELSE reply' = -1 /\ UNCHANGED <<image, vector>>
    /\ UNCHANGED <<chip, copy, phase, boot2_initialized, loadVars>>

(* main, when there is no program for the PowerPC. *)
BootMenu ==
    /\ phase = "idle" /\ vector = "none" /\ reply = NoReply
    /\ IF boot2_initialized THEN boot2_run(Menu) ELSE image' = NoImage /\ vector' = "stray"
    /\ UNCHANGED <<chip, copy, phase, boot2_initialized, reply, loadVars>>

Boot2Next ==
    \/ Load \/ ReadMaps \/ MapsRead \/ ListBlock \/ Listed
    \/ ReadPage \/ PastEnd \/ HeaderRead \/ DataRead \/ ContentRead
    \/ \E title \in Titles : boot2_ipc(title)
    \/ BootMenu

Boot2Spec == Boot2Init /\ [][Boot2Next]_boot2Vars

-----------------------------------------------------------------------------
(* A loaded boot2 is one whole copy, the pages of its blocks in order and  *)
(* none that could not be corrected, by the newest map two of three copies *)
(* agree on, whatever was read of the other copy before; and it starts one *)
(* title, the one asked for, or nothing starts.                            *)
Agreed == {chip.maps[b][i] : b \in Blocks, i \in 1 .. 3} \ {NoMap}
Valid(b) == {map \in Agreed : Cardinality({i \in 1 .. 3 : chip.maps[b][i] = map}) >= 2}
NewestMaps ==
    {map \in UNION {Valid(b) : b \in Blocks} :
        \A b \in Blocks : \A other \in Valid(b) : other.generation <= map.generation}
(* Block b is the n-th of the copy when n - 1 blocks in use come before it. *)
Before(map, b) == {d \in Blocks : map.blocks[d] /\ IF copy = 0 THEN d < b ELSE d > b}
PageOf(map, page) ==
    CHOOSE p \in DOMAIN chip.pages :
        /\ map.blocks[p \div BlockPages] /\ p % BlockPages = page % BlockPages
        /\ Cardinality(Before(map, p \div BlockPages)) = page \div BlockPages
BootsWhole ==
    /\ boot2_initialized =>
          LET size == boot2[0].data + boot2[boot2[0].data - 1].content IN
          \E map \in NewestMaps : \A page \in 0 .. size - 1 :
              boot2[page] = chip.pages[PageOf(map, page)] /\ boot2[page].good
    /\ vector = "boot2" => boot2_initialized /\ reply \in {NoReply, copy}
    /\ vector = "boot2" /\ image.title # Menu => image.count = 1

=============================================================================
