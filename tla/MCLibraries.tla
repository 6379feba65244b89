---------------------------- MODULE MCLibraries ----------------------------
(***************************************************************************)
(* The libraries that no other part of the model calls, side by side: a    *)
(* behaviour is one of one of them (which), and the variables of the       *)
(* others are off.  Each is a program of its own that runs to completion;  *)
(* nothing they have in common is left out by keeping them apart.          *)
(***************************************************************************)
EXTENDS Heap, NandFs, Boot2, Aes, Sha1

CONSTANTS
    CharBits, ShortBits, IntBits, Requests,                        \* Printf
    CacheSize, StampMod, Sectors, Data, MaxAccess, Empty           \* SectorCache

VARIABLES which,
    request, format, args, str, len, state, flags, width, precision, cflags,
    field, stored, result,
    slots, accessCounter, asked, wrapped

printfVars == <<request, format, args, str, len, state, flags,
                width, precision, cflags, field, stored, result>>
cacheVars == <<slots, accessCounter, asked, wrapped>>

P == INSTANCE Printf
C == INSTANCE MCSectorCache WITH cache <- slots, None <- Empty

Inputs == INSTANCE LibraryInputs
MCCallers == Inputs!MCCallers
MCImages == Inputs!MCImages
MCPaths == Inputs!MCPaths
MCOffsets == Inputs!MCOffsets
MCChips == Inputs!MCChips
MCRequests == Inputs!MCRequests
MCJobs == Inputs!MCJobs

HeapOff ==
    /\ heap = "off" /\ live = "off" /\ caller = "off" /\ made = "off"
NandfsOff ==
    /\ nand = "off" /\ sffs = "off" /\ initialized = FALSE /\ fp = "off"
    /\ call = "off" /\ todo = "off" /\ cur = "off" /\ names = "off"
    /\ path = "off" /\ straight = "off" /\ answer = "off" /\ nfCalls = "off"
Boot2Off ==
    /\ chip = "off" /\ copy = "off" /\ phase = "off" /\ block = "off" /\ target = "off"
    /\ good_blockmap = "off" /\ boot2_blocks = "off" /\ pages_read = "off"
    /\ boot2 = "off" /\ page_ptr = "off" /\ boot2_initialized = FALSE
    /\ image = "off" /\ reply = "off" /\ vector = "off"
PrintfOff ==
    /\ request = "off" /\ format = "off" /\ args = "off" /\ str = "off"
    /\ len = "off" /\ state = "off" /\ flags = "off" /\ width = "off"
    /\ precision = "off" /\ cflags = "off" /\ field = "off" /\ stored = "off"
    /\ result = "off"
AesOff ==
    /\ mem = "off" /\ cache = "off" /\ engine = "off" /\ bus = "off"
    /\ jobs = "off" /\ pc = "off" /\ at = "off" /\ want = "off"
Sha1Off ==
    /\ message = "off" /\ context = "off" /\ data = "off" /\ used = "off"
    /\ stage = "off" /\ finalcount = "off" /\ digest = "off"
CacheOff ==
    /\ slots = "off" /\ accessCounter = "off" /\ asked = "off"
    /\ wrapped = "off"

-----------------------------------------------------------------------------
Init ==
    \/ /\ which = "heap" /\ HeapInit
       /\ NandfsOff /\ Boot2Off /\ PrintfOff /\ AesOff /\ Sha1Off /\ CacheOff
    \/ /\ which = "nandfs" /\ NandFsInit
       /\ HeapOff /\ Boot2Off /\ PrintfOff /\ AesOff /\ Sha1Off /\ CacheOff
    \/ /\ which = "boot2" /\ Boot2Init
       /\ HeapOff /\ NandfsOff /\ PrintfOff /\ AesOff /\ Sha1Off /\ CacheOff
    \/ /\ which = "printf" /\ P!PrintfInit
       /\ HeapOff /\ NandfsOff /\ Boot2Off /\ AesOff /\ Sha1Off /\ CacheOff
    \/ /\ which = "aes" /\ AesInit
       /\ HeapOff /\ NandfsOff /\ Boot2Off /\ PrintfOff /\ Sha1Off /\ CacheOff
    \/ /\ which = "sha1" /\ Sha1Init
       /\ HeapOff /\ NandfsOff /\ Boot2Off /\ PrintfOff /\ AesOff /\ CacheOff
    \/ /\ which = "cache" /\ C!HInit
       /\ HeapOff /\ NandfsOff /\ Boot2Off /\ PrintfOff /\ AesOff /\ Sha1Off

(* A step of the library that runs; the variables of the others stay off. *)
HeapStep ==
    /\ which = "heap" /\ HeapNext
    /\ UNCHANGED <<which, nandfsVars, boot2Vars, printfVars, aesVars, sha1Vars, cacheVars>>
NandfsStep ==
    /\ which = "nandfs" /\ NandFsNext
    /\ UNCHANGED <<which, heapVars, boot2Vars, printfVars, aesVars, sha1Vars, cacheVars>>
Boot2Step ==
    /\ which = "boot2" /\ Boot2Next
    /\ UNCHANGED <<which, heapVars, nandfsVars, printfVars, aesVars, sha1Vars, cacheVars>>
PrintfStep ==
    /\ which = "printf" /\ P!PrintfNext
    /\ UNCHANGED <<which, heapVars, nandfsVars, boot2Vars, aesVars, sha1Vars, cacheVars>>
AesStep ==
    /\ which = "aes" /\ AesNext
    /\ UNCHANGED <<which, heapVars, nandfsVars, boot2Vars, printfVars, sha1Vars, cacheVars>>
Sha1Step ==
    /\ which = "sha1" /\ Sha1Next
    /\ UNCHANGED <<which, heapVars, nandfsVars, boot2Vars, printfVars, aesVars, cacheVars>>
CacheStep ==
    /\ which = "cache" /\ C!HNext
    /\ UNCHANGED <<which, heapVars, nandfsVars, boot2Vars, printfVars, aesVars, sha1Vars>>

Next == HeapStep \/ NandfsStep \/ Boot2Step \/ PrintfStep \/ AesStep \/ Sha1Step \/ CacheStep

vars == <<which, heapVars, nandfsVars, boot2Vars, printfVars, aesVars, sha1Vars, cacheVars>>

Spec == Init /\ [][Next]_vars

-----------------------------------------------------------------------------
(* The chunks, bins and the tree of malloc are what do_check_malloc_state  *)
(* asks for, and no step of it touches a block the program still has.      *)
HeapKeeps == which = "heap" => HeapSound /\ BlocksIntact

(* A tree bin finds the smallest chunk that fits (Heap!TreesFindBest). *)
HeapFits == which = "heap" => TreesFindBest

(* The formatters of both processors print the same text as far as they   *)
(* share the directive, and stay inside the buffer (Printf!PrintsAlike).   *)
FormatsAlike == which = "printf" => P!PrintsAlike

(* Until its counter wraps the sector cache is an LRU cache: its steps are *)
(* steps of LruCache (MCSectorCache!IsLru).                                *)
CacheIsLru ==
    /\ which = "cache" => C!Lru!Init
    /\ [][which = "cache" => wrapped' \/ [C!Lru!Next]_(C!Lru!lruVars)]_(cacheVars)
=============================================================================
