---------------------------- MODULE SectorCache ----------------------------
(***************************************************************************)
(* The sector cache of the PowerPC's disk layer (libdiskmii/cache.c).      *)
(*                                                                         *)
(* Each slot has a stamp, taken from a counter at every use; the slot with *)
(* the least stamp is the one to reuse.  There is one drive with a cache   *)
(* (ELM_SD), so the drive number is left out.                              *)
(***************************************************************************)
EXTENDS Integers, FiniteSets, SequencesExt

CONSTANTS
    CacheSize,   \* CACHE_SIZE, cache.h:12
    StampMod,    \* 2^32: a stamp is a u32
    Sectors,     \* sector numbers
    Data,        \* what a sector holds
    MaxAccess,   \* bound: stamps given out (StampMod: no bound)
    None         \* the slot is not valid

ASSUME CacheAssumption ==
    /\ CacheSize \in Nat \ {0}
    /\ StampMod \in Nat \ {0, 1}
    /\ Sectors \subseteq Nat

VARIABLES
    cache,           \* _cache
    accessCounter

cacheVars == <<cache, accessCounter>>

Slots == 0 .. CacheSize - 1
Stamps == 0 .. StampMod - 1
Cached == [sector : Sectors, data : Data, stamp : Stamps]

ASSUME NoCachedAssumption == None \notin Cached

CacheInit ==
    /\ cache = [i \in Slots |-> None]
    /\ accessCounter = 0

(* The slots that hold the sector s. *)
Holding(s) == {i \in Slots : cache[i] # None /\ cache[i].sector = s}

Least(S) == CHOOSE i \in S : \A j \in S : i <= j

(* stamp() *)
NextStamp == (accessCounter + 1) % StampMod

(* Faulty variant: a sector that is read does not get younger. *)
ReadFromCacheStale(s) ==
    /\ Holding(s) # {}
    /\ accessCounter' = NextStamp
    /\ UNCHANGED cache

(* _libelmcache_read_from_cache, when it finds the sector. *)
ReadFromCache(s) ==
    /\ Holding(s) # {}
    /\ cache' = [cache EXCEPT ![Least(Holding(s))].stamp = NextStamp]
    /\ accessCounter' = NextStamp

Free == {i \in Slots : cache[i] = None}

(* Slots that may be the oldest: a slot with the greatest stamp never is. *)
Aged == {i \in Slots : cache[i] # None /\ cache[i].stamp < StampMod - 1}

Oldest == {i \in Aged : \A j \in Aged : cache[i].stamp <= cache[j].stamp}

(* _libelmcache_add_to_cache *)
AddToCache(s, d) ==
    IF Free = {} /\ Aged = {}
    THEN UNCHANGED cacheVars
    ELSE LET i == IF Free # {} THEN Least(Free) ELSE Least(Oldest)
         IN /\ cache' = [cache EXCEPT ![i] = [sector |-> s, data |-> d, stamp |-> NextStamp]]
            /\ accessCounter' = NextStamp

InRange(s, first, count) == first <= s /\ s < first + count

(* _libelmcache_invalidate_cache *)
InvalidateCache(first, count) ==
    /\ cache' = [i \in Slots |->
                    IF cache[i] # None /\ InRange(cache[i].sector, first, count)
                    THEN None ELSE cache[i]]
    /\ UNCHANGED accessCounter

-----------------------------------------------------------------------------
(* The cache by itself, used as SD_disk_read and SD_disk_write use it. *)
Lookup(s) == accessCounter < MaxAccess /\ ReadFromCache(s)

(* Faulty variant: added without looking first. *)
FillAlways(s, d) == accessCounter < MaxAccess /\ AddToCache(s, d)

(* A sector is added only after it was not found. *)
Fill(s, d) == accessCounter < MaxAccess /\ Holding(s) = {} /\ AddToCache(s, d)

Forget == \E first \in Sectors, count \in 1 .. 2 : InvalidateCache(first, count)

CacheNext ==
    \/ \E s \in Sectors : Lookup(s) \/ \E d \in Data : Fill(s, d)
    \/ Forget

CacheSpec == CacheInit /\ [][CacheNext]_cacheVars

-----------------------------------------------------------------------------
(* Every variable has the type its declaration in cache.c gives it. *)
CacheTypeOK ==
    /\ cache \in [Slots -> Cached \cup {None}]
    /\ accessCounter \in Stamps

(***************************************************************************)
(* A sector is in one slot at most (else the second one would be served    *)
(* when the first is reused), whatever the stamps do when they wrap.       *)
(***************************************************************************)
NoDuplicates == \A s \in Sectors : \A i, j \in Holding(s) : i = j
=============================================================================
