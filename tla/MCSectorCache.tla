---------------------------- MODULE MCSectorCache ---------------------------
(* SectorCache with history variables: the sector that was asked for last, *)
(* and whether the counter has wrapped.                                    *)
EXTENDS SectorCache

VARIABLES asked, wrapped

historyVars == <<cacheVars, asked, wrapped>>

HInit == CacheInit /\ asked = None /\ wrapped = FALSE

HNext ==
    /\ \/ \E s \in Sectors : (Lookup(s) \/ \E d \in Data : Fill(s, d)) /\ asked' = s
       \/ Forget /\ UNCHANGED asked
    /\ wrapped' = (wrapped \/ accessCounter' < accessCounter)

HSpec == HInit /\ [][HNext]_historyVars

-----------------------------------------------------------------------------
(* The slots and the order of their stamps, as the entries of LruCache. *)
Valids == {i \in Slots : cache[i] # None}

Entries == {[sector |-> cache[i].sector, data |-> cache[i].data] : i \in Valids}

Order == {<<cache[p[1]].sector, cache[p[2]].sector>> :
            p \in {q \in Valids \X Valids : cache[q[1]].stamp < cache[q[2]].stamp}}

Lru == INSTANCE LruCache
          WITH Capacity <- CacheSize, Entry <- [sector : Sectors, data : Data],
               held <- Entries, before <- Order

(***************************************************************************)
(* Until the counter wraps the cache is an LRU cache: every step of it is  *)
(* one of LruCache, and a lookup or an addition makes the sector that was  *)
(* asked for the youngest.                                                 *)
(***************************************************************************)
IsLru == Lru!Init /\ [][wrapped' \/ [Lru!Next]_(Lru!lruVars)]_historyVars
=============================================================================
