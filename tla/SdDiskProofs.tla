---------------------------- MODULE SdDiskProofs ----------------------------
(***************************************************************************)
(* Proofs about SectorCache and SdDisk, for caches of every size, counters *)
(* of every width, and any number of sectors and cards; and that           *)
(* SectorCache, with the history of MCSectorCache, implements LruCache.    *)
(***************************************************************************)
EXTENDS SdDisk, MCSectorCache, FiniteSetTheorems, TLAPS

-----------------------------------------------------------------------------
(* The counter stays a stamp when it wraps. *)
LEMMA NextStampType ==
    ASSUME accessCounter \in Stamps PROVE NextStamp \in Stamps
BY CacheAssumption DEF NextStamp, Stamps

CacheInv == CacheTypeOK /\ NoDuplicates

LEMMA CacheInitInv == CacheInit => CacheInv
BY CacheAssumption DEF CacheInit, CacheInv, CacheTypeOK, NoDuplicates, Holding, Stamps

(* What a slot holds after a sector was found: the same. *)
LEMMA ReadKeeps ==
    ASSUME CacheInv, NEW s \in Sectors, ReadFromCache(s)
    PROVE  /\ CacheInv'
           /\ \A i \in Slots : /\ (cache'[i] = None) = (cache[i] = None)
                               /\ cache[i] # None => /\ cache'[i].sector = cache[i].sector
                                                     /\ cache'[i].data = cache[i].data
<1> DEFINE i == Least(Holding(s))
<1>1. i \in Holding(s)
  <2>1. PICK k \in Holding(s) : TRUE
    BY DEF ReadFromCache
  <2>2. \A j \in Holding(s) : k <= j
    BY CacheAssumption DEF CacheInv, NoDuplicates, Holding, Slots
  <2>3. QED
    BY <2>1, <2>2 DEF Least
<1>2. i \in Slots /\ cache[i] \in Cached
  BY <1>1 DEF Holding, CacheInv, CacheTypeOK
<1>3. cache' = [cache EXCEPT ![i].stamp = NextStamp] /\ accessCounter' = NextStamp
  BY DEF ReadFromCache
<1> HIDE DEF i
<1>4. NextStamp \in Stamps
  BY NextStampType DEF CacheInv, CacheTypeOK
<1>5. cache'[i] = [cache[i] EXCEPT !.stamp = NextStamp] /\ cache'[i] \in Cached
  BY <1>2, <1>3, <1>4 DEF CacheInv, CacheTypeOK, Cached
<1>6. \A j \in Slots : j # i => cache'[j] = cache[j]
  BY <1>3 DEF CacheInv, CacheTypeOK
<1>7. \A j \in Slots : /\ (cache'[j] = None) = (cache[j] = None)
                       /\ cache[j] # None => /\ cache'[j].sector = cache[j].sector
                                             /\ cache'[j].data = cache[j].data
  BY <1>2, <1>5, <1>6, NoCachedAssumption DEF Cached, CacheInv, CacheTypeOK
<1>8. CacheTypeOK'
  BY <1>2, <1>3, <1>4, <1>5 DEF CacheInv, CacheTypeOK
<1>9. NoDuplicates'
  BY <1>7 DEF CacheInv, NoDuplicates, Holding
<1>10. QED
  BY <1>7, <1>8, <1>9 DEF CacheInv

(* A sector that is added is the only change. *)
LEMMA AddChangesOne ==
    ASSUME CacheInv, NEW s \in Sectors, NEW d \in Data, Holding(s) = {}, AddToCache(s, d)
    PROVE  /\ CacheInv'
           /\ \A i \in Slots : cache'[i] # None =>
                 cache'[i] = cache[i] \/ (cache'[i].sector = s /\ cache'[i].data = d)
<1>1. CASE UNCHANGED cacheVars
  BY <1>1 DEF CacheInv, CacheTypeOK, NoDuplicates, Holding, cacheVars
<1>2. CASE \E i : /\ cache' = [cache EXCEPT ![i] = [sector |-> s, data |-> d, stamp |-> NextStamp]]
                  /\ accessCounter' = NextStamp
  <2>1. PICK i : /\ cache' = [cache EXCEPT ![i] = [sector |-> s, data |-> d, stamp |-> NextStamp]]
                 /\ accessCounter' = NextStamp
    BY <1>2
  <2> DEFINE new == [sector |-> s, data |-> d, stamp |-> NextStamp]
  <2>2. NextStamp \in Stamps /\ new \in Cached
    BY NextStampType DEF CacheInv, CacheTypeOK, Cached
  <2>3. new.sector = s /\ new.data = d
    OBVIOUS
  <2> HIDE DEF new
  <2>4. \A j \in Slots : cache'[j] = IF j = i THEN new ELSE cache[j]
    BY <2>1 DEF CacheInv, CacheTypeOK, new
  <2>5. CacheTypeOK'
    BY <2>1, <2>2 DEF CacheInv, CacheTypeOK, new
  <2>6. NoDuplicates'
    BY <2>2, <2>3, <2>4 DEF CacheInv, NoDuplicates, Holding
  <2>7. QED
    BY <2>3, <2>4, <2>5, <2>6 DEF CacheInv
<1>3. QED
  BY <1>1, <1>2 DEF AddToCache

(* Sectors are forgotten, and nothing else happens. *)
LEMMA InvalidateForgets ==
    ASSUME CacheInv, NEW first \in Nat, NEW count \in Nat, InvalidateCache(first, count)
    PROVE  /\ CacheInv'
           /\ \A i \in Slots : cache'[i] # None =>
                 cache'[i] = cache[i] /\ ~InRange(cache[i].sector, first, count)
<1>1. \A i \in Slots : cache'[i] # None =>
         cache'[i] = cache[i] /\ ~InRange(cache[i].sector, first, count)
  BY DEF InvalidateCache
<1>2. CacheTypeOK'
  BY DEF InvalidateCache, CacheInv, CacheTypeOK
<1>3. NoDuplicates'
  BY <1>1 DEF CacheInv, NoDuplicates, Holding
<1>4. QED
  BY <1>1, <1>2, <1>3 DEF CacheInv

LEMMA CacheStep == CacheInv /\ [CacheNext]_cacheVars => CacheInv'
<1> SUFFICES ASSUME CacheInv, [CacheNext]_cacheVars PROVE CacheInv'
  OBVIOUS
<1>1. ASSUME NEW s \in Sectors, Lookup(s) PROVE CacheInv'
  BY <1>1, ReadKeeps DEF Lookup
<1>2. ASSUME NEW s \in Sectors, NEW d \in Data, Fill(s, d) PROVE CacheInv'
  BY <1>2, AddChangesOne DEF Fill
<1>3. CASE Forget
  <2>1. PICK first \in Sectors, count \in 1 .. 2 : InvalidateCache(first, count)
    BY <1>3 DEF Forget
  <2>2. first \in Nat /\ count \in Nat
    BY CacheAssumption
  <2>3. QED
    BY <2>1, <2>2, InvalidateForgets
<1>4. CASE UNCHANGED cacheVars
  BY <1>4 DEF CacheInv, CacheTypeOK, NoDuplicates, Holding, cacheVars
<1>5. QED
  BY <1>1, <1>2, <1>3, <1>4 DEF CacheNext

(***************************************************************************)
(* A sector is never in two slots (cache.c, used as diskio.c uses it), for *)
(* caches of every size and through every overflow of the counter.         *)
(***************************************************************************)
THEOREM CacheHasNoDuplicates == CacheSpec => []NoDuplicates
<1>1. CacheInv => NoDuplicates
  BY DEF CacheInv
<1>2. QED
  BY <1>1, CacheInitInv, CacheStep, PTL DEF CacheSpec

-----------------------------------------------------------------------------
(***************************************************************************)
(* The stamps order the slots as LruCache does, until the counter wraps.   *)
(***************************************************************************)
Ordered == \A i \in Valids : /\ cache[i].stamp <= accessCounter
                             /\ \A j \in Valids : cache[i].stamp = cache[j].stamp => i = j

LruInv == CacheInv /\ wrapped \in BOOLEAN /\ (wrapped \/ Ordered)

(* A use that does not wrap the counter gives out a stamp that is new. *)
LEMMA StampGrows ==
    ASSUME accessCounter \in Stamps, ~(NextStamp < accessCounter)
    PROVE  NextStamp = accessCounter + 1 /\ accessCounter + 1 < StampMod
<1>1. CASE accessCounter + 1 < StampMod
  BY <1>1, CacheAssumption DEF NextStamp, Stamps
<1>2. CASE accessCounter + 1 = StampMod
  <2>1. NextStamp = 0
    BY <1>2, CacheAssumption DEF NextStamp
  <2>2. QED
    BY <1>2, <2>1, CacheAssumption DEF Stamps
<1>3. QED
  BY <1>1, <1>2, CacheAssumption DEF Stamps

(* What a valid slot holds. *)
LEMMA ValidFields ==
    ASSUME CacheInv, NEW i \in Valids
    PROVE  /\ i \in Slots /\ cache[i] \in Cached
           /\ cache[i].sector \in Sectors /\ cache[i].data \in Data /\ cache[i].stamp \in Stamps
           /\ \A j \in Valids : cache[i].sector = cache[j].sector => i = j
<1>1. i \in Slots /\ cache[i] \in Cached
  BY DEF CacheInv, CacheTypeOK, Valids
<1>2. cache[i].sector \in Sectors /\ cache[i].data \in Data /\ cache[i].stamp \in Stamps
  BY <1>1 DEF Cached
<1>3. QED
  BY <1>1, <1>2 DEF CacheInv, NoDuplicates, Holding, Valids

(* The sectors of the entries are those of the valid slots. *)
LEMMA EntrySectors == Lru!SectorsIn(Entries) = {cache[i].sector : i \in Valids}
<1>1. \A i \in Valids : [sector |-> cache[i].sector, data |-> cache[i].data].sector = cache[i].sector
  OBVIOUS
<1>2. ASSUME NEW s PROVE s \in Lru!SectorsIn(Entries) <=> \E i \in Valids : s = cache[i].sector
  BY <1>1 DEF Lru!SectorsIn, Entries
<1>3. QED
  BY <1>2

(* Which sector comes before which. *)
ByStamps ==
    /\ \A p \in Order : p = <<p[1], p[2]>>
    /\ \A s, t : <<s, t>> \in Order <=>
          \E i, j \in Valids : cache[i].sector = s /\ cache[j].sector = t /\ cache[i].stamp < cache[j].stamp

LEMMA InOrder == ByStamps
<1>1. \A i, j \in Valids : <<i, j>>[1] = i /\ <<i, j>>[2] = j
  OBVIOUS
<1>2. ASSUME NEW p \in Order PROVE p = <<p[1], p[2]>>
  BY DEF Order
<1>3. ASSUME NEW s, NEW t, NEW i \in Valids, NEW j \in Valids,
             cache[i].sector = s, cache[j].sector = t, cache[i].stamp < cache[j].stamp
      PROVE  <<s, t>> \in Order
  <2>1. <<i, j>> \in {q \in Valids \X Valids : cache[q[1]].stamp < cache[q[2]].stamp}
    BY <1>3
  <2>2. <<s, t>> = <<cache[<<i, j>>[1]].sector, cache[<<i, j>>[2]].sector>>
    BY <1>3
  <2>3. QED
    BY <2>1, <2>2 DEF Order
<1>4. ASSUME NEW s, NEW t, <<s, t>> \in Order
      PROVE  \E i, j \in Valids : cache[i].sector = s /\ cache[j].sector = t /\ cache[i].stamp < cache[j].stamp
  <2>1. PICK q \in Valids \X Valids : cache[q[1]].stamp < cache[q[2]].stamp
                                      /\ <<s, t>> = <<cache[q[1]].sector, cache[q[2]].sector>>
    BY <1>4 DEF Order
  <2>2. q[1] \in Valids /\ q[2] \in Valids
    BY <2>1
  <2>3. QED
    BY <2>1, <2>2
<1>5. QED
  BY <1>2, <1>3, <1>4 DEF ByStamps

(* Within a set of sectors. *)
LEMMA InWithin ==
    ASSUME NEW S, NEW s, NEW t
    PROVE  <<s, t>> \in Lru!Within(Order, S) <=> <<s, t>> \in Order /\ s \in S /\ t \in S
  BY DEF Lru!Within

(* The slot i gets a stamp that is new, those in K stay, all others are     *)
(* emptied; s is its sector, and S has s or not, and those of K.           *)
Freshens(i, K, s, S) ==
    /\ K \subseteq Valids /\ i \notin K /\ Valids' = K \cup {i} /\ cache'[i].sector = s
    /\ \A j \in K : /\ cache'[j].sector = cache[j].sector /\ cache'[j].stamp = cache[j].stamp
                    /\ cache[j].stamp < cache'[i].stamp
    /\ \A x : x \in S \ {s} <=> \E j \in K : x = cache[j].sector

(* It becomes the youngest of those that stay. *)
LEMMA BecomesYoungest ==
    ASSUME CacheInv, CacheInv', NEW i, NEW K, NEW s, NEW S, Freshens(i, K, s, S)
    PROVE  Order' = Lru!Youngest(s, S)
<1> USE DEF Freshens
<1>0. ByStamps /\ ByStamps'
  BY InOrder, PTL
<1>1. \A j \in K : cache'[j].stamp \in Int
  BY ValidFields, CacheAssumption DEF Stamps
<1>2. ASSUME NEW x, NEW y, <<x, y>> \in Order' PROVE <<x, y>> \in Lru!Youngest(s, S)
  <2>1. PICK a \in Valids', b \in Valids' :
               cache'[a].sector = x /\ cache'[b].sector = y /\ cache'[a].stamp < cache'[b].stamp
    BY <1>0, <1>2 DEF ByStamps
  <2>2. CASE a \in K /\ b \in K
    <3>1. <<x, y>> \in Order
      BY <1>0, <2>1, <2>2 DEF ByStamps
    <3>2. x \in S \ {s} /\ y \in S \ {s}
      BY <2>1, <2>2
    <3>3. QED
      BY <3>1, <3>2, InWithin DEF Lru!Youngest
  <2>3. CASE a \in K /\ b = i
    BY <2>1, <2>3 DEF Lru!Youngest
  <2>4. CASE a = i
    <3>1. cache'[i].stamp \in Int /\ cache'[b].stamp \in Int
      <4>1. (\A j \in Valids : cache[j].stamp \in Stamps)'
        <5>1. \A j \in Valids' : cache'[j] \in Cached
          BY DEF CacheInv, CacheTypeOK, Valids
        <5>2. QED
          BY <5>1 DEF Cached, Stamps
      <4>2. QED
        BY <4>1, <2>1, CacheAssumption DEF Stamps
    <3>2. QED
      BY <2>1, <2>4, <3>1
  <2>5. QED
    BY <2>1, <2>2, <2>3, <2>4
<1>3. ASSUME NEW x, NEW y, <<x, y>> \in Lru!Youngest(s, S) PROVE <<x, y>> \in Order'
  <2>2. CASE <<x, y>> \in Lru!Within(Order, S \ {s})
    <3>1. <<x, y>> \in Order /\ x \in S \ {s} /\ y \in S \ {s}
      BY <2>2, InWithin
    <3>2. PICK a \in Valids, b \in Valids :
             cache[a].sector = x /\ cache[b].sector = y /\ cache[a].stamp < cache[b].stamp
      BY <1>0, <3>1 DEF ByStamps
    <3>3. a \in K /\ b \in K
      BY <3>1, <3>2, ValidFields
    <3>4. QED
      BY <1>0, <3>2, <3>3 DEF ByStamps
  <2>3. CASE \E t \in S \ {s} : <<x, y>> = <<t, s>>
    <3>1. x \in S \ {s} /\ y = s
      BY <2>3
    <3>2. PICK a \in K : cache[a].sector = x
      BY <3>1
    <3>3. QED
      BY <1>0, <3>1, <3>2 DEF ByStamps
  <2>4. QED
    BY <1>3, <2>2, <2>3 DEF Lru!Youngest
<1>4. \A p \in Order' : p = <<p[1], p[2]>>
  BY <1>0 DEF ByStamps
<1>5. \A p \in Lru!Youngest(s, S) : p = <<p[1], p[2]>>
  BY <1>0 DEF ByStamps, Lru!Youngest, Lru!Within
<1>6. \A p : p \in Order' <=> p \in Lru!Youngest(s, S)
  BY <1>2, <1>3, <1>4, <1>5
<1>7. QED
  BY <1>6

(* A set of natural numbers has a least one. *)
LEMMA LeastOf ==
    ASSUME NEW T \in SUBSET Nat, T # {}
    PROVE  Least(T) \in T /\ \A k \in T : Least(T) <= k
<1>1. PICK x \in T : \A y \in T : ~(<<y, x>> \in OpToRel(<, Nat))
  BY NatLessThanWellFounded, WFMin
<1>2. \A y \in T : <<y, x>> \in Nat \X Nat /\ <<y, x>>[1] = y /\ <<y, x>>[2] = x
  OBVIOUS
<1>3. \A y \in T : ~(y < x)
  BY <1>1, <1>2 DEF OpToRel
<1>4. \A y \in T : x <= y
  BY <1>3
<1>5. QED
  BY <1>4 DEF Least

(* The cache is full when no slot is free. *)
LEMMA EntriesCount ==
    ASSUME CacheInv PROVE Cardinality(Entries) < CacheSize <=> Free # {}
<1>1. IsFiniteSet(Slots) /\ Cardinality(Slots) = CacheSize
  BY FS_Interval, CacheAssumption DEF Slots
<1>2. Valids \in SUBSET Slots /\ (Free = {} <=> Valids = Slots)
  BY DEF Valids, Free
<1>3. IsFiniteSet(Valids) /\ Cardinality(Valids) \in Nat
  BY <1>1, <1>2, FS_Subset, FS_CardinalityType
<1>4. Cardinality(Valids) < CacheSize <=> Free # {}
  <2>1. Cardinality(Valids) <= CacheSize /\ (CacheSize = Cardinality(Valids) => Slots = Valids)
    BY <1>1, <1>2, FS_Subset
  <2>2. QED
    BY <1>1, <1>2, <1>3, <2>1, CacheAssumption
<1>5. Cardinality(Entries) = Cardinality(Valids)
  <2> DEFINE f == [i \in Valids |-> [sector |-> cache[i].sector, data |-> cache[i].data]]
  <2>1. \A i, j \in Valids : f[i] = f[j] => i = j
    <3>1. \A i \in Valids : f[i].sector = cache[i].sector
      OBVIOUS
    <3>2. QED
      BY <3>1, ValidFields
  <2>2. f \in [Valids -> Entries] /\ \A e \in Entries : \E i \in Valids : f[i] = e
    BY DEF Entries
  <2>3. f \in Bijection(Valids, Entries)
    BY <2>1, <2>2 DEF Bijection, Injection, Surjection, IsInjective
  <2>4. QED
    BY <1>3, <2>3, FS_Bijection DEF ExistsBijection
<1>6. QED
  BY <1>4, <1>5

(* A sector that is found becomes the youngest. *)
LEMMA TouchIsLru ==
    ASSUME LruInv, ~wrapped, ~(accessCounter' < accessCounter),
           NEW s \in Sectors, ReadFromCache(s), asked' = s
    PROVE  Lru!Next /\ Ordered'
<1>1. PICK i \in Holding(s) : i = Least(Holding(s))
  <2>1. Holding(s) \in SUBSET Nat /\ Holding(s) # {}
    BY CacheAssumption DEF Holding, Slots, ReadFromCache
  <2>2. QED
    BY <2>1, LeastOf
<1>2. cache' = [cache EXCEPT ![i].stamp = NextStamp] /\ accessCounter' = NextStamp
  BY <1>1 DEF ReadFromCache
<1>3. i \in Valids /\ cache[i].sector = s
  BY <1>1 DEF Holding, Valids
<1>4. NextStamp = accessCounter + 1 /\ accessCounter \in Nat
  <2>1. accessCounter \in Stamps
    BY DEF LruInv, CacheInv, CacheTypeOK
  <2>2. QED
    BY <1>2, <2>1, StampGrows, CacheAssumption DEF Stamps
<1>5. CacheInv /\ CacheInv' /\ Ordered
  BY ReadKeeps DEF LruInv
<1>6. \A j \in Valids : j # i => cache'[j] = cache[j]
  BY <1>2, <1>5 DEF CacheInv, CacheTypeOK, Valids
<1>7. cache'[i].sector = s /\ cache'[i].data = cache[i].data /\ cache'[i].stamp = NextStamp
  BY <1>2, <1>3, <1>5, ValidFields DEF CacheInv, CacheTypeOK, Cached
<1>8. Valids' = Valids
  BY ReadKeeps, <1>5 DEF Valids
<1>16. PICK K, S : K = Valids \ {i} /\ S = Lru!SectorsIn(Entries)
  OBVIOUS
<1>9. \A j \in Valids : cache[j].stamp < NextStamp /\ cache[j].stamp \in Int
  BY <1>4, <1>5, ValidFields, CacheAssumption DEF Ordered, Stamps
<1>10. \A x : x \in S \ {s} <=> \E j \in K : x = cache[j].sector
  <2>1. S = {cache[j].sector : j \in Valids}
    BY <1>16, EntrySectors
  <2>2. \A j \in Valids : cache[j].sector = s => j = i
    BY <1>3, <1>5, ValidFields
  <2>3. QED
    BY <1>3, <1>16, <2>1, <2>2
<1>11. Order' = Lru!Youngest(s, S)
  <2>1. K \subseteq Valids /\ i \notin K /\ Valids' = K \cup {i}
    BY <1>3, <1>8, <1>16
  <2>2. \A j \in K : /\ cache'[j].sector = cache[j].sector /\ cache'[j].stamp = cache[j].stamp
                     /\ cache[j].stamp < cache'[i].stamp
    BY <1>6, <1>7, <1>9, <1>16
  <2>3. Freshens(i, K, s, S)
    BY <1>7, <1>10, <2>1, <2>2 DEF Freshens
  <2>4. QED
    BY <1>5, <2>3, BecomesYoungest
<1>12. Entries' = Entries
  <2>1. \A j \in Valids : cache'[j].sector = cache[j].sector /\ cache'[j].data = cache[j].data
    BY <1>3, <1>6, <1>7
  <2>2. \A e : e \in Entries' <=> e \in Entries
    BY <1>8, <2>1 DEF Entries
  <2>3. QED
    BY <2>2
<1>13. Lru!Next
  <2> DEFINE e == [sector |-> cache[i].sector, data |-> cache[i].data]
  <2>1. e \in Entries /\ e.sector = s
    BY <1>3 DEF Entries
  <2>2. Lru!Touch(e)
    BY <1>11, <1>12, <1>16, <2>1 DEF Lru!Touch
  <2>3. QED
    BY <2>1, <2>2 DEF Lru!Next
<1>14. Ordered'
  <2>1. \A j \in Valids : j # i => cache'[j].stamp < NextStamp /\ cache'[j].stamp \in Int
    BY <1>6, <1>9
  <2>2. \A j \in Valids : cache'[j].stamp <= NextStamp
    BY <1>4, <1>7, <2>1
  <2>3. ASSUME NEW j \in Valids, NEW k \in Valids, cache'[j].stamp = cache'[k].stamp PROVE j = k
    <3>1. CASE j = i \/ k = i
      BY <1>4, <1>7, <2>1, <2>3, <3>1
    <3>2. CASE j # i /\ k # i
      BY <1>5, <1>6, <2>3, <3>2 DEF Ordered
    <3>3. QED
      BY <3>1, <3>2
  <2>4. QED
    BY <1>2, <1>8, <2>2, <2>3 DEF Ordered
<1>15. QED
  BY <1>13, <1>14

(* With the counter not wrapped there is a slot to reuse, and it is the    *)
(* one that was not used for the longest time.  (A cache of one slot may   *)
(* have none: when its stamp is the greatest there is.)                    *)
LEMMA OldestSlot ==
    ASSUME CacheInv, Ordered, CacheSize > 1, Free = {}
    PROVE  /\ Aged # {} /\ Least(Oldest) \in Oldest
           /\ \A o \in Oldest : o \in Valids /\ \A j \in Valids : j # o => cache[o].stamp < cache[j].stamp
<1>1. Valids = Slots /\ 0 \in Slots /\ 1 \in Slots
  BY CacheAssumption DEF Free, Valids, Slots
<1>2. \A i \in Valids : cache[i].stamp \in Nat /\ cache[i].stamp <= StampMod - 1
  BY ValidFields, CacheAssumption DEF Stamps
<1>3. \A i, j \in Valids : i # j => cache[i].stamp # cache[j].stamp
  BY DEF Ordered
<1>4. Aged = {i \in Valids : cache[i].stamp < StampMod - 1}
  BY DEF Aged, Valids
<1>5. Aged # {}
  BY <1>1, <1>2, <1>3, <1>4, CacheAssumption
<1>6. PICK i \in Aged : \A j \in Aged : cache[i].stamp <= cache[j].stamp
  <2> DEFINE T == {cache[j].stamp : j \in Aged}
  <2>1. T \in SUBSET Nat /\ T # {}
    BY <1>2, <1>4, <1>5
  <2>2. Least(T) \in T /\ \A k \in T : Least(T) <= k
    BY <2>1, LeastOf
  <2>3. QED
    BY <2>2
<1>7. Oldest \in SUBSET Nat /\ Oldest # {}
  BY <1>1, <1>4, <1>6, CacheAssumption DEF Oldest, Slots
<1>8. Least(Oldest) \in Oldest
  BY <1>7, LeastOf
<1>9. ASSUME NEW o \in Oldest, NEW j \in Valids, j # o PROVE cache[o].stamp < cache[j].stamp
  <2>1. o \in Valids /\ cache[o].stamp < StampMod - 1 /\ cache[o].stamp # cache[j].stamp
    BY <1>3, <1>4, <1>9 DEF Oldest
  <2>2. CASE j \in Aged
    BY <1>2, <2>1, <2>2 DEF Oldest
  <2>3. CASE j \notin Aged
    BY <1>2, <1>4, <2>1, <2>3, CacheAssumption
  <2>4. QED
    BY <2>2, <2>3
<1>10. QED
  BY <1>4, <1>5, <1>8, <1>9 DEF Oldest

(* A sector that is added becomes the youngest, and the oldest makes room. *)
LEMMA InsertIsLru ==
    ASSUME LruInv, CacheSize > 1, ~wrapped, ~(accessCounter' < accessCounter),
           NEW s \in Sectors, NEW d \in Data, Holding(s) = {}, AddToCache(s, d), asked' = s
    PROVE  Lru!Next /\ Ordered'
<1>1. CacheInv /\ CacheInv' /\ Ordered
  BY AddChangesOne DEF LruInv
<1>2. PICK i \in Slots : /\ i = IF Free # {} THEN Least(Free) ELSE Least(Oldest)
                         /\ i \in (IF Free # {} THEN Free ELSE Oldest)
  <2>1. CASE Free # {}
    <3>1. Free \in SUBSET Nat /\ Free \subseteq Slots
      BY CacheAssumption DEF Free, Slots
    <3>2. QED
      BY <2>1, <3>1, LeastOf
  <2>2. CASE Free = {}
    BY <1>1, <2>2, OldestSlot DEF Valids
  <2>3. QED
    BY <2>1, <2>2
<1>3. /\ cache' = [cache EXCEPT ![i] = [sector |-> s, data |-> d, stamp |-> NextStamp]]
      /\ accessCounter' = NextStamp
  <2>1. ~(Free = {} /\ Aged = {})
    BY <1>1, OldestSlot
  <2>2. QED
    BY <1>2, <2>1 DEF AddToCache
<1>4. NextStamp = accessCounter + 1 /\ accessCounter \in Nat /\ NextStamp \in Stamps
  <2>1. accessCounter \in Stamps
    BY <1>1 DEF CacheInv, CacheTypeOK
  <2>2. QED
    BY <1>3, <2>1, NextStampType, StampGrows, CacheAssumption DEF Stamps
<1>5. PICK new : new = [sector |-> s, data |-> d, stamp |-> NextStamp]
  OBVIOUS
<1>6. new.sector = s /\ new.data = d /\ new.stamp = NextStamp /\ new \in Cached
  BY <1>4, <1>5 DEF Cached
<1>7. \A j \in Slots : cache'[j] = IF j = i THEN new ELSE cache[j]
  BY <1>1, <1>3, <1>5 DEF CacheInv, CacheTypeOK
<1>8. PICK K, S : K = Valids \ {i} /\ S = {cache[j].sector : j \in K}
  OBVIOUS
<1>9. Valids' = K \cup {i}
  BY <1>2, <1>6, <1>7, <1>8, NoCachedAssumption DEF Valids
<1>10. \A j \in Valids : /\ cache[j].stamp < NextStamp /\ cache[j].stamp \in Int
                         /\ cache[j].sector # s
  <2>1. \A j \in Valids : cache[j].sector # s
    BY DEF Valids, Holding
  <2>2. QED
    BY <1>1, <1>4, <2>1, ValidFields, CacheAssumption DEF Ordered, Stamps
<1>11. \A j \in K : j \in Valids /\ j # i /\ cache'[j] = cache[j]
  BY <1>7, <1>8 DEF Valids
<1>12. cache'[i] = new
  BY <1>2, <1>7
<1>13. Order' = Lru!Youngest(s, S)
  <2>1. \A j \in K : /\ cache'[j].sector = cache[j].sector /\ cache'[j].stamp = cache[j].stamp
                     /\ cache[j].stamp < cache'[i].stamp
    BY <1>6, <1>10, <1>11, <1>12
  <2>2. \A x : x \in S \ {s} <=> \E j \in K : x = cache[j].sector
    BY <1>8, <1>10, <1>11
  <2>3. Freshens(i, K, s, S)
    BY <1>6, <1>8, <1>9, <1>11, <1>12, <2>1, <2>2 DEF Freshens
  <2>4. QED
    BY <1>1, <2>3, BecomesYoungest
<1>14. PICK e, kept : /\ e = [sector |-> s, data |-> d]
                      /\ kept = {[sector |-> cache[j].sector, data |-> cache[j].data] : j \in K}
  OBVIOUS
<1>15. Entries' = kept \cup {e}
  <2>1. \A x : x \in Entries' <=> \E j \in K \cup {i} :
                                     x = [sector |-> cache'[j].sector, data |-> cache'[j].data]
    BY <1>9 DEF Entries
  <2>2. QED
    BY <1>6, <1>11, <1>12, <1>14, <2>1
<1>16. S = Lru!SectorsIn(kept)
  <2>1. \A j \in K : [sector |-> cache[j].sector, data |-> cache[j].data].sector = cache[j].sector
    OBVIOUS
  <2>2. \A x : x \in Lru!SectorsIn(kept) <=> \E j \in K : x = cache[j].sector
    BY <1>14, <2>1 DEF Lru!SectorsIn
  <2>3. QED
    BY <1>8, <2>2
<1>17. kept \in SUBSET Entries
  BY <1>11, <1>14 DEF Entries
<1>18. IF Cardinality(Entries) < CacheSize THEN kept = Entries
       ELSE \E o \in Lru!Eldest : kept = Entries \ {o}
  <2>1. CASE Free # {}
    <3>1. K = Valids
      BY <1>2, <1>8, <2>1 DEF Free, Valids
    <3>2. kept = Entries
      BY <1>14, <3>1 DEF Entries
    <3>3. QED
      BY <1>1, <2>1, <3>2, EntriesCount
  <2>2. CASE Free = {}
    <3>1. i \in Valids /\ \A j \in Valids : j # i => cache[i].stamp < cache[j].stamp
      BY <1>1, <1>2, <2>2, OldestSlot
    <3>2. PICK o : o = [sector |-> cache[i].sector, data |-> cache[i].data]
      OBVIOUS
    <3>3. o.sector = cache[i].sector /\ o \in Entries
      BY <3>1, <3>2 DEF Entries
    <3>4. ASSUME NEW x \in Entries, x # o PROVE x \in kept /\ <<o.sector, x.sector>> \in Order
      <4>1. PICK j \in Valids : x = [sector |-> cache[j].sector, data |-> cache[j].data]
        BY DEF Entries
      <4>2. j # i /\ x.sector = cache[j].sector
        BY <3>2, <3>4, <4>1
      <4>3. x \in kept
        BY <1>8, <1>14, <4>1, <4>2
      <4>4. cache[i].stamp < cache[j].stamp
        BY <3>1, <4>2
      <4>5. QED
        BY <3>1, <3>3, <4>2, <4>3, <4>4, InOrder DEF ByStamps
    <3>5. o \notin kept
      BY <1>1, <1>11, <1>14, <3>1, <3>3, ValidFields
    <3>6. o \in Lru!Eldest
      BY <3>3, <3>4 DEF Lru!Eldest
    <3>7. kept = Entries \ {o}
      BY <1>17, <3>4, <3>5
    <3>8. QED
      BY <1>1, <2>2, <3>6, <3>7, EntriesCount
  <2>3. QED
    BY <2>1, <2>2
<1>19. Lru!Next
  <2>1. e \in [sector : Sectors, data : Data] /\ e.sector = s
    BY <1>14
  <2>2. s \notin Lru!SectorsIn(Entries)
    BY <1>10, EntrySectors
  <2>3. Lru!Insert(e)
    <3>1. Order' = Lru!Youngest(e.sector, Lru!SectorsIn(kept))
      BY <1>13, <1>16, <2>1
    <3>2. \E k \in SUBSET Entries :
            /\ IF Cardinality(Entries) < CacheSize THEN k = Entries
               ELSE \E o \in Lru!Eldest : k = Entries \ {o}
            /\ Entries' = k \cup {e}
            /\ Order' = Lru!Youngest(e.sector, Lru!SectorsIn(k))
      BY <1>15, <1>17, <1>18, <3>1
    <3>3. e.sector \notin Lru!SectorsIn(Entries) /\ asked' = e.sector
      BY <2>1, <2>2
    <3>4. Lru!Cardinality(Entries) = Cardinality(Entries)
      BY DEF Lru!Cardinality, Cardinality
    <3>5. QED
      BY <3>2, <3>3, <3>4 DEF Lru!Insert
  <2>4. QED
    BY <2>1, <2>3 DEF Lru!Next
<1>20. Ordered'
  <2>1. \A j \in K : cache'[j].stamp < NextStamp /\ cache'[j].stamp \in Int
    BY <1>10, <1>11
  <2>2. \A j \in K \cup {i} : cache'[j].stamp <= NextStamp
    BY <1>4, <1>6, <1>12, <2>1
  <2>3. ASSUME NEW j \in K \cup {i}, NEW k \in K \cup {i}, cache'[j].stamp = cache'[k].stamp PROVE j = k
    <3>1. CASE j = i \/ k = i
      BY <1>4, <1>6, <1>12, <2>1, <2>3, <3>1
    <3>2. CASE j \in K /\ k \in K
      BY <1>1, <1>11, <2>3, <3>2 DEF Ordered
    <3>3. QED
      BY <3>1, <3>2
  <2>4. QED
    BY <1>3, <1>9, <2>2, <2>3 DEF Ordered
<1>21. QED
  BY <1>19, <1>20

(* Sectors that are forgotten leave the order of the others as it was. *)
LEMMA ForgetIsLru ==
    ASSUME LruInv, ~wrapped, NEW first \in Nat, NEW count \in Nat,
           InvalidateCache(first, count), UNCHANGED asked
    PROVE  Lru!Next /\ Ordered'
<1>1. CacheInv /\ CacheInv' /\ Ordered
  BY InvalidateForgets DEF LruInv
<1>2. \A i \in Slots : cache'[i] = IF cache[i] # None /\ InRange(cache[i].sector, first, count)
                                  THEN None ELSE cache[i]
  BY DEF InvalidateCache
<1>3. PICK gone : gone = {t \in Lru!SectorsIn(Entries) : InRange(t, first, count)}
  OBVIOUS
<1>4. \A i : i \in Valids' <=> i \in Valids /\ cache[i].sector \notin gone
  <2>1. \A i \in Valids : cache[i].sector \in gone <=> InRange(cache[i].sector, first, count)
    BY <1>3, EntrySectors
  <2>2. QED
    BY <1>2, <2>1 DEF Valids
<1>5. \A i \in Valids' : cache'[i] = cache[i]
  BY <1>2 DEF Valids
<1>6. Entries' = {e \in Entries : e.sector \notin gone}
  <2>1. \A i \in Valids : [sector |-> cache[i].sector, data |-> cache[i].data].sector = cache[i].sector
    OBVIOUS
  <2>2. \A e : e \in Entries' <=> \E i \in Valids' : e = [sector |-> cache[i].sector, data |-> cache[i].data]
    BY <1>5 DEF Entries
  <2>3. \A e : e \in Entries <=> \E i \in Valids : e = [sector |-> cache[i].sector, data |-> cache[i].data]
    BY DEF Entries
  <2>4. \A e : e \in Entries' <=> e \in Entries /\ e.sector \notin gone
    BY <1>4, <2>1, <2>2, <2>3
  <2>5. QED
    BY <2>4
<1>7. \A t : t \in Lru!SectorsIn(Entries') <=> \E i \in Valids' : t = cache[i].sector
  <2>1. \A i : [sector |-> cache[i].sector, data |-> cache[i].data].sector = cache[i].sector
    OBVIOUS
  <2>2. \A e : e \in Entries' <=> \E i \in Valids' : e = [sector |-> cache[i].sector, data |-> cache[i].data]
    BY <1>5 DEF Entries
  <2>3. \A t : t \in Lru!SectorsIn(Entries') <=> \E e \in Entries' : t = e.sector
    BY DEF Lru!SectorsIn
  <2>4. ASSUME NEW t, NEW i \in Valids', t = cache[i].sector PROVE \E e \in Entries' : t = e.sector
    BY <2>1, <2>2, <2>4
  <2>5. ASSUME NEW t, NEW e \in Entries', t = e.sector PROVE \E i \in Valids' : t = cache[i].sector
    BY <2>1, <2>2, <2>5
  <2>6. QED
    BY <2>3, <2>4, <2>5
<1>8. Order' = Lru!Within(Order, Lru!SectorsIn(Entries'))
  <2>1. ByStamps /\ ByStamps'
    BY InOrder, PTL
  <2>2. ASSUME NEW s, NEW t PROVE <<s, t>> \in Order' <=> <<s, t>> \in Lru!Within(Order, Lru!SectorsIn(Entries'))
    <3>1. <<s, t>> \in Order' <=>
            \E i, j \in Valids' : cache[i].sector = s /\ cache[j].sector = t /\ cache[i].stamp < cache[j].stamp
      BY <1>5, <2>1 DEF ByStamps
    <3>2. <<s, t>> \in Order <=>
            \E i, j \in Valids : cache[i].sector = s /\ cache[j].sector = t /\ cache[i].stamp < cache[j].stamp
      BY <2>1 DEF ByStamps
    <3>3. \A i \in Valids : i \in Valids' <=> cache[i].sector \in Lru!SectorsIn(Entries')
      BY <1>4, <1>7
    <3>4. QED
      BY <1>4, <3>1, <3>2, <3>3, InWithin
  <2>3. \A p \in Order' : p = <<p[1], p[2]>>
    BY <2>1 DEF ByStamps
  <2>4. \A p \in Lru!Within(Order, Lru!SectorsIn(Entries')) : p = <<p[1], p[2]>>
    BY <2>1 DEF ByStamps, Lru!Within
  <2>5. \A p : p \in Order' <=> p \in Lru!Within(Order, Lru!SectorsIn(Entries'))
    BY <2>2, <2>3, <2>4
  <2>6. QED
    BY <2>5
<1>9. Lru!Next
  <2>1. Lru!Forget(gone)
    BY <1>6, <1>8 DEF Lru!Forget
  <2>2. gone \in SUBSET Lru!SectorsIn(Entries)
    BY <1>3
  <2>3. QED
    BY <2>1, <2>2 DEF Lru!Next
<1>10. Ordered'
  BY SMTT(20), <1>1, <1>4, <1>5 DEF Ordered, InvalidateCache
<1>11. QED
  BY <1>9, <1>10

LEMMA LruInit == HInit => LruInv /\ Lru!Init
<1> SUFFICES ASSUME HInit PROVE LruInv /\ Lru!Init
  OBVIOUS
<1>1. CacheInv
  BY CacheInitInv DEF HInit
<1>2. Valids = {}
  BY DEF HInit, CacheInit, Valids
<1>3. Entries = {} /\ Order = {}
  BY <1>2 DEF Entries, Order
<1>4. QED
  BY <1>1, <1>2, <1>3 DEF HInit, LruInv, Ordered, Lru!Init

(* Every step of the cache is one of LruCache, as long as the counter has *)
(* not wrapped.                                                           *)
LEMMA LruStep ==
    ASSUME CacheSize > 1, LruInv, [HNext]_historyVars
    PROVE  LruInv' /\ (wrapped' \/ [Lru!Next]_(Lru!lruVars))
<1>1. CASE UNCHANGED historyVars
  <2>1. UNCHANGED <<cache, accessCounter, asked, wrapped>>
    BY <1>1 DEF historyVars, cacheVars
  <2>2. Valids' = Valids
    BY <2>1 DEF Valids
  <2>3. UNCHANGED Lru!lruVars
    BY <2>1, <2>2 DEF Lru!lruVars, Entries, Order
  <2>4. LruInv'
    <3>1. CacheInv'
      BY <2>1 DEF LruInv, CacheInv, CacheTypeOK, NoDuplicates, Holding
    <3>2. QED
      BY <2>1, <2>2, <3>1 DEF LruInv, Ordered
  <2>5. QED
    BY <2>3, <2>4
<1>2. CASE HNext
  <2>1. wrapped' = (wrapped \/ accessCounter' < accessCounter) /\ wrapped' \in BOOLEAN
    BY <1>2 DEF HNext, LruInv
  <2>2. CacheNext
    BY <1>2 DEF HNext, CacheNext
  <2>3. CacheInv'
    BY <2>2, CacheStep DEF LruInv
  <2>4. ASSUME ~wrapped' PROVE Lru!Next /\ Ordered'
    <3>1. ~wrapped /\ ~(accessCounter' < accessCounter)
      BY <2>1, <2>4 DEF LruInv
    <3>2. CASE \E s \in Sectors : Lookup(s) /\ asked' = s
      BY <3>1, <3>2, TouchIsLru DEF Lookup
    <3>3. CASE \E s \in Sectors, d \in Data : Fill(s, d) /\ asked' = s
      BY <3>1, <3>3, InsertIsLru DEF Fill
    <3>4. CASE Forget /\ UNCHANGED asked
      <4>1. PICK first \in Sectors, count \in 1 .. 2 : InvalidateCache(first, count)
        BY <3>4 DEF Forget
      <4>2. first \in Nat /\ count \in Nat
        BY CacheAssumption
      <4>3. QED
        BY <3>1, <3>4, <4>1, <4>2, ForgetIsLru
    <3>5. QED
      BY <1>2, <3>2, <3>3, <3>4 DEF HNext
  <2>5. QED
    BY <2>1, <2>3, <2>4 DEF LruInv
<1>3. QED
  BY <1>1, <1>2

(***************************************************************************)
(* The sector cache is an LRU cache until its counter wraps (cache.c, used *)
(* as diskio.c uses it), for every size from two on.  A cache of one slot  *)
(* is not: when its stamp is the greatest there is, the search in          *)
(* _libelmcache_add_to_cache finds no slot ("ALGORITHM ERROR"), and the    *)
(* sector that was asked for is not kept.                                  *)
(***************************************************************************)
THEOREM CacheRefinesLru == ASSUME CacheSize > 1 PROVE HSpec => IsLru
<1>1. HInit => LruInv /\ Lru!Init
  BY LruInit
<1>2. LruInv /\ [HNext]_historyVars => LruInv'
  BY LruStep
<1>3. LruInv /\ [HNext]_historyVars => [wrapped' \/ [Lru!Next]_(Lru!lruVars)]_historyVars
  BY LruStep
<1>4. QED
  BY <1>1, <1>2, <1>3, PTL DEF HSpec, IsLru

-----------------------------------------------------------------------------
(* The card in the slot is the latest one, and all data are of cards so far. *)
SlotInv ==
    /\ used \in Cards
    /\ slot # NoCard => slot = used /\ \A s \in Sectors : disk[s].card = slot

TagInv ==
    /\ \A i \in Slots : Valid(i) => cache[i].data.card <= used
    /\ reply # None => \A s \in DOMAIN reply.data : reply.data[s].card <= used

(* A card that can be accessed without an acknowledgement was accessed before. *)
AckedInv == powered /\ ~newCard => touched \subseteq {slot}

(* A request in the queue is what the call in progress waits for. *)
Suits(r, c) ==
    /\ r.op \in {"state", "ack", "size"} => c.op \in {"init", "status", "size"}
    /\ r.op \in {"read", "write"} =>
        /\ c.op = r.op
        /\ SectorsOf(r.first, r.count) \subseteq SectorsOf(c.first, c.count)
        /\ c.count = 1 => r.first = c.first

OnlyDiscover == \A k \in 1 .. Len(slow) : slow[k].op = "discover"

QueueInv ==
    /\ \A j, k \in 1 .. Len(slow) :
          slow[j].op # "discover" /\ slow[k].op # "discover" => j = k
    /\ \A k \in 1 .. Len(slow) :
          slow[k].op # "discover" => call # None /\ reply = None /\ Suits(slow[k], call)
    /\ reply # None => call # None

Transferring == call # None /\ call.op \in {"read", "write"}

(* While sectors are transferred they are not in the cache. *)
CallInv ==
    Transferring =>
        /\ Fits(call.first, call.count)
        /\ call.at \in call.first .. call.first + call.count - 1
        /\ \A s \in SectorsOf(call.first, call.count) : Holding(s) = {}

(* Sectors the ARM has just read are still what the card holds. *)
ReplyInv ==
    call # None /\ call.op = "read" /\ reply # None /\ reply.value = "ok" =>
        /\ call.count = 1 => call.first \in DOMAIN reply.data
        /\ \A s \in DOMAIN reply.data : reply.data[s].card = slot => reply.data[s] = disk[s]

(* What a call has read it has read since the last acknowledgement. *)
GotInv ==
    /\ \A s \in DOMAIN got : call # None /\ call.op = "read" /\ got[s].card \in touched
    /\ reply # None => \A s \in DOMAIN reply.data :
                          call.op = "read" /\ reply.data[s].card \in touched

Inv ==
    /\ TypeOK
    /\ CacheInv
    /\ SlotInv
    /\ TagInv
    /\ AckedInv
    /\ QueueInv
    /\ CallInv
    /\ ReplyInv
    /\ GotInv
    /\ ReadyIsKnown
    /\ CacheCoherent
    /\ NoSilentExchange

DataOfSectors == UNION {[S -> Data] : S \in SUBSET Sectors}

LEMMA DataFields ==
    /\ \A d \in Data : d.card \in Cards
    /\ \A c \in Cards, t \in Texts \cup {Torn} : [card |-> c, text |-> t] \in Data
    /\ \A c \in Cards, t \in Texts \cup {Torn} : [card |-> c, text |-> t].card = c
BY CardsAssumption DEF Cards

LEMMA NoSectorsType == NoSectors \in DataOfSectors /\ DOMAIN NoSectors = {}
BY DEF NoSectors, DataOfSectors

LEMMA DataType ==
    ASSUME NEW f \in DataOfSectors
    PROVE  DOMAIN f \subseteq Sectors /\ \A s \in DOMAIN f : f[s] \in Data
BY DEF DataOfSectors

LEMMA BothType ==
    ASSUME NEW f \in DataOfSectors, NEW g \in DataOfSectors
    PROVE  /\ Both(f, g) \in DataOfSectors
           /\ DOMAIN Both(f, g) = DOMAIN f \cup DOMAIN g
           /\ \A s \in DOMAIN f : Both(f, g)[s] = f[s]
           /\ \A s \in DOMAIN g \ DOMAIN f : Both(f, g)[s] = g[s]
<1> DEFINE D == DOMAIN f \cup DOMAIN g
<1>1. D \in SUBSET Sectors /\ \A s \in D : (IF s \in DOMAIN f THEN f[s] ELSE g[s]) \in Data
  BY DataType
<1>2. Both(f, g) = [s \in D |-> IF s \in DOMAIN f THEN f[s] ELSE g[s]]
  BY DEF Both
<1> HIDE DEF D
<1>3. Both(f, g) \in [D -> Data]
  BY <1>1, <1>2
<1>4. QED
  BY <1>1, <1>2, <1>3 DEF DataOfSectors, D

LEMMA RepliesType ==
    ASSUME NEW v \in {"no card", "new card", "inserted", "ok", "error"},
           NEW d \in DataOfSectors
    PROVE  [value |-> v, data |-> d] \in Replies
BY DEF Replies, DataOfSectors

(* What the ARM replied is of sectors, and of cards. *)
LEMMA ReplyData ==
    ASSUME TypeOK, reply # None
    PROVE  /\ reply.data \in DataOfSectors
           /\ DOMAIN reply.data \subseteq Sectors
           /\ \A s \in DOMAIN reply.data : reply.data[s] \in Data /\ reply.data[s].card \in Cards
<1>1. reply.data \in DataOfSectors
  BY DEF TypeOK, Replies, DataOfSectors
<1>2. QED
  BY <1>1, DataType, DataFields

LEMMA CardsAreNat == Cards \subseteq Nat /\ NoCard \notin Cards /\ NoCard \in Nat
BY CardsAssumption DEF Cards, NoCard

-----------------------------------------------------------------------------
LEMMA InitInv == Init => Inv
<1> SUFFICES ASSUME Init PROVE Inv
  OBVIOUS
<1> USE CardsAssumption DEF Init
<1>1. CacheInv
  BY CacheInitInv
<1>2. 1 \in Cards
  BY DEF Cards
<1>3. disk \in Disk /\ \A s \in Sectors : disk[s].card = 1
  BY <1>2 DEF Disk, Cards
<1>4. TypeOK
  <2>1. CacheTypeOK
    BY <1>1 DEF CacheInv
  <2>2. /\ slot \in {NoCard} \cup Cards /\ used \in {NoCard} \cup Cards
        /\ mode \in {NoCard} \cup Cards /\ sized \in {NoCard} \cup Cards
    BY <1>2
  <2>3. slow \in Seq(Request)
    OBVIOUS
  <2>4. got \in UNION {[S -> Data] : S \in SUBSET Sectors}
    BY NoSectorsType DEF DataOfSectors
  <2>5. QED
    BY <1>3, <2>1, <2>2, <2>3, <2>4 DEF TypeOK
<1>5. SlotInv /\ AckedInv /\ ReadyIsKnown /\ NoSilentExchange
  BY <1>2 DEF SlotInv, AckedInv, ReadyIsKnown, NoSilentExchange, NoCard
<1>6. TagInv /\ CacheCoherent
  BY DEF TagInv, CacheCoherent, Valid, CacheInit
<1>7. QueueInv /\ CallInv /\ ReplyInv /\ GotInv
  BY NoSectorsType DEF QueueInv, CallInv, ReplyInv, GotInv, Transferring
<1>8. QED
  BY <1>1, <1>4, <1>5, <1>6, <1>7 DEF Inv

(* Nothing of the cache changes. *)
LEMMA CacheSame ==
    ASSUME CacheInv, UNCHANGED cacheVars
    PROVE  CacheInv' /\ CacheTypeOK' /\ \A s : Holding(s)' = Holding(s)
BY DEF CacheInv, CacheTypeOK, NoDuplicates, Holding, cacheVars

(* The ARM takes the first request out of the queue. *)
LEMMA ServedTail ==
    ASSUME slow \in Seq(Request), slow # <<>>, Served
    PROVE  /\ slow' \in Seq(Request)
           /\ Head(slow) = slow[1] /\ 1 \in 1 .. Len(slow) /\ Head(slow) \in Request
           /\ Len(slow') = Len(slow) - 1
           /\ \A k \in 1 .. Len(slow') : slow'[k] = slow[k + 1] /\ k + 1 \in 2 .. Len(slow)
BY DEF Served

(* After the PowerPC's request was taken there is no other. *)
LEMMA ServedRequest ==
    ASSUME slow \in Seq(Request), QueueInv, slow # <<>>, Head(slow).op # "discover", Served
    PROVE  OnlyDiscover' /\ call # None /\ Suits(Head(slow), call)
BY ServedTail DEF QueueInv, OnlyDiscover

(* When the PowerPC runs there is no request of its own in the queue. *)
LEMMA NoRequest ==
    ASSUME QueueInv, call = None \/ reply # None PROVE OnlyDiscover
BY DEF QueueInv, OnlyDiscover

(* It sends the next one. *)
LEMMA SendQueue ==
    ASSUME slow \in Seq(Request), OnlyDiscover, NEW r \in Request, Send(r),
           call' # None, reply' = None, Suits(r, call')
    PROVE  slow' \in Seq(Request) /\ QueueInv'
<1>1. /\ slow' \in Seq(Request) /\ Len(slow') = Len(slow) + 1 /\ Len(slow) \in Nat
      /\ slow'[Len(slow')] = r
      /\ \A k \in 1 .. Len(slow) : slow'[k] = slow[k]
  BY DEF Send
<1>2. \A k \in 1 .. Len(slow') : k = Len(slow') \/ slow'[k].op = "discover"
  BY <1>1 DEF OnlyDiscover
<1>3. QED
  BY <1>1, <1>2 DEF QueueInv

-----------------------------------------------------------------------------
(* The slot. *)
LEMMA InsertCardStep == ASSUME Inv, InsertCard PROVE Inv'
<1> USE DEF Inv, InsertCard, card, ppc
<1>1. used' \in Cards /\ used' = used + 1 /\ slot' = used' /\ used \in Nat /\ ~powered
  BY CardsAssumption DEF SlotInv, Cards, ReadyIsKnown, TypeOK
<1>2. CacheInv' /\ CacheTypeOK'
  BY CacheSame
<1>3. disk' \in Disk /\ \A s \in Sectors : disk'[s].card = used'
  BY <1>1, CardsAssumption DEF Disk, Cards
<1>4. TypeOK'
  BY <1>1, <1>2, <1>3 DEF TypeOK
<1>5. SlotInv' /\ TagInv' /\ CacheCoherent'
  <2>1. \A i \in Slots : Valid(i) => cache[i].data.card \in Nat
    BY DataFields DEF CacheInv, CacheTypeOK, Cached, Valid, Cards
  <2>2. reply # None => \A s \in DOMAIN reply.data : reply.data[s].card \in Nat
    BY ReplyData, CardsAreNat
  <2>3. QED
    BY <1>1, <1>3, <2>1, <2>2 DEF SlotInv, TagInv, CacheCoherent, Valid, cacheVars
<1>6. ReplyInv'
  <2>1. reply # None => \A s \in DOMAIN reply.data : reply.data[s].card \in Nat
    BY ReplyData, CardsAreNat
  <2>2. QED
    BY <1>1, <2>1 DEF ReplyInv, TagInv
<1>7. CallInv'
  BY CacheSame DEF CallInv, Transferring
<1>8. QueueInv' /\ GotInv' /\ AckedInv' /\ ReadyIsKnown' /\ NoSilentExchange'
  BY <1>1 DEF QueueInv, GotInv, AckedInv, ReadyIsKnown, NoSilentExchange
<1>9. QED
  BY <1>2, <1>4, <1>5, <1>6, <1>7, <1>8

LEMMA RemoveCardStep == ASSUME Inv, RemoveCard PROVE Inv'
<1> USE DEF Inv, RemoveCard, card, ppc
<1>1. CacheInv' /\ CacheTypeOK'
  BY CacheSame
<1>2. TypeOK'
  BY <1>1 DEF TypeOK
<1>3. SlotInv' /\ TagInv' /\ QueueInv' /\ GotInv' /\ AckedInv' /\ ReadyIsKnown' /\ NoSilentExchange'
  BY DEF SlotInv, TagInv, Valid, QueueInv, GotInv, AckedInv, ReadyIsKnown, NoSilentExchange, cacheVars
<1>4. CacheCoherent'
  BY DataFields DEF CacheCoherent, Valid, CacheInv, CacheTypeOK, Cached, Cards, NoCard, cacheVars
<1>5. ReplyInv'
  BY ReplyData, CardsAreNat DEF ReplyInv
<1>6. CallInv'
  BY CacheSame DEF CallInv, Transferring
<1>7. QED
  BY <1>1, <1>2, <1>3, <1>4, <1>5, <1>6

LEMMA CardIrqStep == ASSUME Inv, CardIrq PROVE Inv'
<1> USE DEF Inv, CardIrq, card, ppc
<1>1. Plain("discover") \in Request /\ Plain("discover").op = "discover"
  BY CardsAssumption DEF Plain, Request
<1>2. /\ slow' \in Seq(Request) /\ Len(slow') = Len(slow) + 1 /\ Len(slow) \in Nat
      /\ slow'[Len(slow')] = Plain("discover")
      /\ \A k \in 1 .. Len(slow) : slow'[k] = slow[k]
  BY <1>1 DEF TypeOK
<1>3. CacheInv' /\ CacheTypeOK'
  BY CacheSame
<1>4. TypeOK'
  BY <1>2, <1>3 DEF TypeOK
<1>5. QueueInv'
  <2>1. \A k \in 1 .. Len(slow') : slow'[k].op # "discover" => k \in 1 .. Len(slow)
    BY <1>1, <1>2
  <2>2. QED
    BY <1>2, <2>1 DEF QueueInv
<1>6. SlotInv' /\ TagInv' /\ GotInv' /\ AckedInv' /\ ReadyIsKnown' /\ NoSilentExchange'
  BY DEF SlotInv, TagInv, Valid, GotInv, AckedInv, ReadyIsKnown, NoSilentExchange, cacheVars
<1>7. CacheCoherent' /\ ReplyInv'
  BY DEF CacheCoherent, Valid, ReplyInv, cacheVars
<1>8. CallInv'
  BY CacheSame DEF CallInv, Transferring
<1>9. QED
  BY <1>3, <1>4, <1>5, <1>6, <1>7, <1>8

-----------------------------------------------------------------------------
(* Wherever the discovery ends, the card counts as new. *)
LEMMA DiscoverStep ==
    ASSUME Inv, Discover, Announce,
           UNCHANGED <<cacheVars, slot, used, disk, cardFlag, ppc, reply, touched>>,
           inserted' \in BOOLEAN, selected' \in BOOLEAN, powered' \in BOOLEAN,
           mode' \in {NoCard} \cup Cards, sized' \in {NoCard} \cup Cards,
           ReadyIsKnown'
    PROVE  Inv'
<1> USE DEF Inv, Announce, ppc
<1>1. slow # <<>> /\ Served /\ slow[1].op = "discover"
  BY ServedTail DEF Discover, Serving, TypeOK
<1>2. CacheInv' /\ CacheTypeOK'
  BY CacheSame
<1>3. TypeOK'
  BY <1>1, <1>2, ServedTail DEF TypeOK
<1>4. QueueInv'
  <2>1. slow \in Seq(Request)
    BY DEF TypeOK
  <2>2. \A k \in 1 .. Len(slow') : slow'[k] = slow[k + 1] /\ k + 1 \in 1 .. Len(slow) /\ k \in Nat
    BY <1>1, <2>1, ServedTail
  <2>3. call' = call /\ reply' = reply
    OBVIOUS
  <2>4. \A j, k \in 1 .. Len(slow') :
           slow'[j].op # "discover" /\ slow'[k].op # "discover" => j = k
    <3> SUFFICES ASSUME NEW j \in 1 .. Len(slow'), NEW k \in 1 .. Len(slow'),
                        slow'[j].op # "discover", slow'[k].op # "discover"
                 PROVE  j = k
      OBVIOUS
    <3>1. j + 1 = k + 1
      BY <2>2 DEF QueueInv
    <3>2. QED
      BY <3>1
  <2>5. \A k \in 1 .. Len(slow') :
          slow'[k].op # "discover" => call # None /\ reply = None /\ Suits(slow'[k], call)
    BY <2>2 DEF QueueInv
  <2>6. QED
    BY <2>3, <2>4, <2>5 DEF QueueInv
<1>5. SlotInv' /\ TagInv' /\ GotInv' /\ AckedInv' /\ NoSilentExchange'
  BY DEF SlotInv, TagInv, Valid, GotInv, AckedInv, NoSilentExchange, cacheVars
<1>6. CacheCoherent' /\ ReplyInv'
  BY DEF CacheCoherent, Valid, ReplyInv, cacheVars
<1>7. CallInv'
  BY CacheSame DEF CallInv, Transferring
<1>8. QED
  BY <1>2, <1>3, <1>4, <1>5, <1>6, <1>7

LEMMA DiscoveryStep == ASSUME Inv, Discovery PROVE Inv'
<1> USE DEF ReadyIsKnown
<1>1. TypeOK /\ SlotInv
  BY DEF Inv
<1>2. slot # NoCard => slot \in Cards
  BY <1>1 DEF SlotInv
<1>3. CASE DiscoverNone
  BY <1>1, <1>3, DiscoverStep DEF DiscoverNone, TypeOK
<1>4. CASE DiscoverDead
  BY <1>1, <1>4, DiscoverStep DEF DiscoverDead, TypeOK
<1>5. CASE DiscoverAnonymous
  BY <1>1, <1>2, <1>5, DiscoverStep DEF DiscoverAnonymous, TypeOK
<1>6. CASE DiscoverSizeless
  BY <1>1, <1>2, <1>6, DiscoverStep DEF DiscoverSizeless, TypeOK
<1>7. CASE DiscoverMute
  BY <1>1, <1>2, <1>7, DiscoverStep DEF DiscoverMute, TypeOK
<1>8. CASE DiscoverReady
  BY <1>1, <1>2, <1>8, DiscoverStep DEF DiscoverReady, TypeOK
<1>9. QED
  BY <1>3, <1>4, <1>5, <1>6, <1>7, <1>8 DEF Discovery

-----------------------------------------------------------------------------
(* The PowerPC's requests.  What all of them have in common. *)
LEMMA ServedParts ==
    ASSUME Inv, slow # <<>>, Head(slow).op # "discover", Served,
           UNCHANGED <<cacheVars, slot, used, ppc>>
    PROVE  /\ CacheInv' /\ CacheTypeOK' /\ slow' \in Seq(Request)
           /\ QueueInv' /\ CallInv'
           /\ call # None /\ call \in Call /\ call' = call /\ got' = got /\ reply = None
           /\ Suits(Head(slow), call) /\ Head(slow) \in Request
           /\ \A t : Holding(t)' = Holding(t)
<1> USE DEF Inv, ppc
<1>1. slow \in Seq(Request)
  BY DEF TypeOK
<1>2. OnlyDiscover' /\ call # None /\ Suits(Head(slow), call)
  BY <1>1, ServedRequest
<1>3. CacheInv' /\ CacheTypeOK' /\ \A t : Holding(t)' = Holding(t)
  BY CacheSame
<1>4. slow' \in Seq(Request) /\ Head(slow) = slow[1] /\ 1 \in 1 .. Len(slow) /\ Head(slow) \in Request
  BY <1>1, ServedTail
<1>5. call \in Call /\ reply = None
  BY <1>2, <1>4 DEF TypeOK, QueueInv
<1>6. QueueInv'
  BY <1>2 DEF QueueInv, OnlyDiscover
<1>7. CallInv'
  BY <1>3 DEF CallInv, Transferring
<1>8. QED
  BY <1>2, <1>3, <1>4, <1>5, <1>6, <1>7

(* Requests that transfer nothing: the reply has no sectors. *)
LEMMA ServeNothing ==
    ASSUME Inv, slow # <<>>, Head(slow).op # "discover", Served,
           NEW v \in {"no card", "new card", "inserted", "ok", "error"},
           Reply(v, NoSectors), v = "ok" => Head(slow).op # "read",
           UNCHANGED <<cacheVars, slot, used, disk, powered, cardFlag, inserted, mode, sized, ppc>>,
           selected' \in BOOLEAN,
           \/ newCard' = newCard /\ touched' = touched
           \/ /\ Head(slow).op = "ack" /\ newCard' = FALSE
              /\ touched' = IF newCard THEN {} ELSE touched
    PROVE  Inv'
<1> USE DEF Inv, ppc
<1>1. /\ CacheInv' /\ CacheTypeOK' /\ slow' \in Seq(Request)
      /\ QueueInv' /\ CallInv'
      /\ call # None /\ call' = call /\ got' = got
      /\ Suits(Head(slow), call) /\ Head(slow) \in Request
  BY ServedParts
<1>2. v = "ok" => call.op # "read"
  BY <1>1 DEF Suits, Request
<1>3. reply' \in Replies /\ DOMAIN reply'.data = {} /\ reply'.value = v
  BY NoSectorsType, RepliesType DEF Reply
<1>4. TypeOK'
  BY <1>1, <1>3 DEF TypeOK
<1>5. SlotInv' /\ TagInv' /\ CacheCoherent' /\ ReadyIsKnown'
  BY <1>3 DEF SlotInv, TagInv, Valid, CacheCoherent, ReadyIsKnown, cacheVars
<1>6. Head(slow).op = "ack" => DOMAIN got = {}
  BY <1>1 DEF GotInv, Suits
<1>7. AckedInv' /\ NoSilentExchange'
  BY DEF AckedInv, NoSilentExchange
<1>8. GotInv'
  BY <1>1, <1>3, <1>6 DEF GotInv
<1>9. ReplyInv'
  BY <1>1, <1>2, <1>3 DEF ReplyInv
<1>10. QED
  BY <1>1, <1>4, <1>5, <1>7, <1>8, <1>9

LEMMA SimpleServeStep ==
    ASSUME Inv, ServeState \/ ServeAck \/ ServeSize \/ ServeRefused \/ ServeReadFails PROVE Inv'
<1> USE DEF hardware, card, Serving
<1>1. TypeOK
  BY DEF Inv
<1>2. selected \in BOOLEAN
  BY <1>1 DEF TypeOK
<1>3. CASE ServeState
  <2>1. CardState \in {"no card", "new card", "inserted"}
    BY DEF CardState
  <2>2. QED
    BY <1>2, <1>3, <2>1, ServeNothing DEF ServeState
<1>4. CASE ServeAck
  <2> DEFINE v == IF newCard THEN "ok" ELSE "error"
  <2>1. v \in {"ok", "error"} /\ Reply(v, NoSectors)
    BY <1>4 DEF ServeAck
  <2> HIDE DEF v
  <2>2. QED
    BY <1>2, <1>4, <2>1, ServeNothing DEF ServeAck
<1>5. CASE ServeSize
  <2> DEFINE v == IF inserted /\ ~newCard THEN "ok" ELSE "error"
  <2>1. v \in {"ok", "error"} /\ Reply(v, NoSectors)
    BY <1>5 DEF ServeSize
  <2> HIDE DEF v
  <2>2. QED
    BY <1>2, <1>5, <2>1, ServeNothing DEF ServeSize
<1>6. CASE ServeRefused
  <2>1. selected' \in BOOLEAN
    BY <1>2, <1>6 DEF ServeRefused, Select
  <2>2. QED
    BY <1>6, <2>1, ServeNothing DEF ServeRefused
<1>7. CASE ServeReadFails
  <2>1. selected' \in BOOLEAN
    BY <1>2, <1>7 DEF ServeReadFails, Accepted, Select
  <2>2. QED
    BY <1>7, <2>1, ServeNothing DEF ServeReadFails
<1>8. QED
  BY <1>3, <1>4, <1>5, <1>6, <1>7

LEMMA OwnSector ==
    ASSUME NEW f \in Sectors, NEW n \in 1 .. 2
    PROVE  f \in SectorsOf(f, n) /\ SectorsOf(f, n) \subseteq Sectors
<1>1. f \in Nat /\ n \in Nat /\ n >= 1
  BY CacheAssumption
<1>2. InRange(f, f, n)
  BY <1>1 DEF InRange
<1>3. QED
  BY <1>2 DEF SectorsOf

LEMMA RequestSectors ==
    ASSUME NEW r \in Request
    PROVE  /\ r.first \in SectorsOf(r.first, r.count)
           /\ SectorsOf(r.first, r.count) \subseteq Sectors
BY OwnSector DEF Request

(* Sectors are read only of a card that was acknowledged. *)
LEMMA ServeReadStep == ASSUME Inv, ServeRead PROVE Inv'
<1> USE DEF Inv, hardware, ppc
<1> DEFINE r == Head(slow)
           read == [s \in SectorsOf(r.first, r.count) |-> disk[s]]
<1>1. slow # <<>> /\ r.op = "read" /\ Served
  BY DEF ServeRead, Serving
<1>2. /\ CacheInv' /\ CacheTypeOK' /\ slow' \in Seq(Request)
      /\ QueueInv' /\ CallInv'
      /\ call # None /\ call' = call /\ got' = got
      /\ Suits(r, call) /\ r \in Request
  BY <1>1, ServedParts DEF ServeRead
<1>3. slot \in Cards /\ slot = used /\ \A s \in Sectors : disk[s] \in Data /\ disk[s].card = slot
  BY DEF ServeRead, SlotInv, ReadyIsKnown, TypeOK, Disk
<1>4. /\ read \in DataOfSectors /\ DOMAIN read = SectorsOf(r.first, r.count)
      /\ \A s \in DOMAIN read : s \in Sectors /\ read[s] = disk[s]
  <2> DEFINE S == SectorsOf(r.first, r.count)
  <2>1. S \subseteq Sectors
    BY <1>2, RequestSectors
  <2> HIDE DEF S
  <2>2. read = [s \in S |-> disk[s]]
    BY DEF S
  <2>3. read \in [S -> Data] /\ \A s \in S : read[s] = disk[s]
    BY <1>3, <2>1, <2>2
  <2>4. DOMAIN read = S
    BY <2>2
  <2>5. QED
    BY <2>1, <2>3, <2>4 DEF DataOfSectors, S
<1>5. reply' = [value |-> "ok", data |-> read]
  BY DEF ServeRead, Reply
<1>6. call.op = "read" /\ (call.count = 1 => call.first \in DOMAIN read)
  <2>1. r.first \in SectorsOf(r.first, r.count)
    BY <1>2, RequestSectors
  <2>2. QED
    BY <1>1, <1>2, <1>4, <2>1 DEF Suits
<1> HIDE DEF read
<1>7. reply' \in Replies /\ reply'.data = read /\ reply'.value = "ok"
  BY <1>4, <1>5, RepliesType
<1>8. touched' = touched \cup {slot} /\ touched \subseteq {slot}
  BY DEF ServeRead, Accepted, AckedInv
<1>9. TypeOK'
  BY <1>2, <1>3, <1>7, <1>8 DEF TypeOK, ServeRead, Accepted, Select
<1>10. SlotInv' /\ CacheCoherent' /\ ReadyIsKnown'
  BY DEF ServeRead, SlotInv, CacheCoherent, Valid, ReadyIsKnown, cacheVars
<1>11. TagInv'
  BY <1>3, <1>4, <1>7, CardsAreNat DEF ServeRead, TagInv, Valid, cacheVars
<1>12. AckedInv' /\ NoSilentExchange'
  BY <1>8 DEF ServeRead, AckedInv, NoSilentExchange
<1>13. GotInv'
  BY <1>2, <1>3, <1>4, <1>6, <1>7, <1>8 DEF GotInv
<1>14. ReplyInv'
  BY <1>2, <1>4, <1>6, <1>7 DEF ReplyInv, ServeRead
<1>15. QED
  BY <1>2, <1>9, <1>10, <1>11, <1>12, <1>13, <1>14

(* The sectors a request writes are not in the cache. *)
LEMMA WritesUncached ==
    ASSUME Inv, slow # <<>>, Head(slow).op = "write", call # None, Suits(Head(slow), call),
           NEW i \in Slots, Valid(i)
    PROVE  cache[i].sector \in Sectors
           /\ cache[i].sector \notin SectorsOf(Head(slow).first, Head(slow).count)
BY DEF Inv, CallInv, Transferring, Suits, Valid, Holding, CacheInv, CacheTypeOK, Cached

LEMMA WriteStep ==
    ASSUME Inv, slow # <<>>, Head(slow).op = "write", Served, Accepted,
           NEW v \in {"ok", "error"}, Reply(v, NoSectors),
           NEW hit \in SUBSET SectorsOf(Head(slow).first, Head(slow).count),
           NEW text \in Texts \cup {Torn},
           \/ /\ powered /\ touched' = touched \cup {slot}
              /\ disk' = [s \in Sectors |-> IF s \in hit
                                             THEN [card |-> slot, text |-> text] ELSE disk[s]]
           \/ ~powered /\ touched' = touched /\ disk' = disk,
           UNCHANGED <<cacheVars, slot, used, powered, cardFlag, inserted, newCard, mode, sized, ppc>>
    PROVE  Inv'
<1> USE DEF Inv, ppc
<1>1. /\ CacheInv' /\ CacheTypeOK' /\ slow' \in Seq(Request)
      /\ QueueInv' /\ CallInv'
      /\ call # None /\ call' = call /\ got' = got
      /\ Suits(Head(slow), call) /\ Head(slow) \in Request
  BY ServedParts
<1>2. call.op = "write"
  BY <1>1 DEF Suits
<1>3. reply' \in Replies /\ DOMAIN reply'.data = {}
  BY NoSectorsType, RepliesType DEF Reply
<1>4. powered => slot \in Cards
  BY DEF SlotInv, ReadyIsKnown
<1>5. disk' \in Disk /\ (slot # NoCard => \A s \in Sectors : disk'[s].card = slot)
  <2>1. CASE ~powered
    BY <2>1 DEF TypeOK, SlotInv
  <2>2. CASE powered
    <3> DEFINE new == [card |-> slot, text |-> text]
    <3>1. new \in Data /\ new.card = slot
      BY <1>4, <2>2, DataFields
    <3>2. disk' = [s \in Sectors |-> IF s \in hit THEN new ELSE disk[s]]
      BY <2>2
    <3> HIDE DEF new
    <3>3. QED
      BY <3>1, <3>2 DEF TypeOK, SlotInv, Disk
  <2>3. QED
    BY <2>1, <2>2
<1>6. \A s \in Sectors : s \notin SectorsOf(Head(slow).first, Head(slow).count) => disk'[s] = disk[s]
  BY DEF SectorsOf
<1>7. TypeOK'
  BY <1>1, <1>3, <1>4, <1>5 DEF TypeOK, Accepted, Select
<1>8. SlotInv' /\ ReadyIsKnown' /\ TagInv'
  BY <1>3, <1>5 DEF SlotInv, ReadyIsKnown, TagInv, Valid, cacheVars
<1>9. CacheCoherent'
  BY <1>1, <1>6, WritesUncached DEF CacheCoherent, Valid, cacheVars
<1>10. AckedInv' /\ NoSilentExchange'
  BY DEF AckedInv, NoSilentExchange, Accepted
<1>11. GotInv' /\ ReplyInv'
  BY <1>1, <1>2, <1>3 DEF GotInv, ReplyInv
<1>12. QED
  BY <1>1, <1>7, <1>8, <1>9, <1>10, <1>11

LEMMA ServeWriteStep == ASSUME Inv, ServeWrite PROVE Inv'
<1> DEFINE r == Head(slow)
           hit == SectorsOf(r.first, r.count)
<1>1. slow # <<>> /\ r.op = "write" /\ r \in Request
  BY ServedTail DEF ServeWrite, Serving, Inv, TypeOK
<1>2. r.text \in Texts \cup {Torn}
  BY <1>1 DEF Request
<1>3. QED
  BY <1>1, <1>2, WriteStep DEF ServeWrite

LEMMA ServeWriteFailsStep == ASSUME Inv, ServeWriteFails PROVE Inv'
<1> DEFINE r == Head(slow)
<1>1. slow # <<>> /\ r.op = "write"
  BY DEF ServeWriteFails, Serving
<1>2. PICK hit \in SUBSET SectorsOf(r.first, r.count) :
         \/ /\ powered
            /\ disk' = [s \in Sectors |-> IF s \in hit
                                           THEN [card |-> slot, text |-> Torn] ELSE disk[s]]
         \/ ~powered /\ disk' = disk
  BY DEF ServeWriteFails
<1>3. QED
  BY <1>1, <1>2, WriteStep DEF ServeWriteFails

-----------------------------------------------------------------------------
(* The PowerPC. *)
Shrunk ==
    \A i \in Slots : Valid(i)' => /\ Valid(i)
                                 /\ cache'[i].sector = cache[i].sector
                                 /\ cache'[i].data = cache[i].data

Tagged == \A i \in Slots : Valid(i) => cache[i].data.card <= used

LEMMA ShrunkKeeps ==
    ASSUME Inv, Shrunk, UNCHANGED <<slot, used, disk>>
    PROVE  Tagged' /\ CacheCoherent' /\ \A s : Holding(s) = {} => Holding(s)' = {}
BY DEF Inv, Shrunk, Tagged, TagInv, CacheCoherent, Valid, Holding

LEMMA SameShrunk == ASSUME CacheInv, UNCHANGED cacheVars PROVE Shrunk /\ CacheInv'
BY CacheSame DEF Shrunk, Valid, cacheVars

(* A call begins, and sends its first request. *)
LEMMA BeginStep ==
    ASSUME Inv, Idle, Shrunk, CacheInv',
           call' \in Call, NEW r \in Request, Send(r), Suits(r, call'), CallInv',
           UNCHANGED <<hardware, card, got, reply, touched>>
    PROVE  Inv'
<1> USE DEF Inv, Idle, hardware, card
<1>1. slow \in Seq(Request) /\ reply = None /\ OnlyDiscover
  BY NoRequest DEF TypeOK, QueueInv
<1>2. call' # None
  BY NoCallAssumption
<1>3. slow' \in Seq(Request) /\ QueueInv'
  BY <1>1, <1>2, SendQueue
<1>4. Tagged' /\ CacheCoherent'
  BY ShrunkKeeps
<1>5. TypeOK'
  BY <1>3 DEF TypeOK, CacheInv
<1>6. SlotInv' /\ AckedInv' /\ ReadyIsKnown' /\ NoSilentExchange'
  BY DEF SlotInv, AckedInv, ReadyIsKnown, NoSilentExchange
<1>7. TagInv' /\ ReplyInv' /\ GotInv'
  BY <1>1, <1>4 DEF TagInv, Tagged, ReplyInv, GotInv
<1>8. QED
  BY <1>3, <1>4, <1>5, <1>6, <1>7

LEMMA CallPlainStep == ASSUME Inv, CallPlain PROVE Inv'
<1>1. PICK op \in {"init", "status", "size"} :
         /\ call' = [op |-> op, first |-> 0, count |-> 1, big |-> FALSE, at |-> 0, text |-> Torn]
         /\ Send(Plain(IF op = "size" THEN "size" ELSE "state"))
  BY DEF CallPlain
<1> DEFINE r == Plain(IF op = "size" THEN "size" ELSE "state")
<1>2. r \in Request /\ r.op \in {"size", "state"}
  BY CardsAssumption DEF Plain, Request
<1> HIDE DEF r
<1>3. call' \in Call /\ call'.op = op
  BY <1>1, CardsAssumption DEF Call
<1>4. Suits(r, call') /\ CallInv'
  BY <1>2, <1>3 DEF Suits, CallInv, Transferring
<1>5. Shrunk /\ CacheInv'
  BY SameShrunk DEF CallPlain, Inv
<1>6. QED
  BY <1>1, <1>2, <1>3, <1>4, <1>5, BeginStep DEF CallPlain, r

LEMMA CallReadHitStep == ASSUME Inv, NEW s \in Sectors, CallReadHit(s) PROVE Inv'
<1> USE DEF Inv, CallReadHit, hardware, card, ppc
<1>1. CacheInv' /\ Shrunk
  BY ReadKeeps DEF Shrunk, Valid
<1>2. Tagged' /\ CacheCoherent'
  BY <1>1, ShrunkKeeps
<1>3. TypeOK'
  BY <1>1 DEF TypeOK, CacheInv
<1>4. SlotInv' /\ AckedInv' /\ ReadyIsKnown' /\ NoSilentExchange'
  BY DEF SlotInv, AckedInv, ReadyIsKnown, NoSilentExchange
<1>5. TagInv' /\ ReplyInv' /\ GotInv' /\ QueueInv'
  BY <1>2 DEF TagInv, Tagged, ReplyInv, GotInv, QueueInv
<1>6. CallInv'
  BY DEF CallInv, Transferring, Idle
<1>7. QED
  BY <1>1, <1>2, <1>3, <1>4, <1>5, <1>6

(* A single sector, and a batch of sectors. *)
LEMMA OneSector ==
    ASSUME NEW f \in Sectors, NEW s \in SectorsOf(f, 1) PROVE s = f
<1>1. s \in Nat /\ f \in Nat /\ InRange(s, f, 1)
  BY CacheAssumption DEF SectorsOf
<1>2. QED
  BY <1>1 DEF InRange

LEMMA SomeSectors ==
    ASSUME NEW f \in Sectors, NEW n \in 1 .. 2, NEW at \in Sectors, at \in f .. f + n - 1
    PROVE  SectorsOf(at, 1) \subseteq SectorsOf(f, n)
<1>1. f \in Nat /\ n \in Nat /\ at \in Nat
  BY CacheAssumption
<1>2. at \in SectorsOf(f, n)
  BY <1>1 DEF SectorsOf, InRange
<1>3. QED
  BY <1>2, OneSector

LEMMA BeginTransfer ==
    ASSUME Inv, Idle, NEW op \in {"read", "write"},
           NEW first \in Sectors, NEW count \in 1 .. 2, NEW big \in BOOLEAN,
           NEW text \in Texts \cup {Torn},
           Fits(first, count), Shrunk, CacheInv',
           \A s \in SectorsOf(first, count) : Holding(s)' = {},
           call' = [op |-> op, first |-> first, count |-> count, big |-> big,
                    at |-> first, text |-> text],
           Send(Transfer(op, first, Batch(count, big), text)),
           UNCHANGED <<hardware, card, got, reply, touched>>
    PROVE  Inv'
<1> DEFINE n == Batch(count, big)
           r == Transfer(op, first, n, text)
<1>1. n \in 1 .. 2 /\ n \in {1, count} /\ first \in Nat /\ count \in Nat /\ count >= 1
  BY CacheAssumption DEF Batch
<1>2. SectorsOf(first, n) \subseteq SectorsOf(first, count)
  BY <1>1, SomeSectors
<1> HIDE DEF n
<1>3. r \in Request /\ r.op = op /\ r.first = first /\ r.count = n
  BY <1>1 DEF Transfer, Request
<1> HIDE DEF r
<1>4. /\ call' \in Call /\ call'.op = op /\ call'.first = first
      /\ call'.count = count /\ call'.at = first
  BY <1>1 DEF Call
<1>5. Suits(r, call')
  BY <1>2, <1>3, <1>4 DEF Suits
<1>6. CallInv'
  BY <1>1, <1>4 DEF CallInv, Transferring, Fits, SectorsOf
<1>7. QED
  BY <1>3, <1>4, <1>5, <1>6, BeginStep DEF r, n

(* What the cache forgets it does not hold any more. *)
LEMMA Forgotten ==
    ASSUME Inv, NEW first \in Sectors, NEW count \in 1 .. 2, InvalidateCache(first, count)
    PROVE  Shrunk /\ CacheInv' /\ \A s \in SectorsOf(first, count) : Holding(s)' = {}
<1>1. first \in Nat /\ count \in Nat
  BY CacheAssumption
<1>2. /\ CacheInv'
      /\ \A i \in Slots : cache'[i] # None =>
            cache'[i] = cache[i] /\ ~InRange(cache[i].sector, first, count)
  BY <1>1, InvalidateForgets DEF Inv
<1>3. QED
  BY <1>2 DEF Shrunk, Valid, Holding, SectorsOf

LEMMA CallTransferStep == ASSUME Inv, CallTransfer PROVE Inv'
<1>1. PICK first \in Sectors, count \in 1 .. 2, big \in BOOLEAN :
         /\ Fits(first, count)
         /\ \/ CallRead(first, count, big)
            \/ \E text \in Texts : CallWrite(first, count, big, text)
  BY DEF CallTransfer
<1>2. CASE CallRead(first, count, big)
  <2>1. Shrunk /\ CacheInv' /\ \A s \in SectorsOf(first, count) : Holding(s)' = {}
    <3>1. CASE count = 1
      <4>1. Holding(first) = {} /\ UNCHANGED cacheVars
        BY <1>2, <3>1 DEF CallRead
      <4>2. \A s \in SectorsOf(first, count) : s = first
        BY <3>1, OneSector
      <4>3. QED
        BY <4>1, <4>2, SameShrunk, CacheSame DEF Inv
    <3>2. CASE count # 1
      BY <1>2, <3>2, Forgotten DEF CallRead
    <3>3. QED
      BY <3>1, <3>2
  <2>2. QED
    BY <1>1, <1>2, <2>1, BeginTransfer DEF CallRead
<1>3. CASE \E text \in Texts : CallWrite(first, count, big, text)
  <2>1. PICK text \in Texts : CallWrite(first, count, big, text)
    BY <1>3
  <2>2. Shrunk /\ CacheInv' /\ \A s \in SectorsOf(first, count) : Holding(s)' = {}
    BY <2>1, Forgotten DEF CallWrite
  <2>3. QED
    BY <1>1, <2>1, <2>2, BeginTransfer DEF CallWrite
<1>4. QED
  BY <1>1, <1>2, <1>3

LEMMA PlainType ==
    ASSUME NEW op \in {"state", "ack", "size", "discover"}
    PROVE  Plain(op) \in Request /\ Plain(op).op = op
BY CardsAssumption DEF Plain, Request

LEMMA InitMountsStep == ASSUME Inv, InitMounts PROVE Inv'
<1> USE DEF Inv, InitMounts, Answered, Taken, hardware, card, ppc
<1>1. slow \in Seq(Request) /\ OnlyDiscover
  BY NoRequest DEF TypeOK
<1> DEFINE r == Plain("ack")
<1>2. r \in Request /\ r.op = "ack"
  BY PlainType
<1>3. slow' \in Seq(Request) /\ QueueInv'
  <2>1. call' = call /\ call # None /\ call.op = "init" /\ reply' = None /\ Send(r)
    OBVIOUS
  <2> HIDE DEF r
  <2>2. Suits(r, call')
    BY <1>2, <2>1 DEF Suits
  <2>3. QED
    BY <1>1, <1>2, <2>1, <2>2, SendQueue
<1>4. CacheInv' /\ CacheTypeOK'
  BY CacheSame
<1>5. TypeOK'
  BY <1>3, <1>4 DEF TypeOK
<1>6. SlotInv' /\ AckedInv' /\ ReadyIsKnown' /\ NoSilentExchange'
  BY DEF SlotInv, AckedInv, ReadyIsKnown, NoSilentExchange
<1>7. CacheCoherent' /\ TagInv' /\ ReplyInv' /\ GotInv'
  BY DEF CacheCoherent, TagInv, Valid, ReplyInv, GotInv, cacheVars
<1>8. CallInv'
  BY DEF CallInv, Transferring
<1>9. QED
  BY <1>3, <1>4, <1>5, <1>6, <1>7, <1>8

(* The next sector of a call of several. *)
LEMMA NextSectorStep == ASSUME Inv, NextSector PROVE Inv'
<1> USE DEF Inv, NextSector, Taken, hardware, card
<1> DEFINE r == Transfer(call.op, call.at + 1, 1, call.text)
<1>1. slow \in Seq(Request) /\ OnlyDiscover
  BY NoRequest DEF TypeOK
<1>2. /\ call \in Call /\ call.first \in Sectors /\ call.count \in 1 .. 2 /\ call.at \in Nat
      /\ call.text \in Texts \cup {Torn} /\ Sectors \subseteq Nat
  BY CacheAssumption DEF TypeOK, Call
<1>3. /\ call' \in Call /\ call'.op = call.op /\ call'.first = call.first
      /\ call'.count = call.count /\ call'.at = call.at + 1
  BY <1>2 DEF Call
<1>4. /\ call.first + call.count - 1 \in Sectors
      /\ call.at \in call.first .. call.first + call.count - 1
      /\ call.at # call.first + call.count - 1
  BY DEF CallInv, Transferring, Fits, Complete
<1>5. /\ call.at + 1 \in Sectors /\ call.count # 1
      /\ call.at + 1 \in call.first .. call.first + call.count - 1
  <2>1. call.at + 1 = call.first + call.count - 1 /\ call.count = 2
    BY <1>2, <1>4
  <2>2. QED
    BY <1>2, <1>4, <2>1
<1>6. SectorsOf(call.at + 1, 1) \subseteq SectorsOf(call.first, call.count)
  BY <1>2, <1>5, SomeSectors
<1>7. r \in Request /\ r.op = call.op /\ r.first = call.at + 1 /\ r.count = 1
  BY <1>2, <1>5 DEF Transfer, Request
<1> HIDE DEF r
<1>8. Suits(r, call')
  BY <1>3, <1>5, <1>6, <1>7 DEF Suits
<1>9. call' # None /\ reply' = None
  BY <1>3, NoCallAssumption
<1>10. Send(r)
  BY DEF r
<1>11. slow' \in Seq(Request) /\ QueueInv'
  BY <1>1, <1>7, <1>8, <1>9, <1>10, SendQueue
<1>12. CacheInv' /\ CacheTypeOK' /\ \A s : Holding(s)' = Holding(s)
  BY CacheSame
<1>13. /\ got' \in DataOfSectors
       /\ \A s \in DOMAIN got' : call.op = "read" /\ got'[s].card \in touched
  <2>1. got \in DataOfSectors /\ reply.data \in DataOfSectors
    BY ReplyData DEF TypeOK, DataOfSectors
  <2>2. got' = Both(got, reply.data)
    OBVIOUS
  <2>3. /\ \A s \in DOMAIN got : call.op = "read" /\ got[s].card \in touched
        /\ \A s \in DOMAIN reply.data : call.op = "read" /\ reply.data[s].card \in touched
    BY DEF GotInv
  <2> DEFINE b == Both(got, reply.data)
  <2>4. /\ b \in DataOfSectors /\ DOMAIN b = DOMAIN got \cup DOMAIN reply.data
        /\ \A s \in DOMAIN got : b[s] = got[s]
        /\ \A s \in DOMAIN reply.data \ DOMAIN got : b[s] = reply.data[s]
    BY <2>1, BothType
  <2> HIDE DEF b
  <2>5. \A s \in DOMAIN b : call.op = "read" /\ b[s].card \in touched
    BY <2>3, <2>4
  <2>6. QED
    BY <2>2, <2>4, <2>5 DEF b
<1>14. TypeOK'
  BY <1>3, <1>9, <1>11, <1>12, <1>13 DEF TypeOK, DataOfSectors
<1>15. SlotInv' /\ AckedInv' /\ ReadyIsKnown' /\ NoSilentExchange'
  BY DEF SlotInv, AckedInv, ReadyIsKnown, NoSilentExchange
<1>16. CacheCoherent' /\ TagInv' /\ ReplyInv'
  BY <1>9 DEF CacheCoherent, TagInv, Valid, ReplyInv, cacheVars
<1>17. GotInv'
  BY <1>3, <1>9, <1>13 DEF GotInv
<1>18. CallInv'
  BY <1>3, <1>5, <1>12 DEF CallInv, Transferring, Fits
<1>19. QED
  BY <1>11, <1>12, <1>14, <1>15, <1>16, <1>17, <1>18

(* A call returns. *)
LEMMA ReturnStep ==
    ASSUME Inv, call # None, reply # None, Return, Taken,
           CacheInv', Tagged', CacheCoherent',
           UNCHANGED <<hardware, slow, card, touched>>
    PROVE  Inv'
<1> USE DEF Inv, Return, Taken, hardware, card
<1>1. OnlyDiscover
  BY NoRequest
<1>2. TypeOK'
  BY NoSectorsType DEF TypeOK, CacheInv, DataOfSectors
<1>3. SlotInv' /\ AckedInv' /\ ReadyIsKnown' /\ NoSilentExchange'
  BY DEF SlotInv, AckedInv, ReadyIsKnown, NoSilentExchange
<1>4. TagInv' /\ ReplyInv' /\ CallInv'
  BY DEF TagInv, Tagged, ReplyInv, CallInv, Transferring
<1>5. QueueInv' /\ GotInv'
  BY <1>1, NoSectorsType DEF QueueInv, OnlyDiscover, GotInv
<1>6. QED
  BY <1>2, <1>3, <1>4, <1>5

LEMMA SimpleReturnStep == ASSUME Inv, PlainReturns \/ WriteReturns \/ TransferFails PROVE Inv'
<1>1. call # None /\ reply # None /\ Return /\ Taken /\ UNCHANGED <<cacheVars, hardware, slow, card, touched>>
  BY DEF PlainReturns, WriteReturns, TransferFails, Answered
<1>2. Shrunk /\ CacheInv'
  BY <1>1, SameShrunk DEF Inv
<1>3. Tagged' /\ CacheCoherent'
  BY <1>1, <1>2, ShrunkKeeps DEF hardware
<1>4. QED
  BY <1>1, <1>2, <1>3, ReturnStep

(* The one sector that is read is put in the cache. *)
LEMMA ReadReturnsStep == ASSUME Inv, ReadReturns PROVE Inv'
<1>1. /\ call # None /\ call.op = "read" /\ reply # None /\ reply.value = "ok"
      /\ Return /\ Taken /\ UNCHANGED <<hardware, slow, card, touched>>
  BY DEF ReadReturns, Answered
<1>2. CASE call.count = 1
  <2> DEFINE d == reply.data[call.first]
  <2>1. call.first \in DOMAIN reply.data /\ (d.card = slot => d = disk[call.first])
    BY <1>1, <1>2 DEF Inv, ReplyInv
  <2>2. call.first \in Sectors /\ d \in Data /\ d.card <= used
    BY <1>1, <2>1, ReplyData DEF Inv, TagInv
  <2>3. Holding(call.first) = {}
    BY <1>1, <1>2, <2>2, OwnSector DEF Inv, CallInv, Transferring
  <2>4. AddToCache(call.first, d)
    BY <1>2 DEF ReadReturns
  <2> HIDE DEF d
  <2>5. /\ CacheInv'
        /\ \A i \in Slots : cache'[i] # None =>
              cache'[i] = cache[i] \/ (cache'[i].sector = call.first /\ cache'[i].data = d)
    BY <2>2, <2>3, <2>4, AddChangesOne DEF Inv
  <2>6. Tagged' /\ CacheCoherent'
    <3>1. slot' = slot /\ disk' = disk /\ used' = used
      BY <1>1 DEF hardware
    <3>2. \A i \in Slots : Valid(i) => cache[i].data.card <= used
      BY DEF Inv, TagInv
    <3>3. CacheCoherent
      BY DEF Inv
    <3>4. d.card = slot => d = disk[call.first]
      BY <2>1 DEF d
    <3>5. Tagged'
      BY <2>2, <2>5, <3>1, <3>2 DEF Tagged, Valid
    <3>6. CacheCoherent'
      BY <2>5, <3>1, <3>3, <3>4 DEF CacheCoherent, Valid
    <3>7. QED
      BY <3>5, <3>6
  <2>7. QED
    BY <1>1, <2>5, <2>6, ReturnStep
<1>3. CASE call.count # 1
  <2>1. Shrunk /\ CacheInv'
    BY <1>3, SameShrunk DEF Inv, ReadReturns
  <2>2. Tagged' /\ CacheCoherent'
    BY <1>1, <2>1, ShrunkKeeps DEF hardware
  <2>3. QED
    BY <1>1, <2>1, <2>2, ReturnStep
<1>4. QED
  BY <1>2, <1>3

-----------------------------------------------------------------------------
LEMMA NextInv == Inv /\ [Next]_vars => Inv'
<1> SUFFICES ASSUME Inv, [Next]_vars PROVE Inv'
  OBVIOUS
<1>1. CASE InsertCard \/ RemoveCard \/ CardIrq
  BY <1>1, InsertCardStep, RemoveCardStep, CardIrqStep
<1>2. CASE Arm
  BY <1>2, DiscoveryStep, SimpleServeStep, ServeReadStep, ServeWriteStep, ServeWriteFailsStep DEF Arm
<1>3. CASE Ppc
  BY <1>3, CallPlainStep, CallTransferStep, CallReadHitStep, InitMountsStep, NextSectorStep,
     SimpleReturnStep, ReadReturnsStep DEF Ppc
<1>4. CASE UNCHANGED vars
  <2> USE <1>4 DEF vars, hardware, card, ppc
  <2>1. CacheInv' /\ CacheTypeOK' /\ \A t : Holding(t)' = Holding(t)
    BY CacheSame DEF Inv
  <2>2. TypeOK'
    BY <2>1 DEF Inv, TypeOK
  <2>3. SlotInv' /\ AckedInv' /\ ReadyIsKnown' /\ NoSilentExchange'
    BY DEF Inv, SlotInv, AckedInv, ReadyIsKnown, NoSilentExchange
  <2>4. TagInv' /\ CacheCoherent' /\ ReplyInv' /\ GotInv' /\ QueueInv'
    BY DEF Inv, TagInv, CacheCoherent, Valid, ReplyInv, GotInv, QueueInv, cacheVars
  <2>5. CallInv'
    BY <2>1 DEF Inv, CallInv, Transferring
  <2>6. QED
    BY <2>1, <2>2, <2>3, <2>4, <2>5 DEF Inv
<1>5. QED
  BY <1>1, <1>2, <1>3, <1>4 DEF Next

(* The inductive invariant of the card layer, its host driver and libdiskmii. *)
THEOREM Invariance == Spec => []Inv
BY InitInv, NextInv, PTL DEF Spec

(* Every variable of the disk and card layers has its type, forever. *)
THEOREM DiskTypes == Spec => []TypeOK
<1>1. Inv => TypeOK
  BY DEF Inv
<1>2. QED
  BY <1>1, Invariance, PTL

(***************************************************************************)
(* What the cache holds of the card in the slot is what the card holds,    *)
(* through failed writes, reads of several sectors and exchanged cards.    *)
(***************************************************************************)
THEOREM CacheIsCoherent == Spec => []CacheCoherent
<1>1. Inv => CacheCoherent
  BY DEF Inv
<1>2. QED
  BY <1>1, Invariance, PTL

(* Between two acknowledgements (sdmmc_ack_card) one card is accessed. *)
THEOREM NoCardExchangedSilently == Spec => []NoSilentExchange
<1>1. Inv => NoSilentExchange
  BY DEF Inv
<1>2. QED
  BY <1>1, Invariance, PTL

(* A card that is on is one whose discovery (sdmmc_needs_discover) ended well. *)
THEOREM OnlyKnownCardsAreReady == Spec => []ReadyIsKnown
<1>1. Inv => ReadyIsKnown
  BY DEF Inv
<1>2. QED
  BY <1>1, Invariance, PTL

(* The sectors of one call of SD_disk_read are of one card. *)
THEOREM ReadsAreOfOneCard == Spec => []ReadFromOneCard
<1>1. Inv => ReadFromOneCard
  <2> SUFFICES ASSUME Inv, reply # None
               PROVE  LET read == Both(got, reply.data)
                      IN \A s, t \in DOMAIN read : read[s].card = read[t].card
    BY DEF ReadFromOneCard
  <2>1. got \in DataOfSectors /\ reply.data \in DataOfSectors
    BY ReplyData DEF Inv, TypeOK, DataOfSectors
  <2> DEFINE b == Both(got, reply.data)
  <2>2. /\ DOMAIN b = DOMAIN got \cup DOMAIN reply.data
        /\ \A s \in DOMAIN got : b[s] = got[s]
        /\ \A s \in DOMAIN reply.data \ DOMAIN got : b[s] = reply.data[s]
    BY <2>1, BothType
  <2> HIDE DEF b
  <2>3. \A s \in DOMAIN b : b[s].card \in touched
    BY <2>2 DEF Inv, GotInv
  <2>4. \A c, e \in touched : c = e
    BY DEF Inv, NoSilentExchange
  <2>5. \A s, t \in DOMAIN b : b[s].card = b[t].card
    BY <2>3, <2>4
  <2>6. QED
    BY <2>5 DEF b
<1>2. QED
  BY <1>1, Invariance, PTL

=============================================================================
