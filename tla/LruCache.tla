------------------------------ MODULE LruCache ------------------------------
(***************************************************************************)
(* What a cache of sectors promises: it holds at most Capacity of them,    *)
(* and gives up the one that was not used for the longest time.            *)
(***************************************************************************)
EXTENDS Naturals, FiniteSets

CONSTANTS Capacity, Entry   \* Entry: records with a field sector

VARIABLES
    held,     \* the entries
    before,   \* pairs of their sectors: the first was not used since the second was
    asked     \* the sector that was used last, whoever provided it

lruVars == <<held, before, asked>>

SectorsIn(S) == {e.sector : e \in S}

(* A relation between sectors, as far as it is about those in S. *)
Within(R, S) == {p \in R : p[1] \in S /\ p[2] \in S}

(* The sector s is used: it becomes the youngest of those in S and itself. *)
Youngest(s, S) == Within(before, S \ {s}) \cup {<<t, s>> : t \in S \ {s}}

Init == held = {} /\ before = {}

(* A cached sector is used. *)
Touch(e) ==
    /\ UNCHANGED held
    /\ before' = Youngest(e.sector, SectorsIn(held))
    /\ asked' = e.sector

(* The oldest entry: every other one was used since. *)
Eldest == {o \in held : \A e \in held \ {o} : <<o.sector, e.sector>> \in before}

(* A sector is added, in the place of the oldest one if the cache is full. *)
Insert(e) ==
    /\ e.sector \notin SectorsIn(held)
    /\ \E kept \in SUBSET held :
        /\ IF Cardinality(held) < Capacity THEN kept = held
           ELSE \E o \in Eldest : kept = held \ {o}
        /\ held' = kept \cup {e}
        /\ before' = Youngest(e.sector, SectorsIn(kept))
    /\ asked' = e.sector

(* Some sectors are forgotten. *)
Forget(sectors) ==
    /\ held' = {e \in held : e.sector \notin sectors}
    /\ before' = Within(before, SectorsIn(held'))
    /\ UNCHANGED asked

Next ==
    \/ \E e \in held : Touch(e)
    \/ \E e \in Entry : Insert(e)
    \/ \E sectors \in SUBSET SectorsIn(held) : Forget(sectors)

Spec == Init /\ [][Next]_lruVars
=============================================================================
