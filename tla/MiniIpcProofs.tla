--------------------------- MODULE MiniIpcProofs ---------------------------
(***************************************************************************)
(* Proofs about the rings and the processors of MiniIpc, for rings of      *)
(* every size and every number of requests, cards and uploads: the index   *)
(* arithmetic of a ring; types, registers and sleep; that MiniIpc          *)
(* implements BoundedFifo three times; what becomes of messages; and where *)
(* the processors stop.                                                    *)
(***************************************************************************)
EXTENDS MiniIpc, TLAPS

(* Slot i holds a message: it lies from head up to, not including, tail. *)
Occupied(i, head, tail) ==
    IF head <= tail THEN head <= i /\ i < tail ELSE head <= i \/ i < tail

(* The masked increment of the code: the next index, or 0 after the last. *)
LEMMA SuccValue ==
    ASSUME NEW n \in Nat, n > 1, NEW i \in 0 .. n - 1
    PROVE  /\ Succ(i, n) = IF i = n - 1 THEN 0 ELSE i + 1
           /\ Succ(i, n) \in 0 .. n - 1
           /\ Succ(i, n) # i
<1>1. CASE i = n - 1
  <2>1. (i + 1) % n = 0
    BY <1>1, SMT
  <2>2. QED
    BY <2>1, <1>1 DEF Succ
<1>2. CASE i # n - 1
  <2>1. i + 1 \in 0 .. n - 1
    BY <1>2
  <2>2. (i + 1) % n = i + 1
    BY <2>1, SMT
  <2>3. QED
    BY <2>1, <2>2, <1>2 DEF Succ
<1>3. QED
  BY <1>1, <1>2

(* Publishing a slot makes it, and no other one, occupied. *)
LEMMA OccupiedPut ==
    ASSUME NEW n \in Nat, n > 1, NEW head \in 0 .. n - 1, NEW tail \in 0 .. n - 1,
           ~IsFull(head, tail, n), NEW i \in 0 .. n - 1
    PROVE  Occupied(i, head, Succ(tail, n)) <=> Occupied(i, head, tail) \/ i = tail
BY SuccValue DEF Occupied, IsFull

(* Moving the head frees the slot it was at, and no other one. *)
LEMMA OccupiedGet ==
    ASSUME NEW n \in Nat, n > 1, NEW head \in 0 .. n - 1, NEW tail \in 0 .. n - 1,
           head # tail, NEW i \in 0 .. n - 1
    PROVE  Occupied(i, Succ(head, n), tail) <=> Occupied(i, head, tail) /\ i # head
BY SuccValue DEF Occupied

(* The head of a ring that is not empty is occupied; the tail never is. *)
LEMMA OccupiedEnds ==
    ASSUME NEW n \in Nat, NEW head \in 0 .. n - 1, NEW tail \in 0 .. n - 1
    PROVE  /\ head # tail => Occupied(head, head, tail)
           /\ ~Occupied(tail, head, tail)
BY DEF Occupied

(* Different indices have different successors. *)
LEMMA SuccInjective ==
    ASSUME NEW n \in Nat, n > 1, NEW i \in 0 .. n - 1, NEW j \in 0 .. n - 1,
           Succ(i, n) = Succ(j, n)
    PROVE  i = j
BY SuccValue

(* Consuming a message makes room: the ring does not become full. *)
LEMMA GetKeepsRoom ==
    ASSUME NEW n \in Nat, n > 1, NEW head \in 0 .. n - 1, NEW tail \in 0 .. n - 1,
           head # tail
    PROVE  ~IsFull(Succ(head, n), tail, n)
BY SuccInjective DEF IsFull

-----------------------------------------------------------------------------
(* Moving the tail of a ring that is not full adds one to what it holds;   *)
(* moving the head of one that is not empty takes one away.                *)
LEMMA UsedPut ==
    ASSUME NEW n \in Nat, n > 1, NEW head \in 0 .. n - 1, NEW tail \in 0 .. n - 1,
           ~IsFull(head, tail, n)
    PROVE  /\ Used(head, tail, n) \in 0 .. n - 2
           /\ Used(head, Succ(tail, n), n) = Used(head, tail, n) + 1
           /\ Index(head, Used(head, tail, n), n) = tail
BY SuccValue DEF Used, IsFull, Index

LEMMA UsedGet ==
    ASSUME NEW n \in Nat, n > 1, NEW head \in 0 .. n - 1, NEW tail \in 0 .. n - 1,
           head # tail
    PROVE  /\ Used(head, tail, n) \in 1 .. n - 1
           /\ Used(Succ(head, n), tail, n) = Used(head, tail, n) - 1
BY SuccValue DEF Used

(* The slots of the messages in a ring are the occupied ones. *)
LEMMA IndexOccupied ==
    ASSUME NEW n \in Nat, n > 1, NEW head \in 0 .. n - 1, NEW tail \in 0 .. n - 1,
           NEW k \in 1 .. Used(head, tail, n)
    PROVE  /\ Index(head, k - 1, n) \in 0 .. n - 1
           /\ Occupied(Index(head, k - 1, n), head, tail)
BY DEF Used, Index, Occupied

(* Seen from the next head, a slot is one closer. *)
LEMMA IndexSucc ==
    ASSUME NEW n \in Nat, n > 1, NEW head \in 0 .. n - 1, NEW k \in 0 .. n - 2
    PROVE  Index(Succ(head, n), k, n) = Index(head, k + 1, n)
BY SuccValue DEF Index

(***************************************************************************)
(* A ring holds a sequence as long as its slots in use.  It depends only   *)
(* on the occupied slots; publishing a slot appends its message, and       *)
(* moving the head drops the first one.                                    *)
(***************************************************************************)
LEMMA ContentsLength ==
    ASSUME NEW n \in Nat, n > 1, NEW head \in 0 .. n - 1, NEW tail \in 0 .. n - 1, NEW slots
    PROVE  /\ Len(Contents(slots, head, tail, n)) = Used(head, tail, n)
           /\ Used(head, tail, n) \in 0 .. n - 1
<1>1. Used(head, tail, n) \in 0 .. n - 1
  BY DEF Used
<1>2. QED
  BY <1>1 DEF Contents

LEMMA ContentsOfOccupied ==
    ASSUME NEW n \in Nat, n > 1, NEW head \in 0 .. n - 1, NEW tail \in 0 .. n - 1,
           NEW slots, NEW other,
           \A i \in 0 .. n - 1 : Occupied(i, head, tail) => other[i] = slots[i]
    PROVE  Contents(other, head, tail, n) = Contents(slots, head, tail, n)
BY IndexOccupied DEF Contents

LEMMA ContentsPut ==
    ASSUME NEW n \in Nat, n > 1, NEW head \in 0 .. n - 1, NEW tail \in 0 .. n - 1,
           ~IsFull(head, tail, n), NEW slots, NEW other,
           \A i \in 0 .. n - 1 : Occupied(i, head, tail) => other[i] = slots[i]
    PROVE  /\ Contents(other, head, Succ(tail, n), n) = Append(Contents(slots, head, tail, n), other[tail])
           /\ Len(Contents(slots, head, tail, n)) < n - 1
           /\ Len(Contents(other, head, Succ(tail, n), n)) = Len(Contents(slots, head, tail, n)) + 1
<1> DEFINE u == Used(head, tail, n)
           old == Contents(slots, head, tail, n)
           new == Contents(other, head, Succ(tail, n), n)
<1>1. /\ u \in 0 .. n - 2 /\ Used(head, Succ(tail, n), n) = u + 1
      /\ Index(head, u, n) = tail
  BY UsedPut
<1>2. new = [k \in 1 .. u + 1 |-> other[Index(head, k - 1, n)]]
  BY <1>1 DEF Contents
<1>3. old = [k \in 1 .. u |-> slots[Index(head, k - 1, n)]]
  BY DEF Contents
<1>4. ASSUME NEW k \in 1 .. u PROVE other[Index(head, k - 1, n)] = slots[Index(head, k - 1, n)]
  BY IndexOccupied
<1>5. Len(old) = u /\ Len(new) = u + 1
  BY <1>1, <1>2, <1>3
<1>6. Append(old, other[tail]) = [k \in 1 .. u + 1 |-> IF k = u + 1 THEN other[tail] ELSE old[k]]
  BY <1>1, <1>3, <1>5
<1>7. ASSUME NEW k \in 1 .. u + 1
      PROVE  new[k] = IF k = u + 1 THEN other[tail] ELSE old[k]
  BY <1>1, <1>2, <1>3, <1>4
<1>8. new = Append(old, other[tail])
  BY <1>2, <1>6, <1>7
<1>9. QED
  BY <1>1, <1>5, <1>8

LEMMA ContentsGet ==
    ASSUME NEW n \in Nat, n > 1, NEW head \in 0 .. n - 1, NEW tail \in 0 .. n - 1,
           head # tail, NEW slots
    PROVE  /\ Contents(slots, head, tail, n) # <<>>
           /\ Contents(slots, Succ(head, n), tail, n) = Tail(Contents(slots, head, tail, n))
<1> DEFINE u == Used(head, tail, n)
           old == Contents(slots, head, tail, n)
           new == Contents(slots, Succ(head, n), tail, n)
<1>1. u \in 1 .. n - 1 /\ Used(Succ(head, n), tail, n) = u - 1
  BY UsedGet
<1>2. new = [k \in 1 .. u - 1 |-> slots[Index(Succ(head, n), k - 1, n)]]
  BY <1>1 DEF Contents
<1>3. old = [k \in 1 .. u |-> slots[Index(head, k - 1, n)]]
  BY DEF Contents
<1>4. Len(old) = u /\ old # <<>>
  BY <1>1, <1>3
<1>5. ASSUME NEW k \in 1 .. u - 1 PROVE new[k] = old[k + 1]
  <2>1. Index(Succ(head, n), k - 1, n) = Index(head, k, n)
    BY <1>1, IndexSucc
  <2>2. QED
    BY <1>1, <1>2, <1>3, <2>1
<1>6. Tail(old) = [k \in 1 .. u - 1 |-> old[k + 1]]
  BY <1>1, <1>3, <1>4
<1>7. QED
  BY <1>2, <1>4, <1>5, <1>6

-----------------------------------------------------------------------------
(* The invariant of the two processors. *)

(***************************************************************************)
(* The slots a consumer may look at hold requests: a slot is written       *)
(* before the tail is moved past it.                                       *)
(***************************************************************************)
SlotsInv ==
    /\ \A i \in 0 .. InSize - 1 :
          Occupied(i, inHead, ppcMsg.tail) => inQ[i] \in Request
    /\ \A i \in 0 .. SlowSize - 1 :
          Occupied(i, slowHead, slowTail) => slowQ[i] \in Request

(* The PowerPC: its tail is the published one, its slot is written. *)
PpcInv ==
    /\ ppc \notin {"init", "reset"} => inTail = ppcMsg.tail /\ outHead = ppcMsg.head
    /\ ppc \in {"room", "poke", "bell", "receive", "ack", "match"} =>
          request \in Request /\ curTag < nextId
    /\ ppc = "idle" => curTag <= nextId
    /\ ppc = "poke" => inQ[inTail] = request /\ ~IsFull(inHead, inTail, InSize)

(***************************************************************************)
(* Who may run, and with interrupts off or on.                             *)
(***************************************************************************)
ControlInv ==
    /\ irqOff <=> \/ irq # "off" \/ InPost("main")
                  \/ main \in {"recheck", "wait", "restore", "left"}
    /\ main \in {"recheck", "wait", "restore", "left"} => irq = "off"
    /\ InPost("main") => irq = "off" /\ ~cookie["main"]
    /\ InPost("irq") => cookie["irq"]
    /\ Posting("main") => main \in {"advance", "flush"}
    /\ Posting("irq") => irq # "off"
    /\ main = "process" => served \in Request

(* A copy of ARMMSG that is about to be written back is up to date. *)
RegistersInv ==
    /\ armMsg.head = inHead
    /\ \A c \in Contexts : post[c] = "poke" => copy[c].head = inHead
    /\ armMsg.tail # outTail => Publishing

(***************************************************************************)
(* The message a processor works on stays in its ring until the head moves *)
(* past it.                                                                *)
(***************************************************************************)
HeldInv ==
    /\ main \in {"process", "advance", "flush", "leave"} => ~SlowEmpty
    /\ irq = "advance" => ~InEmpty

Inv ==
    /\ TypeOK
    /\ SlotsInv
    /\ PpcInv
    /\ ControlInv
    /\ RegistersInv
    /\ HeldInv
    /\ NoLostWakeup

-----------------------------------------------------------------------------
(* What the ARM enqueues for itself is a request. *)
LEMMA FromArmType == ASSUME NEW kind \in ArmKinds PROVE FromArm(kind) \in Request
BY BoundsAssumption DEF FromArm, Request

(* The id of a request is in its range. *)
LEMMA RequestId == ASSUME NEW r \in Request PROVE r.id \in 0 .. MaxRequests
BY DEF Request

(* A sequence stays one when an element is appended. *)
LEMMA AppendType ==
    ASSUME NEW S, NEW s \in Seq(S), NEW e \in S
    PROVE  Append(s, e) \in Seq(S)
OBVIOUS

(* The part of the invariant that is about the slow queue. *)
SlowRing ==
    /\ slowQ \in [0 .. SlowSize - 1 -> Request \cup {None}]
    /\ slowHead \in 0 .. SlowSize - 1 /\ slowTail \in 0 .. SlowSize - 1
    /\ panicked \in BOOLEAN
    /\ \A i \in 0 .. SlowSize - 1 :
          Occupied(i, slowHead, slowTail) => slowQ[i] \in Request
    /\ main \in {"process", "advance", "flush", "leave"} => ~SlowEmpty

(* Enqueueing a request keeps the slow queue in order, panic or not. *)
LEMMA EnqueueSlowRing ==
    ASSUME Inv, NEW r \in Request, EnqueueSlow(r), UNCHANGED <<slowHead, main>>
    PROVE  SlowRing'
<1> USE SizesAssumption DEF Inv
<1>1. SlowRing
  BY DEF SlowRing, TypeOK, TypeRings, TypeArm, SlotsInv, HeldInv
<1>2. CASE SlowFull
  BY <1>1, <1>2 DEF EnqueueSlow, SlowRing, SlowEmpty
<1>3. CASE ~SlowFull
  <2>1. /\ slowTail' = Succ(slowTail, SlowSize) /\ panicked' = panicked
        /\ slowQ' = [slowQ EXCEPT ![slowTail] = r]
    BY <1>3 DEF EnqueueSlow
  <2>2. slowTail' \in 0 .. SlowSize - 1 /\ slowTail' # slowHead
    BY <1>1, <1>3, <2>1, SuccValue DEF SlowRing, SlowFull, IsFull
  <2>3. ASSUME NEW i \in 0 .. SlowSize - 1, Occupied(i, slowHead, slowTail')
        PROVE  slowQ'[i] \in Request
    BY <1>1, <1>3, <2>1, <2>3, OccupiedPut DEF SlowRing, SlowFull
  <2>4. QED
    BY <1>1, <2>1, <2>2, <2>3 DEF SlowRing, SlowEmpty
<1>4. QED
  BY <1>2, <1>3

(***************************************************************************)
(* irq_kill of ipc_post: the I bit is set, and the cookie remembers the    *)
(* old one.                                                                *)
(***************************************************************************)
LEMMA PostKillStep == ASSUME Inv, NEW c \in Contexts, PostKill(c) PROVE Inv'
<1> USE DEF Inv
<1>1. TypeRings'
  BY DEF TypeRings, TypeOK, PostKill, rings
<1>2. TypeArm'
  BY DEF TypeArm, TypeOK, PostKill, Killed
<1>3. TypeDevices'
  BY DEF TypeDevices, TypeOK, PostKill, nand, devices
<1>4. TypePpc'
  BY DEF TypePpc, TypeOK, PostKill, ppcCpu
<1>5. SlotsInv'
  BY DEF SlotsInv, PostKill, rings
<1>6. PpcInv'
  BY DEF PpcInv, PostKill, rings, ppcCpu
<1>7. ControlInv'
  <2>1. /\ post[c] = "kill" /\ Runs(c) /\ irqOff'
        /\ UNCHANGED <<irq, main, served>>
    BY DEF PostKill, Killed
  <2>2. ASSUME NEW d \in Contexts
        PROVE  /\ post'[d] = IF d = c THEN "room" ELSE post[d]
               /\ cookie'[d] = IF d = c THEN irqOff ELSE cookie[d]
    BY DEF PostKill, TypeOK, TypeArm
  <2>3. "main" \in Contexts /\ "irq" \in Contexts
    BY DEF Contexts
  <2>4. CASE c = "main"
    <3>1. irq = "off" /\ main \in {"advance", "flush"} /\ ~InPost("main")
      BY <2>1, <2>4 DEF Runs, ControlInv, Posting, InPost
    <3>2. ~irqOff
      BY <3>1 DEF ControlInv
    <3>3. QED
      BY <2>1, <2>2, <2>3, <2>4, <3>1, <3>2 DEF ControlInv, InPost, Posting
  <2>5. CASE c = "irq"
    <3>1. irq # "off" /\ irqOff
      BY <2>1, <2>5 DEF Runs, ControlInv
    <3>2. QED
      BY <2>1, <2>2, <2>3, <2>5, <3>1 DEF ControlInv, InPost, Posting
  <2>6. QED
    BY <2>4, <2>5 DEF Contexts
<1>8. RegistersInv'
  BY DEF RegistersInv, Publishing, PostKill, rings
<1>9. HeldInv'
  BY DEF HeldInv, SlowEmpty, InEmpty, PostKill, rings
<1>10. NoLostWakeup'
  BY DEF NoLostWakeup, SlowEmpty, PostKill, rings
<1> QED
  BY <1>1, <1>2, <1>3, <1>4, <1>5, <1>6, <1>7, <1>8, <1>9, <1>10 DEF TypeOK

(* ipc_post fills the slot at the tail, which no reader may look at yet. *)
LEMMA PostWriteStep == ASSUME Inv, NEW c \in Contexts, PostWrite(c) PROVE Inv'
<1> USE DEF Inv
<1>1. TypeRings'
  BY DEF TypeRings, TypeArm, TypeOK, PostWrite
<1>2. TypeArm'
  BY DEF TypeArm, TypeOK, PostWrite
<1>3. TypeDevices'
  BY DEF TypeDevices, TypeOK, PostWrite, nand, devices
<1>4. TypePpc'
  BY DEF TypePpc, TypeOK, PostWrite, ppcCpu
<1>5. SlotsInv'
  BY DEF SlotsInv, PostWrite
<1>6. PpcInv'
  BY DEF PpcInv, PostWrite, ppcCpu
<1>7. ControlInv'
  BY DEF ControlInv, InPost, Posting, PostWrite
<1>8. RegistersInv'
  BY DEF RegistersInv, Publishing, PostWrite
<1>9. HeldInv'
  BY DEF HeldInv, SlowEmpty, InEmpty, PostWrite
<1>10. NoLostWakeup'
  BY DEF NoLostWakeup, SlowEmpty, PostWrite
<1> QED
  BY <1>1, <1>2, <1>3, <1>4, <1>5, <1>6, <1>7, <1>8, <1>9, <1>10 DEF TypeOK

(***************************************************************************)
(* ipc_post moves its tail and reads ARMMSG: the copy holds the current    *)
(* head.                                                                   *)
(***************************************************************************)
LEMMA PostReadStep == ASSUME Inv, NEW c \in Contexts, PostRead(c) PROVE Inv'
<1> USE DEF Inv
<1>1. TypeRings'
  BY SizesAssumption, SuccValue DEF TypeRings, TypeOK, PostRead
<1>2. TypeArm'
  BY DEF TypeArm, TypeRings, TypeOK, PostRead
<1>3. TypeDevices'
  BY DEF TypeDevices, TypeOK, PostRead, nand, devices
<1>4. TypePpc'
  BY DEF TypePpc, TypeOK, PostRead, ppcCpu
<1>5. SlotsInv'
  BY DEF SlotsInv, PostRead
<1>6. PpcInv'
  BY DEF PpcInv, PostRead, ppcCpu
<1>7. ControlInv'
  BY DEF ControlInv, InPost, Posting, PostRead
<1>8. RegistersInv'
  BY DEF RegistersInv, TypeOK, TypeArm, Publishing, PostRead
<1>9. HeldInv'
  BY DEF HeldInv, SlowEmpty, InEmpty, PostRead
<1>10. NoLostWakeup'
  BY DEF NoLostWakeup, SlowEmpty, PostRead
<1> QED
  BY <1>1, <1>2, <1>3, <1>4, <1>5, <1>6, <1>7, <1>8, <1>9, <1>10 DEF TypeOK

(***************************************************************************)
(* ipc_post writes ARMMSG back: with the copied head, which is still       *)
(* current.                                                                *)
(***************************************************************************)
LEMMA PostPokeStep == ASSUME Inv, NEW c \in Contexts, PostPoke(c) PROVE Inv'
<1> USE DEF Inv
<1>1. TypeRings'
  BY SizesAssumption DEF TypeRings, TypeArm, TypeOK, Message, PostPoke
<1>2. TypeArm'
  BY DEF TypeArm, TypeOK, PostPoke
<1>3. TypeDevices'
  BY DEF TypeDevices, TypeOK, PostPoke, nand, devices
<1>4. TypePpc'
  BY DEF TypePpc, TypeOK, PostPoke, ppcCpu
<1>5. SlotsInv'
  BY DEF SlotsInv, PostPoke
<1>6. PpcInv'
  BY DEF PpcInv, PostPoke, ppcCpu
<1>7. ControlInv'
  BY DEF ControlInv, InPost, Posting, PostPoke
<1>8. RegistersInv'
  BY DEF RegistersInv, PostPoke
<1>9. HeldInv'
  BY DEF HeldInv, SlowEmpty, InEmpty, PostPoke
<1>10. NoLostWakeup'
  BY DEF NoLostWakeup, SlowEmpty, PostPoke
<1> QED
  BY <1>1, <1>2, <1>3, <1>4, <1>5, <1>6, <1>7, <1>8, <1>9, <1>10 DEF TypeOK

(* irq_restore of ipc_post: the I bit is again what the cookie says. *)
LEMMA PostRestoreStep == ASSUME Inv, NEW c \in Contexts, PostRestore(c) PROVE Inv'
<1> USE DEF Inv
<1>1. TypeRings'
  BY DEF TypeRings, TypeOK, PostRestore, rings
<1>2. TypeArm'
  BY SizesAssumption DEF TypeArm, TypeOK, Message, PostRestore
<1>3. TypeDevices'
  BY DEF TypeDevices, TypeOK, PostRestore, nand, devices
<1>4. TypePpc'
  BY DEF TypePpc, TypeOK, PostRestore, ppcCpu
<1>5. SlotsInv'
  BY DEF SlotsInv, PostRestore, rings
<1>6. PpcInv'
  BY DEF PpcInv, PostRestore, rings, ppcCpu
<1>7. ControlInv'
  BY DEF ControlInv, TypeOK, TypeArm, InPost, Posting, Contexts, PostRestore
<1>8. RegistersInv'
  BY DEF RegistersInv, Publishing, PostRestore, rings
<1>9. HeldInv'
  BY DEF HeldInv, SlowEmpty, InEmpty, PostRestore, rings
<1>10. NoLostWakeup'
  BY DEF NoLostWakeup, SlowEmpty, PostRestore, rings
<1> QED
  BY <1>1, <1>2, <1>3, <1>4, <1>5, <1>6, <1>7, <1>8, <1>9, <1>10 DEF TypeOK

(* The main loop takes the head of the slow queue, which holds a request. *)
LEMMA MainTakeStep == ASSUME Inv, MainTake PROVE Inv'
<1> USE DEF Inv
<1>1. TypeRings'
  BY DEF TypeRings, TypeOK, MainTake, rings
<1>2. TypeArm'
  BY DEF TypeArm, TypeRings, TypeOK, MainTake, posts
<1>3. TypeDevices'
  BY DEF TypeDevices, TypeOK, MainTake, nand, devices
<1>4. TypePpc'
  BY DEF TypePpc, TypeOK, MainTake, ppcCpu
<1>5. SlotsInv'
  BY DEF SlotsInv, MainTake, rings
<1>6. PpcInv'
  BY DEF PpcInv, MainTake, rings, ppcCpu
<1>7. ControlInv'
  BY SizesAssumption, OccupiedEnds DEF ControlInv, TypeOK, TypeRings,
     SlotsInv, InPost, Posting, MainTake, SlowEmpty, posts
<1>8. RegistersInv'
  BY DEF RegistersInv, Publishing, MainTake, rings, posts
<1>9. HeldInv'
  BY DEF HeldInv, SlowEmpty, InEmpty, MainTake, rings
<1>10. NoLostWakeup'
  BY DEF NoLostWakeup, MainTake
<1> QED
  BY <1>1, <1>2, <1>3, <1>4, <1>5, <1>6, <1>7, <1>8, <1>9, <1>10 DEF TypeOK

(* The main loop answers a request itself. *)
LEMMA ProcessSlowStep == ASSUME Inv, ProcessSlow PROVE Inv'
<1> USE DEF Inv
<1>1. TypeRings'
  BY DEF TypeRings, TypeOK, ProcessSlow, rings
<1>2. TypeArm'
  BY DEF TypeArm, TypeOK, Contexts, ProcessSlow, StartPost
<1>3. TypeDevices'
  BY DEF TypeDevices, TypeOK, ProcessSlow, nand, devices
<1>4. TypePpc'
  BY BoundsAssumption, RequestId DEF TypePpc, TypeOK, ControlInv, ProcessSlow,
     Execute, ppcCpu
<1>5. SlotsInv'
  BY DEF SlotsInv, ProcessSlow, rings
<1>6. PpcInv'
  BY DEF PpcInv, ProcessSlow, rings, ppcCpu
<1>7. ControlInv'
  BY DEF ControlInv, InPost, Posting, ProcessSlow, StartPost
<1>8. RegistersInv'
  BY DEF RegistersInv, Publishing, ProcessSlow, MainRuns, Posting, StartPost,
     rings
<1>9. HeldInv'
  BY DEF HeldInv, SlowEmpty, InEmpty, ProcessSlow, rings
<1>10. NoLostWakeup'
  BY DEF NoLostWakeup, ProcessSlow
<1> QED
  BY <1>1, <1>2, <1>3, <1>4, <1>5, <1>6, <1>7, <1>8, <1>9, <1>10 DEF TypeOK

(* The main loop does a request that has no reply. *)
LEMMA ProcessMuteStep == ASSUME Inv, ProcessMute PROVE Inv'
<1> USE DEF Inv
<1>1. TypeRings'
  BY DEF TypeRings, TypeOK, ProcessMute, rings
<1>2. TypeArm'
  BY DEF TypeArm, TypeOK, ProcessMute, posts
<1>3. TypeDevices'
  BY DEF TypeDevices, TypeOK, ProcessMute, nand, devices
<1>4. TypePpc'
  BY BoundsAssumption, RequestId DEF TypePpc, TypeOK, ControlInv, ProcessMute,
     Execute, ppcCpu
<1>5. SlotsInv'
  BY DEF SlotsInv, ProcessMute, rings
<1>6. PpcInv'
  BY DEF PpcInv, ProcessMute, rings, ppcCpu
<1>7. ControlInv'
  BY DEF ControlInv, InPost, Posting, ProcessMute, posts
<1>8. RegistersInv'
  BY DEF RegistersInv, Publishing, ProcessMute, rings, posts
<1>9. HeldInv'
  BY DEF HeldInv, SlowEmpty, InEmpty, ProcessMute, rings
<1>10. NoLostWakeup'
  BY DEF NoLostWakeup, ProcessMute
<1> QED
  BY <1>1, <1>2, <1>3, <1>4, <1>5, <1>6, <1>7, <1>8, <1>9, <1>10 DEF TypeOK

(* The main loop starts the NAND controller, or refuses. *)
LEMMA ProcessNandStep == ASSUME Inv, ProcessNand PROVE Inv'
<1> USE DEF Inv
<1>1. TypeRings'
  BY DEF TypeRings, TypeOK, ProcessNand, rings
<1>2. TypeArm'
  BY DEF TypeArm, TypeOK, ProcessNand, StartPost, posts
<1>3. TypeDevices'
  BY DEF TypeDevices, TypeArm, TypeOK, ProcessNand, devices
<1>4. TypePpc'
  BY RequestId DEF TypePpc, TypeOK, ControlInv, ProcessNand, Execute, ppcCpu
<1>5. SlotsInv'
  BY DEF SlotsInv, ProcessNand, rings
<1>6. PpcInv'
  BY DEF PpcInv, ProcessNand, rings, ppcCpu
<1>7. ControlInv'
  BY DEF ControlInv, TypeOK, TypeArm, InPost, Posting, Contexts, ProcessNand,
     StartPost, posts
<1>8. RegistersInv'
  BY DEF RegistersInv, TypeOK, TypeArm, Publishing, ProcessNand, MainRuns,
     Posting, StartPost, rings, posts
<1>9. HeldInv'
  BY DEF HeldInv, SlowEmpty, InEmpty, ProcessNand, rings
<1>10. NoLostWakeup'
  BY DEF NoLostWakeup, ProcessNand
<1> QED
  BY <1>1, <1>2, <1>3, <1>4, <1>5, <1>6, <1>7, <1>8, <1>9, <1>10 DEF TypeOK

(* The main loop starts a PowerPC program, or fails to. *)
LEMMA ProcessBootStep == ASSUME Inv, ProcessBoot PROVE Inv'
<1> USE DEF Inv
<1>1. TypeRings'
  BY DEF TypeRings, TypeOK, ProcessBoot, rings
<1>2. TypeArm'
  BY DEF TypeArm, TypeOK, ProcessBoot, StartPost, posts
<1>3. TypeDevices'
  BY DEF TypeDevices, TypeOK, ProcessBoot, nand, devices
<1>4. TypePpc'
  <2>1. UNCHANGED ppcCpu \/ PowerpcHang \/ PowerpcBoot
    BY DEF ProcessBoot
  <2>2. done' \in Seq(0 .. MaxRequests)
    BY RequestId DEF ProcessBoot, Execute, TypeOK, TypePpc, ControlInv
  <2>3. QED
    BY <2>1, <2>2 DEF PowerpcHang, PowerpcBoot, ppcCpu, TypeOK, TypePpc
<1>5. SlotsInv'
  BY DEF SlotsInv, ProcessBoot, rings
<1>6. PpcInv'
  BY DEF PpcInv, ProcessBoot, PowerpcHang, PowerpcBoot, rings, ppcCpu
<1>7. ControlInv'
  BY DEF ControlInv, TypeOK, TypeArm, InPost, Posting, Contexts, ProcessBoot,
     StartPost, posts
<1>8. RegistersInv'
  BY DEF RegistersInv, TypeOK, TypeArm, Publishing, ProcessBoot, MainRuns,
     Posting, StartPost, rings, posts
<1>9. HeldInv'
  BY DEF HeldInv, SlowEmpty, InEmpty, ProcessBoot, rings
<1>10. NoLostWakeup'
  BY DEF NoLostWakeup, ProcessBoot
<1> QED
  BY <1>1, <1>2, <1>3, <1>4, <1>5, <1>6, <1>7, <1>8, <1>9, <1>10 DEF TypeOK

(* The wait of ipc_flush ends. *)
LEMMA MainFlushStep == ASSUME Inv, MainFlush PROVE Inv'
<1> USE DEF Inv
<1>1. TypeRings'
  BY DEF TypeRings, TypeOK, MainFlush, rings
<1>2. TypeArm'
  BY DEF TypeArm, TypeOK, MainFlush, posts
<1>3. TypeDevices'
  BY DEF TypeDevices, TypeOK, MainFlush, nand, devices
<1>4. TypePpc'
  BY DEF TypePpc, TypeOK, MainFlush, ppcCpu
<1>5. SlotsInv'
  BY DEF SlotsInv, MainFlush, rings
<1>6. PpcInv'
  BY DEF PpcInv, MainFlush, rings, ppcCpu
<1>7. ControlInv'
  BY DEF ControlInv, InPost, Posting, MainFlush, MainRuns, posts
<1>8. RegistersInv'
  BY DEF RegistersInv, Publishing, MainFlush, rings, posts
<1>9. HeldInv'
  BY DEF HeldInv, SlowEmpty, InEmpty, MainFlush, rings
<1>10. NoLostWakeup'
  BY DEF NoLostWakeup, MainFlush
<1> QED
  BY <1>1, <1>2, <1>3, <1>4, <1>5, <1>6, <1>7, <1>8, <1>9, <1>10 DEF TypeOK

(* The main loop frees the slot it has worked off. *)
LEMMA MainAdvanceStep == ASSUME Inv, MainAdvance PROVE Inv'
<1> USE DEF Inv
<1>1. TypeRings'
  BY SizesAssumption, SuccValue DEF TypeRings, TypeOK, MainAdvance
<1>2. TypeArm'
  BY DEF TypeArm, TypeOK, MainAdvance, posts
<1>3. TypeDevices'
  BY DEF TypeDevices, TypeOK, MainAdvance, nand, devices
<1>4. TypePpc'
  BY DEF TypePpc, TypeOK, MainAdvance, ppcCpu
<1>5. SlotsInv'
  BY SizesAssumption, OccupiedGet DEF SlotsInv, TypeOK, TypeRings, HeldInv,
     SlowEmpty, MainAdvance
<1>6. PpcInv'
  BY DEF PpcInv, MainAdvance, ppcCpu
<1>7. ControlInv'
  BY DEF ControlInv, InPost, Posting, MainAdvance, MainRuns, posts
<1>8. RegistersInv'
  BY DEF RegistersInv, Publishing, MainAdvance, posts
<1>9. HeldInv'
  BY DEF HeldInv, InEmpty, MainAdvance
<1>10. NoLostWakeup'
  BY DEF NoLostWakeup, MainAdvance
<1> QED
  BY <1>1, <1>2, <1>3, <1>4, <1>5, <1>6, <1>7, <1>8, <1>9, <1>10 DEF TypeOK

(* The main loop leaves, interrupts off for good. *)
LEMMA MainLeaveStep == ASSUME Inv, MainLeave PROVE Inv'
<1> USE DEF Inv
<1>1. TypeRings'
  BY SizesAssumption, SuccValue DEF TypeRings, TypeOK, MainLeave
<1>2. TypeArm'
  BY DEF TypeArm, TypeOK, MainLeave, posts
<1>3. TypeDevices'
  BY DEF TypeDevices, TypeOK, MainLeave, nand, devices
<1>4. TypePpc'
  BY DEF TypePpc, TypeOK, MainLeave, ppcCpu
<1>5. SlotsInv'
  BY SizesAssumption, OccupiedGet DEF SlotsInv, TypeOK, TypeRings, HeldInv,
     SlowEmpty, MainLeave
<1>6. PpcInv'
  BY DEF PpcInv, MainLeave, ppcCpu
<1>7. ControlInv'
  BY DEF ControlInv, InPost, Posting, MainLeave, MainRuns, Runs, posts
<1>8. RegistersInv'
  BY DEF RegistersInv, Publishing, MainLeave, posts
<1>9. HeldInv'
  BY DEF HeldInv, InEmpty, MainLeave
<1>10. NoLostWakeup'
  BY DEF NoLostWakeup, MainLeave
<1> QED
  BY <1>1, <1>2, <1>3, <1>4, <1>5, <1>6, <1>7, <1>8, <1>9, <1>10 DEF TypeOK

(* The main loop finds its queue empty. *)
LEMMA MainIdleStep == ASSUME Inv, MainIdle PROVE Inv'
<1> USE DEF Inv
<1>1. TypeRings'
  BY DEF TypeRings, TypeOK, MainIdle, rings
<1>2. TypeArm'
  BY DEF TypeArm, TypeOK, MainIdle, posts
<1>3. TypeDevices'
  BY DEF TypeDevices, TypeOK, MainIdle, nand, devices
<1>4. TypePpc'
  BY DEF TypePpc, TypeOK, MainIdle, ppcCpu
<1>5. SlotsInv'
  BY DEF SlotsInv, MainIdle, rings
<1>6. PpcInv'
  BY DEF PpcInv, MainIdle, rings, ppcCpu
<1>7. ControlInv'
  BY DEF ControlInv, InPost, Posting, MainIdle, posts
<1>8. RegistersInv'
  BY DEF RegistersInv, Publishing, MainIdle, rings, posts
<1>9. HeldInv'
  BY DEF HeldInv, InEmpty, MainIdle, rings
<1>10. NoLostWakeup'
  BY DEF NoLostWakeup, SlowEmpty, MainIdle, rings
<1> QED
  BY <1>1, <1>2, <1>3, <1>4, <1>5, <1>6, <1>7, <1>8, <1>9, <1>10 DEF TypeOK

(* The main loop disables interrupts. *)
LEMMA MainKillStep == ASSUME Inv, MainKill PROVE Inv'
<1> USE DEF Inv
<1>1. TypeRings'
  BY DEF TypeRings, TypeOK, MainKill, rings
<1>2. TypeArm'
  BY DEF TypeArm, TypeOK, MainKill, Killed, posts
<1>3. TypeDevices'
  BY DEF TypeDevices, TypeOK, MainKill, nand, devices
<1>4. TypePpc'
  BY DEF TypePpc, TypeOK, MainKill, ppcCpu
<1>5. SlotsInv'
  BY DEF SlotsInv, MainKill, rings
<1>6. PpcInv'
  BY DEF PpcInv, MainKill, rings, ppcCpu
<1>7. ControlInv'
  BY DEF ControlInv, InPost, Posting, MainKill, MainRuns, Runs, Killed, posts
<1>8. RegistersInv'
  BY DEF RegistersInv, Publishing, MainKill, rings, posts
<1>9. HeldInv'
  BY DEF HeldInv, InEmpty, MainKill, rings
<1>10. NoLostWakeup'
  BY DEF NoLostWakeup, MainKill
<1> QED
  BY <1>1, <1>2, <1>3, <1>4, <1>5, <1>6, <1>7, <1>8, <1>9, <1>10 DEF TypeOK

(* The main loop looks again, with interrupts off, before it sleeps. *)
LEMMA MainRecheckStep == ASSUME Inv, MainRecheck PROVE Inv'
<1> USE DEF Inv
<1>1. TypeRings'
  BY DEF TypeRings, TypeOK, MainRecheck, rings
<1>2. TypeArm'
  BY DEF TypeArm, TypeOK, MainRecheck, posts
<1>3. TypeDevices'
  BY DEF TypeDevices, TypeOK, MainRecheck, nand, devices
<1>4. TypePpc'
  BY DEF TypePpc, TypeOK, MainRecheck, ppcCpu
<1>5. SlotsInv'
  BY DEF SlotsInv, MainRecheck, rings
<1>6. PpcInv'
  BY DEF PpcInv, MainRecheck, rings, ppcCpu
<1>7. ControlInv'
  BY DEF ControlInv, InPost, Posting, MainRecheck, posts
<1>8. RegistersInv'
  BY DEF RegistersInv, Publishing, MainRecheck, rings, posts
<1>9. HeldInv'
  BY DEF HeldInv, InEmpty, MainRecheck, rings
<1>10. NoLostWakeup'
  BY DEF NoLostWakeup, SlowEmpty, MainRecheck, rings
<1> QED
  BY <1>1, <1>2, <1>3, <1>4, <1>5, <1>6, <1>7, <1>8, <1>9, <1>10 DEF TypeOK

(* The main loop wakes up. *)
LEMMA MainWaitStep == ASSUME Inv, MainWait PROVE Inv'
<1> USE DEF Inv
<1>1. TypeRings'
  BY DEF TypeRings, TypeOK, MainWait, rings
<1>2. TypeArm'
  BY DEF TypeArm, TypeOK, MainWait, posts
<1>3. TypeDevices'
  BY DEF TypeDevices, TypeOK, MainWait, nand, devices
<1>4. TypePpc'
  BY DEF TypePpc, TypeOK, MainWait, ppcCpu
<1>5. SlotsInv'
  BY DEF SlotsInv, MainWait, rings
<1>6. PpcInv'
  BY DEF PpcInv, MainWait, rings, ppcCpu
<1>7. ControlInv'
  BY DEF ControlInv, InPost, Posting, MainWait, posts
<1>8. RegistersInv'
  BY DEF RegistersInv, Publishing, MainWait, rings, posts
<1>9. HeldInv'
  BY DEF HeldInv, InEmpty, MainWait, rings
<1>10. NoLostWakeup'
  BY DEF NoLostWakeup, MainWait
<1> QED
  BY <1>1, <1>2, <1>3, <1>4, <1>5, <1>6, <1>7, <1>8, <1>9, <1>10 DEF TypeOK

(* The main loop enables interrupts again. *)
LEMMA MainRestoreStep == ASSUME Inv, MainRestore PROVE Inv'
<1> USE DEF Inv
<1>1. TypeRings'
  BY DEF TypeRings, TypeOK, MainRestore, rings
<1>2. TypeArm'
  BY DEF TypeArm, TypeOK, MainRestore, posts
<1>3. TypeDevices'
  BY DEF TypeDevices, TypeOK, MainRestore, nand, devices
<1>4. TypePpc'
  BY DEF TypePpc, TypeOK, MainRestore, ppcCpu
<1>5. SlotsInv'
  BY DEF SlotsInv, MainRestore, rings
<1>6. PpcInv'
  BY DEF PpcInv, MainRestore, rings, ppcCpu
<1>7. ControlInv'
  BY DEF ControlInv, InPost, Posting, MainRestore, posts
<1>8. RegistersInv'
  BY DEF RegistersInv, Publishing, MainRestore, rings, posts
<1>9. HeldInv'
  BY DEF HeldInv, InEmpty, MainRestore, rings
<1>10. NoLostWakeup'
  BY DEF NoLostWakeup, MainRestore
<1> QED
  BY <1>1, <1>2, <1>3, <1>4, <1>5, <1>6, <1>7, <1>8, <1>9, <1>10 DEF TypeOK

(* The ARM takes an interrupt: only with interrupts on, so outside ipc_post. *)
LEMMA IrqEnterStep == ASSUME Inv, IrqEnter PROVE Inv'
<1> USE DEF Inv
<1>1. TypeRings'
  BY DEF TypeRings, TypeOK, IrqEnter, rings
<1>2. TypeArm'
  BY DEF TypeArm, TypeOK, IrqEnter, Pending, posts
<1>3. TypeDevices'
  BY DEF TypeDevices, TypeOK, IrqEnter, nand, devices
<1>4. TypePpc'
  BY DEF TypePpc, TypeOK, IrqEnter, ppcCpu
<1>5. SlotsInv'
  BY DEF SlotsInv, IrqEnter, rings
<1>6. PpcInv'
  BY DEF PpcInv, IrqEnter, rings, ppcCpu
<1>7. ControlInv'
  BY DEF ControlInv, InPost, Posting, IrqEnter, posts
<1>8. RegistersInv'
  BY DEF RegistersInv, Publishing, IrqEnter, rings, posts
<1>9. HeldInv'
  BY DEF HeldInv, SlowEmpty, IrqEnter, rings
<1>10. NoLostWakeup'
  BY DEF NoLostWakeup, SlowEmpty, IrqEnter, rings
<1> QED
  BY <1>1, <1>2, <1>3, <1>4, <1>5, <1>6, <1>7, <1>8, <1>9, <1>10 DEF TypeOK

(* The interrupt handler serves the alarm. *)
LEMMA IrqTimerStep == ASSUME Inv, IrqTimer PROVE Inv'
<1> USE DEF Inv
<1>0. SlowRing'
  <2>1. UNCHANGED <<slowHead, main>>
    BY DEF IrqTimer, rings, armCpu
  <2>2. ASSUME NEW r \in Request, EnqueueSlow(r) PROVE SlowRing'
    BY <2>1, <2>2, EnqueueSlowRing
  <2>3. ASSUME UNCHANGED <<slowQ, slowTail, panicked>> PROVE SlowRing'
    BY <2>1, <2>3 DEF SlowRing, TypeOK, TypeRings, TypeArm, SlotsInv, HeldInv, SlowEmpty
  <2>4. \A kind \in {"armboot", "armjump"} : FromArm(kind) \in Request
    BY FromArmType DEF ArmKinds
  <2>5. QED
    BY <2>2, <2>3, <2>4 DEF IrqTimer, GeckoReceive, GeckoGiveUp, GeckoComplete
<1>1. TypeRings'
  BY <1>0, SizesAssumption, SuccValue DEF SlowRing, TypeRings, TypeArm,
     TypeOK, IrqTimer
<1>2. TypeArm'
  BY <1>0 DEF SlowRing, TypeArm, TypeOK, IrqTimer, posts
<1>3. TypeDevices'
  <2>1. UNCHANGED <<nand, cards, cardFlag>>
    BY DEF IrqTimer
  <2>2. gecko' \in {"none", "loading"} /\ timerFlag' \in BOOLEAN
    BY DEF IrqTimer, GeckoReceive, GeckoGiveUp, GeckoComplete, TypeOK, TypeDevices
  <2>3. uploads' = uploads \/ (uploads < MaxUploads /\ uploads' = uploads + 1)
    BY DEF IrqTimer, GeckoReceive, GeckoGiveUp, GeckoComplete
  <2>4. uploads' \in 0 .. MaxUploads
    BY <2>3, BoundsAssumption DEF TypeOK, TypeDevices
  <2>5. QED
    BY <2>1, <2>2, <2>4 DEF TypeOK, TypeDevices, nand
<1>4. TypePpc'
  BY DEF TypePpc, TypeOK, IrqTimer, GeckoReceive, GeckoGiveUp, GeckoComplete,
     PowerpcHang, ppcCpu
<1>5. SlotsInv'
  BY <1>0 DEF SlowRing, SlotsInv, IrqTimer
<1>6. PpcInv'
  BY DEF PpcInv, IrqTimer, GeckoReceive, GeckoGiveUp, GeckoComplete,
     PowerpcHang, ppcCpu
<1>7. ControlInv'
  BY DEF ControlInv, InPost, Posting, IrqTimer, posts
<1>8. RegistersInv'
  BY DEF RegistersInv, Publishing, IrqTimer, posts
<1>9. HeldInv'
  BY <1>0 DEF SlowRing, HeldInv, IrqTimer
<1>10. NoLostWakeup'
  BY DEF NoLostWakeup, ControlInv, IrqTimer
<1> QED
  BY <1>1, <1>2, <1>3, <1>4, <1>5, <1>6, <1>7, <1>8, <1>9, <1>10 DEF TypeOK

(* The interrupt handler serves the NAND interrupt. *)
LEMMA IrqNandStep == ASSUME Inv, IrqNand PROVE Inv'
<1> USE DEF Inv
<1>1. TypeRings'
  BY DEF TypeRings, TypeOK, IrqNand, rings
<1>2. TypeArm'
  BY DEF TypeArm, TypeDevices, TypeOK, IrqNand, StartPost, posts
<1>3. TypeDevices'
  BY DEF TypeDevices, TypeOK, IrqNand, devices
<1>4. TypePpc'
  BY DEF TypePpc, TypeOK, IrqNand, ppcCpu
<1>5. SlotsInv'
  BY DEF SlotsInv, IrqNand, rings
<1>6. PpcInv'
  BY DEF PpcInv, IrqNand, rings, ppcCpu
<1>7. ControlInv'
  BY DEF ControlInv, TypeOK, TypeArm, InPost, Posting, Contexts, IrqNand,
     StartPost, posts
<1>8. RegistersInv'
  BY DEF RegistersInv, TypeOK, TypeArm, Publishing, IrqNand, IrqRuns, Posting,
     StartPost, rings, posts
<1>9. HeldInv'
  BY DEF HeldInv, SlowEmpty, IrqNand, rings
<1>10. NoLostWakeup'
  BY DEF NoLostWakeup, SlowEmpty, IrqNand, rings
<1> QED
  BY <1>1, <1>2, <1>3, <1>4, <1>5, <1>6, <1>7, <1>8, <1>9, <1>10 DEF TypeOK

(* ipc_irq clears the bell, or ends. *)
LEMMA IrqBellStep == ASSUME Inv, IrqBell PROVE Inv'
<1> USE DEF Inv
<1>1. TypeRings'
  BY DEF TypeRings, TypeOK, IrqBell, rings
<1>2. TypeArm'
  BY DEF TypeArm, TypeOK, IrqBell, posts
<1>3. TypeDevices'
  BY DEF TypeDevices, TypeOK, IrqBell, nand, devices
<1>4. TypePpc'
  BY DEF TypePpc, TypeOK, IrqBell, ppcCpu
<1>5. SlotsInv'
  BY DEF SlotsInv, IrqBell, rings
<1>6. PpcInv'
  BY DEF PpcInv, IrqBell, rings, ppcCpu
<1>7. ControlInv'
  BY DEF ControlInv, InPost, Posting, IrqBell, posts
<1>8. RegistersInv'
  BY DEF RegistersInv, Publishing, IrqBell, rings, posts
<1>9. HeldInv'
  BY DEF HeldInv, SlowEmpty, IrqBell, rings
<1>10. NoLostWakeup'
  BY DEF NoLostWakeup, SlowEmpty, IrqBell, rings
<1> QED
  BY <1>1, <1>2, <1>3, <1>4, <1>5, <1>6, <1>7, <1>8, <1>9, <1>10 DEF TypeOK

(* process_in does a fast request, or passes a slow one on. *)
LEMMA IrqProcessInStep == ASSUME Inv, IrqProcessIn PROVE Inv'
<1> USE DEF Inv
<1>a. inQ[inHead] \in Request
  BY SizesAssumption, OccupiedEnds DEF IrqProcessIn, InEmpty, SlotsInv, TypeOK, TypeRings
<1>0. SlowRing'
  <2>1. UNCHANGED <<slowHead, main>>
    BY DEF IrqProcessIn, rings, armCpu
  <2>2. ASSUME NEW r \in Request, EnqueueSlow(r) PROVE SlowRing'
    BY <2>1, <2>2, EnqueueSlowRing
  <2>3. ASSUME UNCHANGED <<slowQ, slowTail, panicked>> PROVE SlowRing'
    BY <2>1, <2>3 DEF SlowRing, TypeOK, TypeRings, TypeArm, SlotsInv, HeldInv, SlowEmpty
  <2>4. inQ[inHead] \in Request
    BY <1>a
  <2>5. QED
    BY <2>2, <2>3, <2>4 DEF IrqProcessIn
<1>1. TypeRings'
  BY <1>0, SizesAssumption, SuccValue DEF SlowRing, TypeRings, TypeArm,
     TypeOK, IrqProcessIn
<1>2. TypeArm'
  BY <1>0, <1>a DEF SlowRing, TypeArm, TypeOK, IrqProcessIn, StartPost, posts
<1>3. TypeDevices'
  BY DEF TypeDevices, TypeOK, IrqProcessIn, nand, devices
<1>4. TypePpc'
  <2>1. UNCHANGED ppcCpu
    BY DEF IrqProcessIn
  <2>2. done' = Append(done, inQ[inHead].id) \/ done' = done
    BY DEF IrqProcessIn, Execute
  <2>3. inQ[inHead].id \in 0 .. MaxRequests
    BY <1>a, RequestId
  <2>4. done \in Seq(0 .. MaxRequests)
    BY DEF TypeOK, TypePpc
  <2>5. done' \in Seq(0 .. MaxRequests)
    BY <2>2, <2>3, <2>4, AppendType
  <2>6. QED
    BY <2>1, <2>5 DEF TypeOK, TypePpc, ppcCpu
<1>5. SlotsInv'
  BY <1>0 DEF SlowRing, SlotsInv, IrqProcessIn
<1>6. PpcInv'
  BY DEF PpcInv, IrqProcessIn, ppcCpu
<1>7. ControlInv'
  BY DEF ControlInv, TypeOK, TypeArm, InPost, Posting, Contexts, IrqProcessIn,
     StartPost, posts
<1>8. RegistersInv'
  BY DEF RegistersInv, TypeOK, TypeArm, Publishing, IrqProcessIn, IrqRuns,
     Posting, StartPost, posts
<1>9. HeldInv'
  BY <1>0 DEF SlowRing, HeldInv, InEmpty, IrqProcessIn
<1>10. NoLostWakeup'
  BY DEF NoLostWakeup, ControlInv, IrqProcessIn
<1> QED
  BY <1>1, <1>2, <1>3, <1>4, <1>5, <1>6, <1>7, <1>8, <1>9, <1>10 DEF TypeOK

(* ipc_irq finds the ring empty. *)
LEMMA IrqDrainedStep == ASSUME Inv, IrqDrained PROVE Inv'
<1> USE DEF Inv
<1>1. TypeRings'
  BY DEF TypeRings, TypeOK, IrqDrained, rings
<1>2. TypeArm'
  BY DEF TypeArm, TypeOK, IrqDrained, posts
<1>3. TypeDevices'
  BY DEF TypeDevices, TypeOK, IrqDrained, nand, devices
<1>4. TypePpc'
  BY DEF TypePpc, TypeOK, IrqDrained, ppcCpu
<1>5. SlotsInv'
  BY DEF SlotsInv, IrqDrained, rings
<1>6. PpcInv'
  BY DEF PpcInv, IrqDrained, rings, ppcCpu
<1>7. ControlInv'
  BY DEF ControlInv, InPost, Posting, IrqDrained, posts
<1>8. RegistersInv'
  BY DEF RegistersInv, Publishing, IrqDrained, rings, posts
<1>9. HeldInv'
  BY DEF HeldInv, SlowEmpty, IrqDrained, rings
<1>10. NoLostWakeup'
  BY DEF NoLostWakeup, SlowEmpty, IrqDrained, rings
<1> QED
  BY <1>1, <1>2, <1>3, <1>4, <1>5, <1>6, <1>7, <1>8, <1>9, <1>10 DEF TypeOK

(* ipc_irq frees the slot it has worked off and publishes the head. *)
LEMMA IrqAdvanceStep == ASSUME Inv, IrqAdvance PROVE Inv'
<1> USE DEF Inv
<1>1. TypeRings'
  BY SizesAssumption, SuccValue DEF TypeRings, TypeOK, Message, IrqAdvance
<1>2. TypeArm'
  BY DEF TypeArm, TypeOK, IrqAdvance, posts
<1>3. TypeDevices'
  BY DEF TypeDevices, TypeOK, IrqAdvance, nand, devices
<1>4. TypePpc'
  BY DEF TypePpc, TypeOK, IrqAdvance, ppcCpu
<1>5. SlotsInv'
  BY SizesAssumption, OccupiedGet DEF SlotsInv, TypeOK, TypeRings, HeldInv,
     InEmpty, IrqAdvance
<1>6. PpcInv'
  BY SizesAssumption, GetKeepsRoom DEF PpcInv, TypeOK, TypeRings, HeldInv,
     InEmpty, IrqAdvance, ppcCpu
<1>7. ControlInv'
  BY DEF ControlInv, InPost, Posting, IrqAdvance, posts
<1>8. RegistersInv'
  BY DEF RegistersInv, Publishing, ControlInv, Contexts, InPost, IrqAdvance,
     IrqRuns, Posting, posts
<1>9. HeldInv'
  BY DEF HeldInv, SlowEmpty, IrqAdvance
<1>10. NoLostWakeup'
  BY DEF NoLostWakeup, SlowEmpty, IrqAdvance
<1> QED
  BY <1>1, <1>2, <1>3, <1>4, <1>5, <1>6, <1>7, <1>8, <1>9, <1>10 DEF TypeOK

(* The interrupt handler serves a card change, and returns. *)
LEMMA IrqSdhcStep == ASSUME Inv, IrqSdhc PROVE Inv'
<1> USE DEF Inv
<1>0. SlowRing'
  <2>1. UNCHANGED <<slowHead, main>>
    BY DEF IrqSdhc, rings, armCpu
  <2>2. ASSUME NEW r \in Request, EnqueueSlow(r) PROVE SlowRing'
    BY <2>1, <2>2, EnqueueSlowRing
  <2>3. ASSUME UNCHANGED <<slowQ, slowTail, panicked>> PROVE SlowRing'
    BY <2>1, <2>3 DEF SlowRing, TypeOK, TypeRings, TypeArm, SlotsInv, HeldInv, SlowEmpty
  <2>4. FromArm("discover") \in Request
    BY FromArmType DEF ArmKinds
  <2>5. QED
    BY <2>2, <2>3, <2>4 DEF IrqSdhc
<1>1. TypeRings'
  BY <1>0, SizesAssumption, SuccValue DEF SlowRing, TypeRings, TypeOK, IrqSdhc
<1>2. TypeArm'
  BY <1>0 DEF SlowRing, TypeArm, TypeOK, IrqSdhc, posts
<1>3. TypeDevices'
  BY DEF TypeDevices, TypeOK, IrqSdhc, nand
<1>4. TypePpc'
  BY DEF TypePpc, TypeOK, IrqSdhc, ppcCpu
<1>5. SlotsInv'
  BY <1>0 DEF SlowRing, SlotsInv, IrqSdhc
<1>6. PpcInv'
  BY DEF PpcInv, IrqSdhc, ppcCpu
<1>7. ControlInv'
  BY DEF ControlInv, InPost, Posting, IrqSdhc, IrqRuns, posts
<1>8. RegistersInv'
  BY DEF RegistersInv, Publishing, IrqSdhc, posts
<1>9. HeldInv'
  BY <1>0 DEF SlowRing, HeldInv, IrqSdhc
<1>10. NoLostWakeup'
  BY DEF NoLostWakeup, ControlInv, IrqSdhc
<1> QED
  BY <1>1, <1>2, <1>3, <1>4, <1>5, <1>6, <1>7, <1>8, <1>9, <1>10 DEF TypeOK

(* The NAND controller finishes. *)
LEMMA NandCompleteStep == ASSUME Inv, NandComplete PROVE Inv'
<1> USE DEF Inv
<1>1. TypeRings'
  BY DEF TypeRings, TypeOK, NandComplete, rings
<1>2. TypeArm'
  BY DEF TypeArm, TypeOK, NandComplete, posts, armCpu
<1>3. TypeDevices'
  BY DEF TypeDevices, TypeOK, NandComplete, devices
<1>4. TypePpc'
  BY DEF TypePpc, TypeOK, NandComplete, ppcCpu
<1>5. SlotsInv'
  BY DEF SlotsInv, NandComplete, rings
<1>6. PpcInv'
  BY DEF PpcInv, NandComplete, rings, ppcCpu
<1>7. ControlInv'
  BY DEF ControlInv, InPost, Posting, NandComplete, posts, armCpu
<1>8. RegistersInv'
  BY DEF RegistersInv, Publishing, NandComplete, rings, posts, armCpu
<1>9. HeldInv'
  BY DEF HeldInv, SlowEmpty, InEmpty, NandComplete, rings, armCpu
<1>10. NoLostWakeup'
  BY DEF NoLostWakeup, SlowEmpty, NandComplete, rings, armCpu
<1> QED
  BY <1>1, <1>2, <1>3, <1>4, <1>5, <1>6, <1>7, <1>8, <1>9, <1>10 DEF TypeOK

(* A card comes or goes. *)
LEMMA CardChangeStep == ASSUME Inv, CardChange PROVE Inv'
<1> USE DEF Inv
<1>1. TypeRings'
  BY DEF TypeRings, TypeOK, CardChange, rings
<1>2. TypeArm'
  BY DEF TypeArm, TypeOK, CardChange, posts, armCpu
<1>3. TypeDevices'
  BY BoundsAssumption DEF TypeDevices, TypeOK, CardChange, nand
<1>4. TypePpc'
  BY DEF TypePpc, TypeOK, CardChange, ppcCpu
<1>5. SlotsInv'
  BY DEF SlotsInv, CardChange, rings
<1>6. PpcInv'
  BY DEF PpcInv, CardChange, rings, ppcCpu
<1>7. ControlInv'
  BY DEF ControlInv, InPost, Posting, CardChange, posts, armCpu
<1>8. RegistersInv'
  BY DEF RegistersInv, Publishing, CardChange, rings, posts, armCpu
<1>9. HeldInv'
  BY DEF HeldInv, SlowEmpty, InEmpty, CardChange, rings, armCpu
<1>10. NoLostWakeup'
  BY DEF NoLostWakeup, SlowEmpty, CardChange, rings, armCpu
<1> QED
  BY <1>1, <1>2, <1>3, <1>4, <1>5, <1>6, <1>7, <1>8, <1>9, <1>10 DEF TypeOK

(* The alarm goes off. *)
LEMMA AlarmStep == ASSUME Inv, Alarm PROVE Inv'
<1> USE DEF Inv
<1>1. TypeRings'
  BY DEF TypeRings, TypeOK, Alarm, rings
<1>2. TypeArm'
  BY DEF TypeArm, TypeOK, Alarm, posts, armCpu
<1>3. TypeDevices'
  BY DEF TypeDevices, TypeOK, Alarm, nand
<1>4. TypePpc'
  BY DEF TypePpc, TypeOK, Alarm, ppcCpu
<1>5. SlotsInv'
  BY DEF SlotsInv, Alarm, rings
<1>6. PpcInv'
  BY DEF PpcInv, Alarm, rings, ppcCpu
<1>7. ControlInv'
  BY DEF ControlInv, InPost, Posting, Alarm, posts, armCpu
<1>8. RegistersInv'
  BY DEF RegistersInv, Publishing, Alarm, rings, posts, armCpu
<1>9. HeldInv'
  BY DEF HeldInv, SlowEmpty, InEmpty, Alarm, rings, armCpu
<1>10. NoLostWakeup'
  BY DEF NoLostWakeup, SlowEmpty, Alarm, rings, armCpu
<1> QED
  BY <1>1, <1>2, <1>3, <1>4, <1>5, <1>6, <1>7, <1>8, <1>9, <1>10 DEF TypeOK

(* ipc_initialize takes up the rings where the register is. *)
LEMMA PpcInitStep == ASSUME Inv, PpcInit PROVE Inv'
<1> USE DEF Inv
<1>1. TypeRings'
  BY DEF TypeRings, TypeOK, PpcInit, rings
<1>2. TypeArm'
  BY DEF TypeArm, TypeOK, PpcInit, posts, armCpu
<1>3. TypeDevices'
  BY DEF TypeDevices, TypeOK, PpcInit, nand, devices
<1>4. TypePpc'
  BY BoundsAssumption DEF TypePpc, TypeRings, TypeOK, PpcInit
<1>5. SlotsInv'
  BY DEF SlotsInv, PpcInit, rings
<1>6. PpcInv'
  BY DEF PpcInv, TypeOK, TypePpc, PpcInit, rings
<1>7. ControlInv'
  BY DEF ControlInv, InPost, Posting, PpcInit, posts, armCpu
<1>8. RegistersInv'
  BY DEF RegistersInv, Publishing, PpcInit, rings, posts, armCpu
<1>9. HeldInv'
  BY DEF HeldInv, SlowEmpty, InEmpty, PpcInit, rings, armCpu
<1>10. NoLostWakeup'
  BY DEF NoLostWakeup, SlowEmpty, PpcInit, rings, armCpu
<1> QED
  BY <1>1, <1>2, <1>3, <1>4, <1>5, <1>6, <1>7, <1>8, <1>9, <1>10 DEF TypeOK

(* The client makes a request. *)
LEMMA PpcCallStep == ASSUME Inv, PpcCall PROVE Inv'
<1> USE DEF Inv
<1>a. PICK kind \in ClientKinds, tag \in 0 .. MaxRequests : Call(kind, tag)
  <2>1. ppc = "idle" /\ nextId <= MaxRequests
    BY DEF PpcCall, Call, PpcAt
  <2>2. curTag \in 0 .. MaxRequests /\ 0 \in 0 .. MaxRequests
    BY <2>1, BoundsAssumption DEF TypeOK, TypePpc, PpcInv
  <2>3. QED
    BY <2>2, KindsAssumption DEF PpcCall
<1>b. /\ ppc = "idle" /\ ppc' = "room" /\ nextId <= MaxRequests /\ nextId' = nextId + 1
      /\ received' = None /\ request' = [kind |-> kind, tag |-> tag, id |-> nextId]
      /\ UNCHANGED <<inTail, outHead, curTag, firstId, done>>
      /\ UNCHANGED <<rings, bell, armCpu, nand, devices>>
  BY <1>a DEF Call, PpcAt
<1>c. request' \in Request
  BY <1>a, <1>b, BoundsAssumption DEF Request, TypeOK, TypePpc
<1>1. TypeRings'
  BY <1>b DEF TypeRings, TypeArm, TypeOK, rings
<1>2. TypeArm'
  BY <1>b DEF TypeArm, TypeOK, posts, armCpu
<1>3. TypeDevices'
  BY <1>b DEF TypeDevices, TypeOK, nand, devices
<1>4. TypePpc'
  BY <1>b, <1>c, BoundsAssumption DEF TypeOK, TypePpc
<1>5. SlotsInv'
  BY <1>b DEF SlotsInv, rings
<1>6. PpcInv'
  BY <1>b, <1>c, BoundsAssumption DEF PpcInv, TypeOK, TypePpc, rings
<1>7. ControlInv'
  BY <1>b DEF ControlInv, InPost, Posting, posts, armCpu
<1>8. RegistersInv'
  BY <1>b DEF RegistersInv, Publishing, rings, posts, armCpu
<1>9. HeldInv'
  BY <1>b DEF HeldInv, SlowEmpty, InEmpty, rings, armCpu
<1>10. NoLostWakeup'
  BY <1>b DEF NoLostWakeup, SlowEmpty, rings, armCpu
<1> QED
  BY <1>1, <1>2, <1>3, <1>4, <1>5, <1>6, <1>7, <1>8, <1>9, <1>10 DEF TypeOK

(* ipc_vpost fills the slot at the tail, which is not occupied. *)
LEMMA PpcWriteStep == ASSUME Inv, PpcWrite PROVE Inv'
<1> USE DEF Inv
<1>1. TypeRings'
  BY SizesAssumption, SuccValue DEF TypeRings, TypeArm, TypeOK, PpcInv,
     PpcWrite, PpcAt
<1>2. TypeArm'
  BY DEF TypeArm, TypeOK, PpcWrite, posts, armCpu
<1>3. TypeDevices'
  BY DEF TypeDevices, TypeOK, PpcWrite, nand, devices
<1>4. TypePpc'
  BY DEF TypePpc, TypeOK, PpcWrite
<1>5. SlotsInv'
  BY SizesAssumption DEF SlotsInv, PpcInv, PpcWrite, PpcAt
<1>6. PpcInv'
  BY SizesAssumption DEF PpcInv, TypeOK, TypeRings, RegistersInv, PpcWrite,
     PpcAt
<1>7. ControlInv'
  BY DEF ControlInv, InPost, Posting, PpcWrite, posts, armCpu
<1>8. RegistersInv'
  BY DEF RegistersInv, Publishing, PpcWrite, posts, armCpu
<1>9. HeldInv'
  BY DEF HeldInv, SlowEmpty, InEmpty, PpcWrite, armCpu
<1>10. NoLostWakeup'
  BY DEF NoLostWakeup, SlowEmpty, PpcWrite, armCpu
<1> QED
  BY <1>1, <1>2, <1>3, <1>4, <1>5, <1>6, <1>7, <1>8, <1>9, <1>10 DEF TypeOK

(* ipc_vpost publishes the slot it has filled. *)
LEMMA PpcPokeStep == ASSUME Inv, PpcPoke PROVE Inv'
<1> USE DEF Inv
<1>1. TypeRings'
  BY SizesAssumption, SuccValue DEF TypeRings, TypeOK, TypePpc, PpcPoke
<1>2. TypeArm'
  BY DEF TypeArm, TypeOK, PpcPoke, posts, armCpu
<1>3. TypeDevices'
  BY DEF TypeDevices, TypeOK, PpcPoke, nand, devices
<1>4. TypePpc'
  BY SizesAssumption, SuccValue DEF TypePpc, TypeOK, PpcPoke
<1>5. SlotsInv'
  BY SizesAssumption, OccupiedPut DEF SlotsInv, TypeOK, TypeRings, PpcInv,
     PpcPoke, PpcAt
<1>6. PpcInv'
  BY SizesAssumption DEF PpcInv, PpcPoke, PpcAt
<1>7. ControlInv'
  BY DEF ControlInv, InPost, Posting, PpcPoke, posts, armCpu
<1>8. RegistersInv'
  BY DEF RegistersInv, Publishing, PpcPoke, posts, armCpu
<1>9. HeldInv'
  BY DEF HeldInv, SlowEmpty, InEmpty, PpcInv, IsFull, PpcPoke, PpcAt, armCpu
<1>10. NoLostWakeup'
  BY DEF NoLostWakeup, SlowEmpty, PpcPoke, armCpu
<1> QED
  BY <1>1, <1>2, <1>3, <1>4, <1>5, <1>6, <1>7, <1>8, <1>9, <1>10 DEF TypeOK

(* ipc_vpost rings. *)
LEMMA PpcBellStep == ASSUME Inv, PpcBell PROVE Inv'
<1> USE DEF Inv
<1>1. TypeRings'
  BY DEF TypeRings, TypeOK, PpcBell, rings
<1>2. TypeArm'
  BY DEF TypeArm, TypeOK, PpcBell, posts, armCpu
<1>3. TypeDevices'
  BY DEF TypeDevices, TypeOK, PpcBell, nand, devices
<1>4. TypePpc'
  BY DEF TypePpc, TypeOK, PpcBell
<1>5. SlotsInv'
  BY DEF SlotsInv, PpcBell, rings
<1>6. PpcInv'
  BY DEF PpcInv, TypeOK, TypePpc, PpcBell, PpcAt, rings
<1>7. ControlInv'
  BY DEF ControlInv, InPost, Posting, PpcBell, posts, armCpu
<1>8. RegistersInv'
  BY DEF RegistersInv, Publishing, PpcBell, rings, posts, armCpu
<1>9. HeldInv'
  BY DEF HeldInv, SlowEmpty, InEmpty, PpcBell, rings, armCpu
<1>10. NoLostWakeup'
  BY DEF NoLostWakeup, SlowEmpty, PpcBell, rings, armCpu
<1> QED
  BY <1>1, <1>2, <1>3, <1>4, <1>5, <1>6, <1>7, <1>8, <1>9, <1>10 DEF TypeOK

(* ipc_receive copies a slot. *)
LEMMA PpcReceiveStep == ASSUME Inv, PpcReceive PROVE Inv'
<1> USE DEF Inv
<1>1. TypeRings'
  BY DEF TypeRings, TypeOK, PpcReceive, rings
<1>2. TypeArm'
  BY DEF TypeArm, TypeOK, PpcReceive, posts, armCpu
<1>3. TypeDevices'
  BY DEF TypeDevices, TypeOK, PpcReceive, nand, devices
<1>4. TypePpc'
  BY BoundsAssumption DEF TypePpc, TypeRings, TypeOK, SlotsInv, PpcReceive,
     PpcAt, rings
<1>5. SlotsInv'
  BY DEF SlotsInv, PpcReceive, rings
<1>6. PpcInv'
  BY SizesAssumption DEF PpcInv, PpcReceive, PpcAt, rings
<1>7. ControlInv'
  BY DEF ControlInv, InPost, Posting, PpcReceive, posts, armCpu
<1>8. RegistersInv'
  BY DEF RegistersInv, Publishing, PpcReceive, rings, posts, armCpu
<1>9. HeldInv'
  BY DEF HeldInv, SlowEmpty, InEmpty, PpcReceive, rings, armCpu
<1>10. NoLostWakeup'
  BY DEF NoLostWakeup, SlowEmpty, PpcReceive, rings, armCpu
<1> QED
  BY <1>1, <1>2, <1>3, <1>4, <1>5, <1>6, <1>7, <1>8, <1>9, <1>10 DEF TypeOK

(* ipc_receive publishes the new head. *)
LEMMA PpcAckStep == ASSUME Inv, PpcAck PROVE Inv'
<1> USE DEF Inv
<1>1. TypeRings'
  BY SizesAssumption, SuccValue DEF TypeRings, TypeOK, TypePpc, PpcAck
<1>2. TypeArm'
  BY DEF TypeArm, TypeOK, PpcAck, posts, armCpu
<1>3. TypeDevices'
  BY DEF TypeDevices, TypeOK, PpcAck, nand, devices
<1>4. TypePpc'
  BY SizesAssumption, SuccValue DEF TypePpc, TypeOK, PpcAck
<1>5. SlotsInv'
  BY DEF SlotsInv, PpcAck
<1>6. PpcInv'
  BY SizesAssumption DEF PpcInv, PpcAck, PpcAt
<1>7. ControlInv'
  BY DEF ControlInv, InPost, Posting, PpcAck, posts, armCpu
<1>8. RegistersInv'
  BY DEF RegistersInv, Publishing, PpcAck, posts, armCpu
<1>9. HeldInv'
  BY DEF HeldInv, SlowEmpty, InEmpty, PpcAck, armCpu
<1>10. NoLostWakeup'
  BY DEF NoLostWakeup, SlowEmpty, PpcAck, armCpu
<1> QED
  BY <1>1, <1>2, <1>3, <1>4, <1>5, <1>6, <1>7, <1>8, <1>9, <1>10 DEF TypeOK

(* ipc_receive_tagged discards a reply. *)
LEMMA PpcDiscardStep == ASSUME Inv, PpcDiscard PROVE Inv'
<1> USE DEF Inv
<1>1. TypeRings'
  BY DEF TypeRings, TypeOK, PpcDiscard, rings
<1>2. TypeArm'
  BY DEF TypeArm, TypeOK, PpcDiscard, posts, armCpu
<1>3. TypeDevices'
  BY DEF TypeDevices, TypeOK, PpcDiscard, nand, devices
<1>4. TypePpc'
  BY DEF TypePpc, TypeOK, PpcDiscard
<1>5. SlotsInv'
  BY DEF SlotsInv, PpcDiscard, rings
<1>6. PpcInv'
  BY SizesAssumption DEF PpcInv, PpcDiscard, PpcAt, rings
<1>7. ControlInv'
  BY DEF ControlInv, InPost, Posting, PpcDiscard, posts, armCpu
<1>8. RegistersInv'
  BY DEF RegistersInv, Publishing, PpcDiscard, rings, posts, armCpu
<1>9. HeldInv'
  BY DEF HeldInv, SlowEmpty, InEmpty, PpcDiscard, rings, armCpu
<1>10. NoLostWakeup'
  BY DEF NoLostWakeup, SlowEmpty, PpcDiscard, rings, armCpu
<1> QED
  BY <1>1, <1>2, <1>3, <1>4, <1>5, <1>6, <1>7, <1>8, <1>9, <1>10 DEF TypeOK

(* ipc_exchange returns. *)
LEMMA PpcReturnStep == ASSUME Inv, PpcReturn PROVE Inv'
<1> USE DEF Inv
<1>1. TypeRings'
  BY DEF TypeRings, TypeOK, PpcReturn, rings
<1>2. TypeArm'
  BY DEF TypeArm, TypeOK, PpcReturn, posts, armCpu
<1>3. TypeDevices'
  BY DEF TypeDevices, TypeOK, PpcReturn, nand, devices
<1>4. TypePpc'
  BY BoundsAssumption DEF TypePpc, TypeOK, PpcInv, PpcReturn, PpcAt
<1>5. SlotsInv'
  BY DEF SlotsInv, PpcReturn, rings
<1>6. PpcInv'
  BY DEF PpcInv, TypeOK, TypePpc, PpcReturn, PpcAt, rings
<1>7. ControlInv'
  BY DEF ControlInv, InPost, Posting, PpcReturn, posts, armCpu
<1>8. RegistersInv'
  BY DEF RegistersInv, Publishing, PpcReturn, rings, posts, armCpu
<1>9. HeldInv'
  BY DEF HeldInv, SlowEmpty, InEmpty, PpcReturn, rings, armCpu
<1>10. NoLostWakeup'
  BY DEF NoLostWakeup, SlowEmpty, PpcReturn, rings, armCpu
<1> QED
  BY <1>1, <1>2, <1>3, <1>4, <1>5, <1>6, <1>7, <1>8, <1>9, <1>10 DEF TypeOK

(* ipc_shutdown begins. *)
LEMMA PpcShutdownStep == ASSUME Inv, PpcShutdown PROVE Inv'
<1> USE DEF Inv
<1>1. TypeRings'
  BY DEF TypeRings, TypeOK, PpcShutdown, rings
<1>2. TypeArm'
  BY DEF TypeArm, TypeOK, PpcShutdown, posts, armCpu
<1>3. TypeDevices'
  BY DEF TypeDevices, TypeOK, PpcShutdown, nand, devices
<1>4. TypePpc'
  BY DEF TypePpc, TypeOK, PpcShutdown
<1>5. SlotsInv'
  BY DEF SlotsInv, PpcShutdown, rings
<1>6. PpcInv'
  BY SizesAssumption DEF PpcInv, PpcShutdown, PpcAt, rings
<1>7. ControlInv'
  BY DEF ControlInv, InPost, Posting, PpcShutdown, posts, armCpu
<1>8. RegistersInv'
  BY DEF RegistersInv, Publishing, PpcShutdown, rings, posts, armCpu
<1>9. HeldInv'
  BY DEF HeldInv, SlowEmpty, InEmpty, PpcShutdown, rings, armCpu
<1>10. NoLostWakeup'
  BY DEF NoLostWakeup, SlowEmpty, PpcShutdown, rings, armCpu
<1> QED
  BY <1>1, <1>2, <1>3, <1>4, <1>5, <1>6, <1>7, <1>8, <1>9, <1>10 DEF TypeOK

(* ipc_shutdown has seen the ring empty. *)
LEMMA PpcFlushStep == ASSUME Inv, PpcFlush PROVE Inv'
<1> USE DEF Inv
<1>1. TypeRings'
  BY DEF TypeRings, TypeOK, PpcFlush, rings
<1>2. TypeArm'
  BY DEF TypeArm, TypeOK, PpcFlush, posts, armCpu
<1>3. TypeDevices'
  BY DEF TypeDevices, TypeOK, PpcFlush, nand, devices
<1>4. TypePpc'
  BY DEF TypePpc, TypeOK, PpcFlush
<1>5. SlotsInv'
  BY DEF SlotsInv, PpcFlush, rings
<1>6. PpcInv'
  BY SizesAssumption DEF PpcInv, PpcFlush, PpcAt, rings
<1>7. ControlInv'
  BY DEF ControlInv, InPost, Posting, PpcFlush, posts, armCpu
<1>8. RegistersInv'
  BY DEF RegistersInv, Publishing, PpcFlush, rings, posts, armCpu
<1>9. HeldInv'
  BY DEF HeldInv, SlowEmpty, InEmpty, PpcFlush, rings, armCpu
<1>10. NoLostWakeup'
  BY DEF NoLostWakeup, SlowEmpty, PpcFlush, rings, armCpu
<1> QED
  BY <1>1, <1>2, <1>3, <1>4, <1>5, <1>6, <1>7, <1>8, <1>9, <1>10 DEF TypeOK

-----------------------------------------------------------------------------
(* The initial state satisfies the invariant. *)
LEMMA InitInv == Init => Inv
<1> SUFFICES ASSUME Init PROVE Inv
  OBVIOUS
<1> USE SizesAssumption, BoundsAssumption DEF Init
<1>1. TypeRings
  BY DEF TypeRings, Message
<1>2. TypeArm
  <2>1. [head |-> 0, tail |-> 0] \in Message
    BY DEF Message
  <2>2. copy \in [Contexts -> Message] /\ reply \in [Contexts -> Request \cup {None}]
    BY <2>1
  <2>3. cookie \in [Contexts -> BOOLEAN] /\ irqOff \in BOOLEAN /\ panicked \in BOOLEAN
        /\ bell \in BOOLEAN
    OBVIOUS
  <2>4. QED
    BY <2>2, <2>3 DEF TypeArm
<1>3. TypeDevices
  <2>1. nandBusy \in BOOLEAN /\ nandFlag \in BOOLEAN /\ cardFlag \in BOOLEAN
        /\ timerFlag \in BOOLEAN
    OBVIOUS
  <2>2. cards \in 0 .. MaxCards /\ uploads \in 0 .. MaxUploads
    OBVIOUS
  <2>3. QED
    BY <2>1, <2>2 DEF TypeDevices
<1>4. TypePpc
  BY DEF TypePpc
<1>5. SlotsInv
  BY DEF SlotsInv, Occupied
<1>6. PpcInv /\ HeldInv /\ NoLostWakeup
  BY DEF PpcInv, HeldInv, NoLostWakeup
<1>7. ControlInv /\ RegistersInv
  BY DEF ControlInv, RegistersInv, InPost, Posting, Contexts
<1>8. QED
  BY <1>1, <1>2, <1>3, <1>4, <1>5, <1>6, <1>7 DEF Inv, TypeOK

(* A step that changes nothing keeps the invariant. *)
LEMMA StutterInv == Inv /\ UNCHANGED vars => Inv'
<1> SUFFICES ASSUME Inv, UNCHANGED vars PROVE Inv'
  OBVIOUS
<1> USE DEF Inv, vars
<1>1. TypeRings' /\ SlotsInv'
  BY DEF TypeOK, TypeRings, SlotsInv, rings
<1>2. TypeArm'
  BY DEF TypeOK, TypeArm, armCpu, posts
<1>3. TypeDevices' /\ TypePpc'
  BY DEF TypeOK, TypeDevices, TypePpc, nand, devices, ppcCpu
<1>4. PpcInv' /\ HeldInv' /\ NoLostWakeup'
  BY DEF PpcInv, HeldInv, NoLostWakeup, SlowEmpty, InEmpty, rings, armCpu, ppcCpu
<1>5. ControlInv' /\ RegistersInv'
  BY DEF ControlInv, RegistersInv, Publishing, InPost, Posting, rings, armCpu, posts
<1>6. QED
  BY <1>1, <1>2, <1>3, <1>4, <1>5 DEF TypeOK

(* Every step keeps the invariant. *)
LEMMA NextInv == Inv /\ [Next]_vars => Inv'
<1> SUFFICES ASSUME Inv, [Next]_vars PROVE Inv'
  OBVIOUS
<1>1. ASSUME NEW c \in Contexts, Post(c) PROVE Inv'
  BY <1>1, PostKillStep, PostWriteStep, PostReadStep, PostPokeStep, PostRestoreStep
     DEF Post
<1>2. CASE Main
  BY <1>2, MainTakeStep, ProcessSlowStep, ProcessMuteStep, ProcessNandStep,
     ProcessBootStep, MainFlushStep, MainAdvanceStep, MainLeaveStep,
     MainIdleStep, MainKillStep, MainRecheckStep, MainWaitStep,
     MainRestoreStep
     DEF Main
<1>3. CASE Irq
  BY <1>3, IrqEnterStep, IrqTimerStep, IrqNandStep, IrqBellStep,
     IrqProcessInStep, IrqDrainedStep, IrqAdvanceStep, IrqSdhcStep
     DEF Irq
<1>4. CASE NandComplete \/ CardChange \/ Alarm
  BY <1>4, NandCompleteStep, CardChangeStep, AlarmStep
<1>5. CASE PpcCall \/ PpcShutdown \/ PpcRun
  BY <1>5, PpcInitStep, PpcCallStep, PpcWriteStep, PpcPokeStep, PpcBellStep,
     PpcReceiveStep, PpcAckStep, PpcDiscardStep, PpcReturnStep,
     PpcShutdownStep, PpcFlushStep
     DEF PpcRun
<1>6. CASE UNCHANGED vars
  BY <1>6, StutterInv
<1>7. QED
  BY <1>1, <1>2, <1>3, <1>4, <1>5, <1>6 DEF Next, Arm

(* In every reachable state the invariant holds. *)
THEOREM Invariant == Spec => []Inv
BY InitInv, NextInv, PTL DEF Spec

(***************************************************************************)
(* Type correctness, for rings of every size: no index of either processor *)
(* leaves its ring, and what main loop and handler work on is a request.   *)
(***************************************************************************)
THEOREM TypeCorrect == Spec => []TypeOK
<1>1. Inv => TypeOK
  BY DEF Inv
<1>2. QED
  BY <1>1, Invariant, PTL

(***************************************************************************)
(* The registers agree with the ARM's indices: the read-modify-writes of   *)
(* ARMMSG in the main loop and in the handler never undo one another.      *)
(***************************************************************************)
THEOREM RegistersCorrect == Spec => []RegistersAgree
<1>1. Inv => RegistersAgree
  BY DEF Inv, RegistersInv, RegistersAgree
<1>2. QED
  BY <1>1, Invariant, PTL

(* irq_kill excludes the handler from ipc_post of the main loop. *)
THEOREM PostExcludes == Spec => []PostExclusive
<1>1. Inv => PostExclusive
  BY DEF Inv, ControlInv, PostExclusive
<1>2. QED
  BY <1>1, Invariant, PTL

(* The main loop never sleeps over a request in its queue. *)
THEOREM WakeupNotLost == Spec => []NoLostWakeup
<1>1. Inv => NoLostWakeup
  BY DEF Inv
<1>2. QED
  BY <1>1, Invariant, PTL

-----------------------------------------------------------------------------
(* The rings as queues. *)

(***************************************************************************)
(* What ipc_post has reached: it has a reply to send; the slot it wrote is *)
(* the one after the published replies, and there is room for it; then     *)
(* out_tail is one further than what is published.  The PowerPC moves its  *)
(* head only past a reply.                                                 *)
(***************************************************************************)
HasReply == \A c \in Contexts : Posting(c) => reply[c] \in Request

Written ==
    \A c \in Contexts : post[c] = "read" =>
        /\ armMsg.tail = outTail
        /\ ~IsFull(ppcMsg.head, outTail, OutSize)
        /\ outQ[outTail] \in Request

Unpublished ==
    \A c \in Contexts : post[c] = "poke" =>
        /\ outTail = Succ(armMsg.tail, OutSize)
        /\ ~IsFull(ppcMsg.head, armMsg.tail, OutSize)
        /\ outQ[armMsg.tail] \in Request

HasReceived == ppc = "ack" => ppcMsg.head # armMsg.tail

OutInv == HasReply /\ Written /\ Unpublished /\ HasReceived

-----------------------------------------------------------------------------
(* The steps that leave the rings and the registers alone. *)
Silent ==
    \/ \E c \in Contexts : PostKill(c) \/ PostRestore(c)
    \/ MainTake \/ ProcessSlow \/ ProcessMute \/ ProcessNand \/ ProcessBoot \/ MainFlush
    \/ MainIdle \/ MainKill \/ MainRecheck \/ MainWait \/ MainRestore
    \/ IrqEnter \/ IrqNand \/ IrqBell \/ IrqDrained
    \/ NandComplete \/ CardChange \/ Alarm
    \/ PpcCall \/ PpcShutdown
    \/ PpcInit \/ PpcBell \/ PpcReceive \/ PpcDiscard \/ PpcReturn \/ PpcFlush
    \/ UNCHANGED vars

LEMMA SilentKeepsRings == Silent => UNCHANGED rings
<1>1. ASSUME NEW c \in Contexts, PostKill(c) \/ PostRestore(c) PROVE UNCHANGED rings
  BY <1>1 DEF PostKill, PostRestore
<1>2. MainTake \/ ProcessSlow \/ ProcessMute \/ ProcessNand \/ ProcessBoot \/ MainFlush
      => UNCHANGED rings
  BY DEF MainTake, ProcessSlow, ProcessMute, ProcessNand, ProcessBoot, MainFlush
<1>3. MainIdle \/ MainKill \/ MainRecheck \/ MainWait \/ MainRestore => UNCHANGED rings
  BY DEF MainIdle, MainKill, MainRecheck, MainWait, MainRestore
<1>4. IrqEnter \/ IrqNand \/ IrqBell \/ IrqDrained => UNCHANGED rings
  BY DEF IrqEnter, IrqNand, IrqBell, IrqDrained
<1>5. NandComplete \/ CardChange \/ Alarm => UNCHANGED rings
  BY DEF NandComplete, CardChange, Alarm
<1>6. PpcCall \/ PpcShutdown \/ PpcInit \/ PpcBell \/ PpcReceive \/ PpcDiscard
      \/ PpcReturn \/ PpcFlush => UNCHANGED rings
  BY DEF PpcCall, Call, PpcShutdown, PpcInit, PpcBell, PpcReceive, PpcDiscard, PpcReturn, PpcFlush
<1>7. UNCHANGED vars => UNCHANGED rings
  BY DEF vars
<1>8. QED
  BY <1>1, <1>2, <1>3, <1>4, <1>5, <1>6, <1>7 DEF Silent

(* Every other step is one of twelve. *)
LEMMA Steps ==
    ASSUME [Next]_vars
    PROVE  \/ Silent
           \/ \E c \in Contexts : PostWrite(c) \/ PostRead(c) \/ PostPoke(c)
           \/ MainAdvance \/ MainLeave
           \/ IrqTimer \/ IrqProcessIn \/ IrqAdvance \/ IrqSdhc
           \/ PpcWrite \/ PpcPoke \/ PpcAck
BY DEF Next, Arm, Main, Irq, Post, PpcRun, Silent

-----------------------------------------------------------------------------
(* The ring of requests, from ipc_vpost to process_in. *)

LEMMA InSame ==
    ASSUME inQ' = inQ, inHead' = inHead, ppcMsg'.tail = ppcMsg.tail
    PROVE  InFlight' = InFlight
BY DEF InFlight

(* Only ipc_vpost and poke_inhead touch the ring. *)
LEMMA OthersKeepIn ==
    ASSUME TypeOK,
           \/ Silent
           \/ \E c \in Contexts : PostWrite(c) \/ PostRead(c) \/ PostPoke(c)
           \/ MainAdvance \/ MainLeave \/ IrqTimer \/ IrqProcessIn \/ IrqSdhc \/ PpcAck
    PROVE  InFlight' = InFlight
<1>1. CASE Silent
  BY <1>1, SilentKeepsRings, InSame DEF rings
<1>2. ASSUME NEW c \in Contexts, PostWrite(c) \/ PostRead(c) \/ PostPoke(c)
      PROVE  InFlight' = InFlight
  BY <1>2, InSame DEF PostWrite, PostRead, PostPoke
<1>3. CASE MainAdvance \/ MainLeave
  BY <1>3, InSame DEF MainAdvance, MainLeave
<1>4. CASE IrqTimer \/ IrqProcessIn \/ IrqSdhc
  BY <1>4, InSame DEF IrqTimer, IrqProcessIn, IrqSdhc
<1>5. CASE PpcAck
  BY <1>5, InSame DEF PpcAck, TypeOK, TypeRings
<1>6. QED
  BY <1>1, <1>2, <1>3, <1>4, <1>5

(* The PowerPC publishes its request; the handler drops the first one; no  *)
(* other step concerns the ring.                                           *)
LEMMA InMoves ==
    ASSUME Inv, [Next]_vars
    PROVE  \/ ~PpcPoke /\ ~IrqAdvance /\ InFlight' = InFlight
           \/ /\ PpcPoke /\ InFlight' = Append(InFlight, request) /\ request \in Request
              /\ Len(InFlight) < InSize - 1 /\ Len(InFlight') = Len(InFlight) + 1
           \/ IrqAdvance /\ InFlight # <<>> /\ InFlight' = Tail(InFlight)
<1> USE SizesAssumption DEF Inv
<1>1. /\ inHead \in 0 .. InSize - 1 /\ ppcMsg.tail \in 0 .. InSize - 1
      /\ inQ \in [0 .. InSize - 1 -> Request \cup {None}]
  BY DEF TypeOK, TypeRings
<1>2. CASE PpcWrite
  <2>1. /\ inQ' = [inQ EXCEPT ![inTail] = request]
        /\ inHead' = inHead /\ ppcMsg' = ppcMsg /\ inTail = ppcMsg.tail
        /\ ~PpcPoke /\ ~IrqAdvance
    BY <1>2 DEF PpcWrite, PpcPoke, IrqAdvance, PpcAt, PpcInv, armCpu
  <2>2. ASSUME NEW i \in 0 .. InSize - 1, Occupied(i, inHead, ppcMsg.tail)
        PROVE  inQ'[i] = inQ[i]
    BY <1>1, <2>1, <2>2, OccupiedEnds
  <2>3. Contents(inQ', inHead, ppcMsg.tail, InSize) = Contents(inQ, inHead, ppcMsg.tail, InSize)
    BY ONLY SizesAssumption, <1>1, <2>2, ContentsOfOccupied
  <2>4. QED
    BY <2>1, <2>3 DEF InFlight
<1>3. CASE PpcPoke
  <2>1. /\ inQ' = inQ /\ inHead' = inHead /\ ppcMsg'.tail = Succ(ppcMsg.tail, InSize)
        /\ inQ[ppcMsg.tail] = request /\ request \in Request
        /\ ~IsFull(inHead, ppcMsg.tail, InSize)
    BY <1>3 DEF PpcPoke, PpcAt, PpcInv, TypeOK, TypeRings
  <2>2. QED
    BY SMTT(20), <1>1, <1>3, <2>1, ContentsPut DEF InFlight
<1>4. CASE IrqAdvance
  <2>1. /\ inQ' = inQ /\ inHead' = Succ(inHead, InSize) /\ ppcMsg' = ppcMsg
        /\ inHead # ppcMsg.tail
    BY <1>4 DEF IrqAdvance, HeldInv, InEmpty
  <2>2. QED
    BY <1>1, <1>4, <2>1, ContentsGet DEF InFlight
<1>5. CASE ~(PpcWrite \/ PpcPoke \/ IrqAdvance)
  BY <1>5, Steps, OthersKeepIn
<1>6. QED
  BY <1>2, <1>3, <1>4, <1>5

LEMMA InStep == ASSUME Inv, [Next]_vars PROVE [In!Next]_InFlight
BY InMoves DEF In!Next, In!Put, In!Get

-----------------------------------------------------------------------------
(* The slow queue, from the interrupt handler to the main loop. *)

LEMMA SlowSame ==
    ASSUME UNCHANGED <<slowQ, slowHead, slowTail>>
    PROVE  SlowWaiting' = SlowWaiting
BY DEF SlowWaiting

LEMMA OthersKeepSlow ==
    ASSUME \/ Silent
           \/ \E c \in Contexts : PostWrite(c) \/ PostRead(c) \/ PostPoke(c)
           \/ IrqAdvance \/ PpcWrite \/ PpcPoke \/ PpcAck
    PROVE  SlowWaiting' = SlowWaiting
<1>1. CASE Silent
  BY <1>1, SilentKeepsRings, SlowSame DEF rings
<1>2. ASSUME NEW c \in Contexts, PostWrite(c) \/ PostRead(c) \/ PostPoke(c)
      PROVE  SlowWaiting' = SlowWaiting
  BY <1>2, SlowSame DEF PostWrite, PostRead, PostPoke
<1>3. CASE IrqAdvance \/ PpcWrite \/ PpcPoke \/ PpcAck
  BY <1>3, SlowSame DEF IrqAdvance, PpcWrite, PpcPoke, PpcAck
<1>4. QED
  BY <1>1, <1>2, <1>3

(* A request that is enqueued comes last; a full queue stays as it is. *)
LEMMA EnqueueIsPut ==
    ASSUME Inv, NEW r \in Request, EnqueueSlow(r), slowHead' = slowHead
    PROVE  [Slow!Next]_SlowWaiting
<1> USE SizesAssumption DEF Inv
<1>1. /\ slowHead \in 0 .. SlowSize - 1 /\ slowTail \in 0 .. SlowSize - 1
      /\ slowQ \in [0 .. SlowSize - 1 -> Request \cup {None}]
  BY DEF TypeOK, TypeRings
<1>2. CASE SlowFull
  BY <1>2, SlowSame DEF EnqueueSlow
<1>3. CASE ~SlowFull
  <2>1. /\ slowQ' = [slowQ EXCEPT ![slowTail] = r] /\ slowTail' = Succ(slowTail, SlowSize)
        /\ ~IsFull(slowHead, slowTail, SlowSize)
    BY <1>3 DEF EnqueueSlow, SlowFull
  <2>2. slowQ'[slowTail] = r
    BY <1>1, <2>1
  <2>3. ASSUME NEW i \in 0 .. SlowSize - 1, Occupied(i, slowHead, slowTail)
        PROVE  slowQ'[i] = slowQ[i]
    BY <1>1, <2>1, <2>3, OccupiedEnds
  <2>4. /\ Contents(slowQ', slowHead, Succ(slowTail, SlowSize), SlowSize)
              = Append(Contents(slowQ, slowHead, slowTail, SlowSize), slowQ'[slowTail])
        /\ Len(Contents(slowQ, slowHead, slowTail, SlowSize)) < SlowSize - 1
        /\ Len(Contents(slowQ', slowHead, Succ(slowTail, SlowSize), SlowSize))
              = Len(Contents(slowQ, slowHead, slowTail, SlowSize)) + 1
    <3>1. ~IsFull(slowHead, slowTail, SlowSize)
      BY <2>1
    <3>2. \A i \in 0 .. SlowSize - 1 : Occupied(i, slowHead, slowTail) => slowQ'[i] = slowQ[i]
      BY <2>3
    <3>3. QED
      BY ONLY SizesAssumption, <1>1, <3>1, <3>2, ContentsPut
  <2>5. Slow!Put
    BY <2>1, <2>2, <2>4 DEF SlowWaiting, Slow!Put
  <2>6. QED
    BY <2>5 DEF Slow!Next
<1>4. QED
  BY <1>2, <1>3

LEMMA SlowStep == ASSUME Inv, [Next]_vars PROVE [Slow!Next]_SlowWaiting
<1> USE SizesAssumption DEF Inv
<1>1. /\ slowHead \in 0 .. SlowSize - 1 /\ slowTail \in 0 .. SlowSize - 1
      /\ slowQ \in [0 .. SlowSize - 1 -> Request \cup {None}]
  BY DEF TypeOK, TypeRings
<1>2. CASE MainAdvance \/ MainLeave
  <2>1. /\ slowQ' = slowQ /\ slowHead' = Succ(slowHead, SlowSize) /\ slowTail' = slowTail
        /\ slowHead # slowTail
    BY <1>2 DEF MainAdvance, MainLeave, HeldInv, SlowEmpty
  <2>2. SlowWaiting # <<>> /\ SlowWaiting' = Tail(SlowWaiting)
    BY <1>1, <2>1, ContentsGet DEF SlowWaiting
  <2>3. Slow!Get
    BY <2>2 DEF Slow!Get
  <2>4. QED
    BY <2>3 DEF Slow!Next
<1>3. CASE IrqTimer
  <2>1. slowHead' = slowHead
    BY <1>3 DEF IrqTimer
  <2>2. CASE UNCHANGED <<slowQ, slowTail>>
    BY <2>1, <2>2, SlowSame
  <2>3. CASE \E kind \in {"armboot", "armjump"} : EnqueueSlow(FromArm(kind))
    BY <2>1, <2>3, EnqueueIsPut, FromArmType DEF ArmKinds
  <2>4. QED
    BY <1>3, <2>2, <2>3 DEF IrqTimer, GeckoReceive, GeckoGiveUp, GeckoComplete
<1>4. CASE IrqProcessIn
  <2>1. inQ[inHead] \in Request
    BY <1>4, OccupiedEnds DEF IrqProcessIn, InEmpty, SlotsInv, TypeOK, TypeRings
  <2>2. slowHead' = slowHead
    BY <1>4 DEF IrqProcessIn
  <2>3. UNCHANGED <<slowQ, slowTail>> \/ EnqueueSlow(inQ[inHead])
    BY <1>4 DEF IrqProcessIn
  <2>4. QED
    BY <2>1, <2>2, <2>3, SlowSame, EnqueueIsPut
<1>5. CASE IrqSdhc
  <2>1. slowHead' = slowHead
    BY <1>5 DEF IrqSdhc
  <2>2. UNCHANGED <<slowQ, slowTail>> \/ EnqueueSlow(FromArm("discover"))
    BY <1>5 DEF IrqSdhc
  <2>3. QED
    BY <2>1, <2>2, SlowSame, EnqueueIsPut, FromArmType DEF ArmKinds
<1>6. CASE ~(MainAdvance \/ MainLeave \/ IrqTimer \/ IrqProcessIn \/ IrqSdhc)
  BY <1>6, Steps, OthersKeepSlow
<1>7. QED
  BY <1>2, <1>3, <1>4, <1>5, <1>6

-----------------------------------------------------------------------------
(* The ring of replies, from ipc_post in either context to ipc_receive. *)

(* irq_kill keeps the contexts apart. *)
LEMMA OnePoster ==
    ASSUME Inv, NEW c \in Contexts, NEW d \in Contexts, InPost(c), InPost(d)
    PROVE  c = d
BY DEF Inv, ControlInv, InPost, Posting, Contexts

(* What is to be posted is a request of the one who asked for it. *)
LEMMA HasReplyStart ==
    ASSUME Inv, HasReply, NEW c \in Contexts, NEW r \in Request, StartPost(c, r)
    PROVE  HasReply'
<1>1. /\ reply \in [Contexts -> Request \cup {None}]
      /\ post \in [Contexts -> {"none", "kill", "room", "read", "poke", "restore"}]
  BY DEF Inv, TypeOK, TypeArm
<1>2. QED
  BY <1>1 DEF StartPost, HasReply, Posting

LEMMA HasReplySame ==
    ASSUME HasReply, UNCHANGED <<post, reply>>
    PROVE  HasReply'
BY DEF HasReply, Posting

LEMMA HasReplyPost ==
    ASSUME Inv, HasReply, NEW c \in Contexts, Post(c)
    PROVE  HasReply'
<1>1. /\ reply \in [Contexts -> Request \cup {None}]
      /\ post \in [Contexts -> {"none", "kill", "room", "read", "poke", "restore"}]
  BY DEF Inv, TypeOK, TypeArm
<1>2. ASSUME NEW d \in Contexts, Posting(d)' PROVE Posting(d) /\ reply'[d] = reply[d]
  BY <1>1, <1>2 DEF Post, PostKill, PostWrite, PostRead, PostPoke, PostRestore, Posting
<1>3. QED
  BY <1>2 DEF HasReply

LEMMA HasReplyStep == ASSUME Inv, HasReply, [Next]_vars PROVE HasReply'
<1>1. CASE ProcessSlow
  BY <1>1, HasReplyStart DEF ProcessSlow, Inv, ControlInv, Contexts
<1>2. CASE ProcessNand
  <2>1. served \in Request
    BY <1>2 DEF ProcessNand, Inv, ControlInv
  <2>2. UNCHANGED posts \/ StartPost("main", served)
    BY <1>2 DEF ProcessNand
  <2>3. QED
    BY <2>1, <2>2, HasReplyStart, HasReplySame DEF posts, Contexts
<1>3. CASE ProcessBoot
  <2>1. served \in Request
    BY <1>3 DEF ProcessBoot, Inv, ControlInv
  <2>2. UNCHANGED posts \/ StartPost("main", served)
    BY <1>3 DEF ProcessBoot
  <2>3. QED
    BY <2>1, <2>2, HasReplyStart, HasReplySame DEF posts, Contexts
<1>4. CASE IrqNand
  <2>1. UNCHANGED posts \/ (nandReq # None /\ StartPost("irq", nandReq))
    BY <1>4 DEF IrqNand
  <2>2. nandReq \in Request \cup {None}
    BY DEF Inv, TypeOK, TypeDevices
  <2>3. QED
    BY <2>1, <2>2, HasReplyStart, HasReplySame DEF posts, Contexts
<1>5. CASE IrqProcessIn
  <2>1. inQ[inHead] \in Request
    BY <1>5, OccupiedEnds, SizesAssumption
       DEF IrqProcessIn, InEmpty, Inv, SlotsInv, TypeOK, TypeRings
  <2>2. UNCHANGED posts \/ StartPost("irq", inQ[inHead])
    BY <1>5 DEF IrqProcessIn
  <2>3. QED
    BY <2>1, <2>2, HasReplyStart, HasReplySame DEF posts, Contexts
<1>6. ASSUME NEW c \in Contexts, Post(c) PROVE HasReply'
  BY <1>6, HasReplyPost
<1>7. CASE MainTake \/ ProcessMute \/ MainFlush \/ MainAdvance \/ MainLeave \/ MainIdle
           \/ MainKill \/ MainRecheck \/ MainWait \/ MainRestore
  BY <1>7, HasReplySame DEF MainTake, ProcessMute, MainFlush, MainAdvance, MainLeave,
     MainIdle, MainKill, MainRecheck, MainWait, MainRestore, posts
<1>8. CASE IrqEnter \/ IrqTimer \/ IrqBell \/ IrqDrained \/ IrqAdvance \/ IrqSdhc
  BY <1>8, HasReplySame DEF IrqEnter, IrqTimer, IrqBell, IrqDrained, IrqAdvance, IrqSdhc, posts
<1>9. CASE NandComplete \/ CardChange \/ Alarm \/ PpcCall \/ PpcShutdown \/ UNCHANGED vars
  BY <1>9, HasReplySame
     DEF NandComplete, CardChange, Alarm, PpcCall, Call, PpcShutdown, vars, armCpu, posts
<1>10. CASE PpcRun
  BY <1>10, HasReplySame DEF PpcRun, PpcInit, PpcWrite, PpcPoke, PpcBell, PpcReceive, PpcAck,
     PpcDiscard, PpcReturn, PpcFlush, armCpu, posts
<1>11. QED
  BY <1>1, <1>2, <1>3, <1>4, <1>5, <1>6, <1>7, <1>8, <1>9, <1>10 DEF Next, Arm, Main, Irq

(* A step that starts no write of a slot and touches neither the ring nor its *)
(* indices.                                                                   *)
OutQuiet ==
    /\ UNCHANGED <<outQ, outTail>>
    /\ armMsg'.tail = armMsg.tail /\ ppcMsg'.head = ppcMsg.head
    /\ \A c \in Contexts : post'[c] \in {"read", "poke"} => post'[c] = post[c]

LEMMA OutQuietKeeps ==
    ASSUME Written, Unpublished, OutQuiet
    PROVE  Written' /\ Unpublished'
BY DEF Written, Unpublished, OutQuiet

LEMMA StartPostIsQuiet ==
    ASSUME Inv, NEW c \in Contexts, NEW r, UNCHANGED posts \/ StartPost(c, r)
    PROVE  \A d \in Contexts : post'[d] \in {"read", "poke"} => post'[d] = post[d]
<1>1. post \in [Contexts -> {"none", "kill", "room", "read", "poke", "restore"}]
  BY DEF Inv, TypeOK, TypeArm
<1>2. QED
  BY <1>1 DEF StartPost, posts

LEMMA QuietSteps ==
    ASSUME Inv,
           \/ Silent \/ MainAdvance \/ MainLeave
           \/ IrqTimer \/ IrqProcessIn \/ IrqAdvance \/ IrqSdhc
           \/ PpcWrite \/ PpcPoke
    PROVE  OutQuiet
<1> DEFINE Keeps == \A c \in Contexts : post'[c] \in {"read", "poke"} => post'[c] = post[c]
<1>1. CASE Silent
  <2>1. UNCHANGED rings
    BY <1>1, SilentKeepsRings
  <2>2. ASSUME NEW c \in Contexts, PostKill(c) \/ PostRestore(c) PROVE Keeps
    <3>1. post \in [Contexts -> {"none", "kill", "room", "read", "poke", "restore"}]
      BY DEF Inv, TypeOK, TypeArm
    <3>2. QED
      BY <2>2, <3>1 DEF PostKill, PostRestore
  <2>3. ASSUME ProcessSlow \/ ProcessNand \/ ProcessBoot \/ IrqNand PROVE Keeps
    <3>1. \E c \in Contexts : \E r : UNCHANGED posts \/ StartPost(c, r)
      BY <2>3 DEF ProcessSlow, ProcessNand, ProcessBoot, IrqNand, Contexts
    <3>2. QED
      BY <3>1, StartPostIsQuiet
  <2>4. ASSUME \/ MainTake \/ ProcessMute \/ MainFlush \/ MainIdle \/ MainKill \/ MainRecheck
               \/ MainWait \/ MainRestore
        PROVE  Keeps
    BY <2>4 DEF MainTake, ProcessMute, MainFlush, MainIdle, MainKill, MainRecheck, MainWait,
       MainRestore, posts
  <2>5. ASSUME IrqEnter \/ IrqBell \/ IrqDrained \/ NandComplete \/ CardChange \/ Alarm
        PROVE  Keeps
    BY <2>5 DEF IrqEnter, IrqBell, IrqDrained, NandComplete, CardChange, Alarm, armCpu, posts
  <2>6. ASSUME \/ PpcCall \/ PpcShutdown \/ PpcInit \/ PpcBell \/ PpcReceive \/ PpcDiscard
               \/ PpcReturn \/ PpcFlush \/ UNCHANGED vars
        PROVE  Keeps
    BY <2>6 DEF PpcCall, Call, PpcShutdown, PpcInit, PpcBell, PpcReceive, PpcDiscard,
       PpcReturn, PpcFlush, vars, armCpu, posts
  <2>7. Keeps
    BY <1>1, <2>2, <2>3, <2>4, <2>5, <2>6 DEF Silent
  <2>8. QED
    BY <2>1, <2>7 DEF OutQuiet, rings
<1>2. CASE MainAdvance \/ MainLeave
  BY <1>2 DEF MainAdvance, MainLeave, posts, OutQuiet
<1>3. CASE IrqTimer \/ IrqSdhc
  BY <1>3 DEF IrqTimer, IrqSdhc, posts, OutQuiet
<1>4. CASE IrqProcessIn
  <2>1. \E r : UNCHANGED posts \/ StartPost("irq", r)
    BY <1>4 DEF IrqProcessIn
  <2>2. Keeps
    BY <2>1, StartPostIsQuiet DEF Contexts
  <2>3. QED
    BY <1>4, <2>2 DEF IrqProcessIn, OutQuiet
<1>5. CASE IrqAdvance
  <2>1. armMsg'.tail = armMsg.tail
    BY <1>5 DEF IrqAdvance, Inv, TypeOK, TypeRings, Message
  <2>2. QED
    BY <1>5, <2>1 DEF IrqAdvance, posts, OutQuiet
<1>6. CASE PpcWrite
  BY <1>6 DEF PpcWrite, armCpu, posts, OutQuiet
<1>7. CASE PpcPoke
  <2>1. ppcMsg'.head = ppcMsg.head
    BY <1>7 DEF PpcPoke, Inv, TypeOK, TypeRings
  <2>2. QED
    BY <1>7, <2>1 DEF PpcPoke, armCpu, posts, OutQuiet
<1>8. QED
  BY <1>1, <1>2, <1>3, <1>4, <1>5, <1>6, <1>7

(* The slot is written; no other context is in ipc_post. *)
LEMMA PostWriteOut ==
    ASSUME Inv, OutInv, NEW c \in Contexts, PostWrite(c)
    PROVE  Written' /\ Unpublished' /\ HasReceived' /\ armMsg.tail = outTail
<1> USE SizesAssumption
<1>1. post[c] = "room" /\ Posting(c) /\ InPost(c)
  BY DEF PostWrite, Posting, InPost
<1>2. \A d \in Contexts : InPost(d) => d = c
  BY <1>1, OnePoster
<1>3. armMsg.tail = outTail
  BY <1>1, <1>2 DEF Inv, RegistersInv, Publishing, InPost
<1>4. /\ post' = [post EXCEPT ![c] = "read"] /\ outQ' = [outQ EXCEPT ![outTail] = reply[c]]
      /\ outTail' = outTail /\ armMsg' = armMsg /\ ppcMsg' = ppcMsg /\ ppc' = ppc
      /\ ~IsFull(ppcMsg.head, outTail, OutSize) /\ reply[c] \in Request
  BY <1>1 DEF PostWrite, ppcCpu, OutInv, HasReply
<1>5. /\ post \in [Contexts -> {"none", "kill", "room", "read", "poke", "restore"}]
      /\ outTail \in 0 .. OutSize - 1
      /\ outQ \in [0 .. OutSize - 1 -> Request \cup {None}]
  BY DEF Inv, TypeOK, TypeArm, TypeRings
<1>6. ASSUME NEW d \in Contexts, post'[d] \in {"read", "poke"} PROVE d = c /\ post'[d] = "read"
  BY <1>1, <1>2, <1>4, <1>5, <1>6 DEF InPost
<1>7. outQ'[outTail'] \in Request
  BY <1>4, <1>5
<1>8. Written'
  BY <1>3, <1>4, <1>6, <1>7 DEF Written
<1>9. Unpublished'
  BY <1>6 DEF Unpublished
<1>10. QED
  BY <1>3, <1>4, <1>8, <1>9 DEF OutInv, HasReceived

(* out_tail is one further than what is published. *)
LEMMA PostReadOut ==
    ASSUME Inv, OutInv, NEW c \in Contexts, PostRead(c)
    PROVE  Written' /\ Unpublished' /\ HasReceived'
<1>1. post[c] = "read" /\ InPost(c)
  BY DEF PostRead, InPost
<1>2. \A d \in Contexts : InPost(d) => d = c
  BY <1>1, OnePoster
<1>3. /\ post' = [post EXCEPT ![c] = "poke"] /\ outTail' = Succ(outTail, OutSize)
      /\ outQ' = outQ /\ armMsg' = armMsg /\ ppcMsg' = ppcMsg /\ ppc' = ppc
  BY DEF PostRead, ppcCpu
<1>4. post \in [Contexts -> {"none", "kill", "room", "read", "poke", "restore"}]
  BY DEF Inv, TypeOK, TypeArm
<1>5. ASSUME NEW d \in Contexts, post'[d] \in {"read", "poke"} PROVE d = c /\ post'[d] = "poke"
  BY <1>1, <1>2, <1>3, <1>4, <1>5 DEF InPost
<1>6. Written'
  BY <1>5 DEF Written
<1>7. /\ armMsg.tail = outTail /\ ~IsFull(ppcMsg.head, outTail, OutSize)
      /\ outQ[outTail] \in Request
  BY <1>1 DEF OutInv, Written
<1>8. Unpublished'
  BY <1>3, <1>7 DEF Unpublished
<1>9. QED
  BY <1>3, <1>6, <1>8 DEF OutInv, HasReceived

(* The reply is published: it is one more than the ring held. *)
LEMMA PostPokeOut ==
    ASSUME Inv, OutInv, NEW c \in Contexts, PostPoke(c)
    PROVE  /\ Written' /\ Unpublished' /\ HasReceived'
           /\ armMsg'.tail = Succ(armMsg.tail, OutSize)
           /\ ~IsFull(ppcMsg.head, armMsg.tail, OutSize)
           /\ outQ[armMsg.tail] \in Request
<1>1. post[c] = "poke" /\ InPost(c)
  BY DEF PostPoke, InPost
<1>2. \A d \in Contexts : InPost(d) => d = c
  BY <1>1, OnePoster
<1>3. /\ post' = [post EXCEPT ![c] = "restore"] /\ armMsg'.tail = outTail
      /\ ppcMsg' = ppcMsg /\ ppc' = ppc
  BY DEF PostPoke, ppcCpu
<1>4. post \in [Contexts -> {"none", "kill", "room", "read", "poke", "restore"}]
  BY DEF Inv, TypeOK, TypeArm
<1>5. ASSUME NEW d \in Contexts PROVE post'[d] \notin {"read", "poke"}
  BY <1>1, <1>2, <1>3, <1>4 DEF InPost
<1>6. /\ outTail = Succ(armMsg.tail, OutSize) /\ ~IsFull(ppcMsg.head, armMsg.tail, OutSize)
      /\ outQ[armMsg.tail] \in Request
  BY <1>1 DEF OutInv, Unpublished
<1>7. Written' /\ Unpublished'
  BY <1>5 DEF Written, Unpublished
<1>8. HasReceived'
  BY <1>3, <1>6 DEF HasReceived, IsFull
<1>9. QED
  BY <1>3, <1>6, <1>7, <1>8

(* ipc_receive moves its head past a reply: that only makes room. *)
LEMMA PpcAckOut ==
    ASSUME Inv, OutInv, PpcAck
    PROVE  /\ Written' /\ Unpublished' /\ HasReceived'
           /\ ppcMsg.head # armMsg.tail
           /\ ppcMsg'.head = Succ(ppcMsg.head, OutSize)
<1> USE SizesAssumption
<1>1. /\ ppc = "ack" /\ ppc' = "match" /\ outHead = ppcMsg.head
      /\ ppcMsg' = [ppcMsg EXCEPT !.head = Succ(outHead, OutSize)]
      /\ UNCHANGED <<outQ, outTail, armMsg, post>>
  BY DEF PpcAck, PpcAt, Inv, PpcInv, armCpu, posts
<1>2. /\ ppcMsg \in [head : 0 .. OutSize - 1, tail : 0 .. InSize - 1]
      /\ armMsg.tail \in 0 .. OutSize - 1
  BY DEF Inv, TypeOK, TypeRings, Message
<1>3. ppcMsg'.head = Succ(ppcMsg.head, OutSize) /\ ppcMsg.head # armMsg.tail
  BY <1>1, <1>2 DEF OutInv, HasReceived
<1>4. ~IsFull(ppcMsg'.head, armMsg.tail, OutSize)
  BY <1>2, <1>3, GetKeepsRoom
<1>5. Written'
  BY <1>1, <1>4 DEF OutInv, Written
<1>6. Unpublished'
  BY <1>1, <1>4 DEF OutInv, Unpublished
<1>7. QED
  BY <1>1, <1>3, <1>5, <1>6 DEF HasReceived

(* Only ipc_receive looks at a reply, and only at one that is published. *)
LEMMA QuietReceives ==
    ASSUME Inv, HasReceived, OutQuiet,
           \/ Silent \/ MainAdvance \/ MainLeave
           \/ IrqTimer \/ IrqProcessIn \/ IrqAdvance \/ IrqSdhc
           \/ PpcWrite \/ PpcPoke
    PROVE  HasReceived'
<1>1. CASE PpcReceive
  BY <1>1 DEF PpcReceive, PpcAt, Inv, PpcInv, OutQuiet, HasReceived
<1>2. ASSUME ppc' = "ack" => ppc = "ack" PROVE HasReceived'
  BY <1>2 DEF OutQuiet, HasReceived
<1>3. CASE ProcessBoot
  BY <1>2, <1>3 DEF ProcessBoot, PowerpcBoot, PowerpcHang, ppcCpu
<1>4. CASE IrqTimer
  BY <1>2, <1>4 DEF IrqTimer, GeckoReceive, GeckoGiveUp, GeckoComplete, PowerpcHang, ppcCpu
<1>5. CASE MainTake \/ ProcessSlow \/ ProcessMute \/ ProcessNand \/ MainFlush
           \/ MainIdle \/ MainKill \/ MainRecheck \/ MainWait \/ MainRestore
           \/ MainAdvance \/ MainLeave
  BY <1>2, <1>5 DEF MainTake, ProcessSlow, ProcessMute, ProcessNand, MainFlush, MainIdle,
     MainKill, MainRecheck, MainWait, MainRestore, MainAdvance, MainLeave, ppcCpu
<1>6. CASE IrqEnter \/ IrqNand \/ IrqBell \/ IrqDrained \/ IrqProcessIn \/ IrqAdvance \/ IrqSdhc
           \/ NandComplete \/ CardChange \/ Alarm
  BY <1>2, <1>6 DEF IrqEnter, IrqNand, IrqBell, IrqDrained, IrqProcessIn, IrqAdvance, IrqSdhc,
     NandComplete, CardChange, Alarm, ppcCpu
<1>7. CASE \/ PpcCall \/ PpcShutdown \/ PpcInit \/ PpcBell \/ PpcDiscard \/ PpcReturn
           \/ PpcFlush \/ PpcWrite \/ PpcPoke
  BY <1>2, <1>7 DEF PpcCall, Call, PpcShutdown, PpcInit, PpcBell, PpcDiscard, PpcReturn,
     PpcFlush, PpcWrite, PpcPoke
<1>8. ASSUME NEW c \in Contexts, PostKill(c) \/ PostRestore(c) PROVE HasReceived'
  BY <1>2, <1>8 DEF PostKill, PostRestore, ppcCpu
<1>9. CASE UNCHANGED vars
  BY <1>2, <1>9 DEF vars, ppcCpu
<1>10. QED
  BY <1>1, <1>3, <1>4, <1>5, <1>6, <1>7, <1>8, <1>9 DEF Silent

LEMMA OutInit == Init => OutInv
BY DEF Init, OutInv, HasReply, Written, Unpublished, HasReceived, Posting

LEMMA OutKept == ASSUME Inv, OutInv, [Next]_vars PROVE OutInv'
<1>1. HasReply'
  BY HasReplyStep DEF OutInv
<1>2. ASSUME NEW c \in Contexts, PostWrite(c) \/ PostRead(c) \/ PostPoke(c)
      PROVE  Written' /\ Unpublished' /\ HasReceived'
  BY <1>2, PostWriteOut, PostReadOut, PostPokeOut
<1>3. CASE PpcAck
  BY <1>1, <1>3, PpcAckOut DEF OutInv
<1>4. CASE \/ Silent \/ MainAdvance \/ MainLeave
           \/ IrqTimer \/ IrqProcessIn \/ IrqAdvance \/ IrqSdhc
           \/ PpcWrite \/ PpcPoke
  <2>1. OutQuiet
    BY <1>4, QuietSteps
  <2>2. QED
    BY <1>1, <1>4, <2>1, OutQuietKeeps, QuietReceives DEF OutInv
<1>5. QED
  BY <1>1, <1>2, <1>3, <1>4, Steps DEF OutInv

LEMMA OutStep == ASSUME Inv, OutInv, [Next]_vars PROVE [Out!Next]_OutFlight
<1> USE SizesAssumption
<1>1. /\ ppcMsg.head \in 0 .. OutSize - 1 /\ armMsg.tail \in 0 .. OutSize - 1
      /\ outQ \in [0 .. OutSize - 1 -> Request \cup {None}]
  BY DEF Inv, TypeOK, TypeRings, Message
<1>2. ASSUME NEW c \in Contexts, PostWrite(c) PROVE OutFlight' = OutFlight
  <2>1. /\ outQ' = [outQ EXCEPT ![armMsg.tail] = reply[c]]
        /\ armMsg' = armMsg /\ ppcMsg' = ppcMsg
    BY <1>2, PostWriteOut DEF PostWrite
  <2>2. ASSUME NEW i \in 0 .. OutSize - 1, Occupied(i, ppcMsg.head, armMsg.tail)
        PROVE  outQ'[i] = outQ[i]
    BY <1>1, <2>1, <2>2, OccupiedEnds
  <2>3. Contents(outQ', ppcMsg.head, armMsg.tail, OutSize)
          = Contents(outQ, ppcMsg.head, armMsg.tail, OutSize)
    BY ONLY ZenonT(40), SizesAssumption, <1>1, <2>2, ContentsOfOccupied
  <2>4. QED
    BY <2>1, <2>3 DEF OutFlight
<1>3. ASSUME NEW c \in Contexts, PostPoke(c) PROVE Out!Next
  <2>1. /\ outQ' = outQ /\ ppcMsg' = ppcMsg
        /\ armMsg'.tail = Succ(armMsg.tail, OutSize)
        /\ outQ[armMsg.tail] \in Request /\ ~IsFull(ppcMsg.head, armMsg.tail, OutSize)
    BY <1>3, PostPokeOut DEF PostPoke
  <2>2. /\ OutFlight' = Append(OutFlight, outQ[armMsg.tail])
        /\ Len(OutFlight) < OutSize - 1 /\ Len(OutFlight') = Len(OutFlight) + 1
    BY <1>1, <2>1, ContentsPut DEF OutFlight
  <2>3. Out!Put
    BY <2>1, <2>2 DEF Out!Put
  <2>4. QED
    BY <2>3 DEF Out!Next
<1>4. CASE PpcAck
  <2>1. /\ outQ' = outQ /\ armMsg' = armMsg
        /\ ppcMsg'.head = Succ(ppcMsg.head, OutSize) /\ ppcMsg.head # armMsg.tail
    BY <1>4, PpcAckOut DEF PpcAck
  <2>2. OutFlight # <<>> /\ OutFlight' = Tail(OutFlight)
    BY <1>1, <2>1, ContentsGet DEF OutFlight
  <2>3. Out!Get
    BY <2>2 DEF Out!Get
  <2>4. QED
    BY <2>3 DEF Out!Next
<1>5. ASSUME NEW c \in Contexts, PostRead(c) PROVE OutFlight' = OutFlight
  BY <1>5 DEF PostRead, OutFlight
<1>6. CASE \/ Silent \/ MainAdvance \/ MainLeave
           \/ IrqTimer \/ IrqProcessIn \/ IrqAdvance \/ IrqSdhc
           \/ PpcWrite \/ PpcPoke
  <2>1. OutQuiet
    BY <1>6, QuietSteps
  <2>2. QED
    BY <2>1 DEF OutQuiet, OutFlight
<1>7. QED
  BY <1>2, <1>3, <1>4, <1>5, <1>6, Steps

-----------------------------------------------------------------------------
(* All rings start empty. *)
LEMMA EmptyRings ==
    ASSUME Init
    PROVE  In!Init /\ Out!Init /\ Slow!Init
<1>1. ASSUME NEW slots, NEW n \in Nat PROVE Contents(slots, 0, 0, n) = <<>>
  BY DEF Contents, Used
<1>2. InFlight = <<>> /\ OutFlight = <<>> /\ SlowWaiting = <<>>
  BY <1>1, SizesAssumption DEF Init, InFlight, OutFlight, SlowWaiting
<1>3. QED
  BY <1>2 DEF In!Init, Out!Init, Slow!Init

(***************************************************************************)
(* The ring of requests is a bounded FIFO: nothing is lost, repeated or    *)
(* overwritten while it waits (ipc_vpost against process_in).              *)
(***************************************************************************)
THEOREM InRingIsFifo == Spec => InIsFifo
<1>1. Init => In!Init
  BY EmptyRings
<1>2. Inv /\ [Next]_vars => [In!Next]_InFlight
  BY InStep
<1>3. QED
  BY <1>1, <1>2, Invariant, PTL DEF Spec, InIsFifo, In!Spec

(***************************************************************************)
(* So is the slow queue, between the interrupt handler and the main loop.  *)
(***************************************************************************)
THEOREM SlowRingIsFifo == Spec => SlowIsFifo
<1>1. Init => Slow!Init
  BY EmptyRings
<1>2. Inv /\ [Next]_vars => [Slow!Next]_SlowWaiting
  BY SlowStep
<1>3. QED
  BY <1>1, <1>2, Invariant, PTL DEF Spec, SlowIsFifo, Slow!Spec

(***************************************************************************)
(* And the ring of replies, which the main loop and the handler fill       *)
(* (ipc_post) and ipc_receive empties.                                     *)
(***************************************************************************)
THEOREM OutRingIsFifo == Spec => OutIsFifo
<1>1. Init => Out!Init /\ OutInv
  BY EmptyRings, OutInit
<1>2. Inv /\ OutInv /\ [Next]_vars => [Out!Next]_OutFlight
  BY OutStep
<1>3. Inv /\ OutInv /\ [Next]_vars => OutInv'
  BY OutKept
<1>4. QED
  BY <1>1, <1>2, <1>3, Invariant, PTL DEF Spec, OutIsFifo, Out!Spec

(***************************************************************************)
(* Whatever the contexts and processors do, and however often the PowerPC  *)
(* is stopped and started, each ring stays the queue that BoundedFifo is.  *)
(***************************************************************************)
THEOREM RingsAreFifosCorrect == Spec => RingsAreFifos
<1>1. QED
  BY InRingIsFifo, OutRingIsFifo, SlowRingIsFifo DEF RingsAreFifos

-----------------------------------------------------------------------------
(***************************************************************************)
(* What becomes of messages, for rings of every size.  No request is       *)
(* executed twice; a reply goes to its request; the PowerPC has the reply  *)
(* before the ARM leaves; and requests are done in the order of sending.   *)
(***************************************************************************)

(* A request is executed once. *)

(***************************************************************************)
(* The places of a request that is still to be executed: with the PowerPC, *)
(* which has not published it; in the ring of requests, unless the handler *)
(* is done with it; in the slow queue, unless the main loop is.            *)
(***************************************************************************)
PpcHas == ppc \in {"room", "poke"}

InHas(i) == Occupied(i, inHead, ppcMsg.tail) /\ ~(irq = "advance" /\ i = inHead)

SlowHas(i) ==
    Occupied(i, slowHead, slowTail) /\ ~(main \in {"advance", "flush", "leave"} /\ i = slowHead)

(* No id is in two of these places, or in one of them and executed.  The *)
(* ARM's own requests have id 0.                                         *)
IdsPpc ==
    PpcHas =>
        /\ request.id \in 1 .. nextId - 1
        /\ \A k \in DOMAIN done : done[k] # request.id
        /\ \A i \in 0 .. InSize - 1 : InHas(i) => inQ[i].id # request.id
        /\ \A j \in 0 .. SlowSize - 1 : SlowHas(j) => slowQ[j].id # request.id

IdsIn ==
    \A i \in 0 .. InSize - 1 : InHas(i) =>
        /\ inQ[i].id \in 1 .. nextId - 1
        /\ \A k \in DOMAIN done : done[k] # inQ[i].id
        /\ \A i2 \in 0 .. InSize - 1 : InHas(i2) /\ i2 # i => inQ[i2].id # inQ[i].id
        /\ \A j \in 0 .. SlowSize - 1 : SlowHas(j) => slowQ[j].id # inQ[i].id

IdsSlow ==
    \A j \in 0 .. SlowSize - 1 : SlowHas(j) =>
        /\ slowQ[j].id \in 0 .. nextId - 1
        /\ slowQ[j].id # 0 =>
              /\ \A k \in DOMAIN done : done[k] # slowQ[j].id
              /\ \A j2 \in 0 .. SlowSize - 1 : SlowHas(j2) /\ j2 # j => slowQ[j2].id # slowQ[j].id

IdsDone == \A k \in DOMAIN done : done[k] < nextId

ServedIsFirst == main = "process" => served = slowQ[slowHead]

IdsInv == IdsPpc /\ IdsIn /\ IdsSlow /\ IdsDone /\ ServedIsFirst /\ ExecutedOnce

-----------------------------------------------------------------------------
(* The ARM's id is below every next one. *)
LEMMA ZeroBelow == ASSUME NEW n \in Nat, n >= 1 PROVE 0 \in 0 .. n - 1
OBVIOUS

(* Steps after which there is no more to execute than before, but for the *)
(* ARM's own.                                                              *)
LEMMA Fewer ==
    ASSUME IdsInv, done' = done, nextId \in Nat, nextId >= 1, nextId' \in Nat, nextId' >= nextId,
           PpcHas' => PpcHas /\ request' = request,
           \A i \in 0 .. InSize - 1 : InHas(i)' => InHas(i) /\ inQ'[i] = inQ[i],
           \A j \in 0 .. SlowSize - 1 : SlowHas(j)' =>
              (SlowHas(j) /\ slowQ'[j] = slowQ[j]) \/ slowQ'[j].id = 0,
           \A k \in DOMAIN done : done[k] \in Nat,
           ServedIsFirst'
    PROVE  IdsInv'
<1> USE DEF IdsInv
<1>1. IdsPpc'
  BY DEF IdsPpc
<1>2. IdsIn'
  BY DEF IdsPpc, IdsIn
<1>3. ASSUME NEW j \in 0 .. SlowSize - 1, SlowHas(j)'
      PROVE  /\ slowQ'[j].id \in 0 .. nextId' - 1
             /\ slowQ'[j].id # 0 =>
                   /\ \A k \in DOMAIN done' : done'[k] # slowQ'[j].id
                   /\ \A j2 \in 0 .. SlowSize - 1 :
                         SlowHas(j2)' /\ j2 # j => slowQ'[j2].id # slowQ'[j].id
  <2>1. CASE slowQ'[j].id = 0
    <3>1. nextId' >= 1
      OBVIOUS
    <3>2. QED
      BY <2>1, <3>1, ZeroBelow
  <2>2. CASE slowQ'[j].id # 0
    <3>1. SlowHas(j) /\ slowQ'[j] = slowQ[j]
      BY <1>3, <2>2
    <3>2. /\ slowQ[j].id \in 0 .. nextId - 1
          /\ \A k \in DOMAIN done : done[k] # slowQ[j].id
          /\ \A j2 \in 0 .. SlowSize - 1 : SlowHas(j2) /\ j2 # j => slowQ[j2].id # slowQ[j].id
      BY <2>2, <3>1 DEF IdsSlow
    <3>3. ASSUME NEW j2 \in 0 .. SlowSize - 1, SlowHas(j2)', j2 # j
          PROVE  slowQ'[j2].id # slowQ'[j].id
      <4>1. (SlowHas(j2) /\ slowQ'[j2] = slowQ[j2]) \/ slowQ'[j2].id = 0
        BY <3>3
      <4>2. SlowHas(j2) => slowQ[j2].id # slowQ[j].id
        BY <3>2, <3>3
      <4>3. slowQ'[j].id = slowQ[j].id
        BY <3>1
      <4>4. QED
        BY <2>2, <4>1, <4>2, <4>3
    <3>4. QED
      BY <3>1, <3>2, <3>3
  <2>3. QED
    BY <2>1, <2>2
<1>4. IdsDone'
  BY DEF IdsDone
<1>5. ExecutedOnce'
  BY DEF ExecutedOnce
<1>6. QED
  BY <1>1, <1>2, <1>3, <1>4, <1>5 DEF IdsSlow

(* A request leaves its place and is executed. *)
LEMMA OneExecuted ==
    ASSUME IdsInv, NEW id \in Nat, done \in Seq(Nat), done' = Append(done, id),
           nextId \in Nat, nextId' = nextId, id < nextId,
           id # 0 => \A k \in DOMAIN done : done[k] # id,
           PpcHas' => PpcHas /\ request' = request /\ request.id # id,
           \A i \in 0 .. InSize - 1 : InHas(i)' => InHas(i) /\ inQ'[i] = inQ[i] /\ inQ[i].id # id,
           \A j \in 0 .. SlowSize - 1 : SlowHas(j)' =>
              /\ SlowHas(j) /\ slowQ'[j] = slowQ[j]
              /\ id # 0 => slowQ[j].id # id,
           ServedIsFirst'
    PROVE  IdsInv'
<1> USE DEF IdsInv
<1>1. /\ DOMAIN done = 1 .. Len(done) /\ DOMAIN done' = 1 .. Len(done) + 1 /\ Len(done) \in Nat
      /\ \A k \in 1 .. Len(done) : done'[k] = done[k] /\ done[k] \in Nat
      /\ done'[Len(done) + 1] = id
  OBVIOUS
<1>2. \A k \in DOMAIN done' : (k \in DOMAIN done /\ done'[k] = done[k]) \/ done'[k] = id
  BY <1>1
<1>3. IdsPpc'
  BY <1>2 DEF IdsPpc
<1>4. ASSUME NEW i \in 0 .. InSize - 1, InHas(i)'
      PROVE  /\ inQ'[i].id \in 1 .. nextId' - 1
             /\ \A k \in DOMAIN done' : done'[k] # inQ'[i].id
             /\ \A i2 \in 0 .. InSize - 1 : InHas(i2)' /\ i2 # i => inQ'[i2].id # inQ'[i].id
             /\ \A j \in 0 .. SlowSize - 1 : SlowHas(j)' => slowQ'[j].id # inQ'[i].id
  <2>1. InHas(i) /\ inQ'[i] = inQ[i] /\ inQ[i].id # id
    BY <1>4
  <2>2. /\ inQ[i].id \in 1 .. nextId - 1
        /\ \A k \in DOMAIN done : done[k] # inQ[i].id
        /\ \A i2 \in 0 .. InSize - 1 : InHas(i2) /\ i2 # i => inQ[i2].id # inQ[i].id
        /\ \A j \in 0 .. SlowSize - 1 : SlowHas(j) => slowQ[j].id # inQ[i].id
    BY <2>1 DEF IdsIn
  <2>3. \A k \in DOMAIN done' : done'[k] # inQ'[i].id
    BY <1>2, <2>1, <2>2
  <2>4. ASSUME NEW i2 \in 0 .. InSize - 1, InHas(i2)', i2 # i PROVE inQ'[i2].id # inQ'[i].id
    BY <2>1, <2>2, <2>4
  <2>5. ASSUME NEW j \in 0 .. SlowSize - 1, SlowHas(j)' PROVE slowQ'[j].id # inQ'[i].id
    BY <2>1, <2>2, <2>5
  <2>6. QED
    BY <2>1, <2>2, <2>3, <2>4, <2>5
<1>5. ASSUME NEW j \in 0 .. SlowSize - 1, SlowHas(j)'
      PROVE  /\ slowQ'[j].id \in 0 .. nextId' - 1
             /\ slowQ'[j].id # 0 =>
                   /\ \A k \in DOMAIN done' : done'[k] # slowQ'[j].id
                   /\ \A j2 \in 0 .. SlowSize - 1 :
                         SlowHas(j2)' /\ j2 # j => slowQ'[j2].id # slowQ'[j].id
  <2>1. /\ SlowHas(j) /\ slowQ'[j] = slowQ[j]
        /\ id # 0 => slowQ[j].id # id
    BY <1>5
  <2>2. /\ slowQ[j].id \in 0 .. nextId - 1
        /\ slowQ[j].id # 0 =>
              /\ \A k \in DOMAIN done : done[k] # slowQ[j].id
              /\ \A j2 \in 0 .. SlowSize - 1 : SlowHas(j2) /\ j2 # j => slowQ[j2].id # slowQ[j].id
    BY <2>1 DEF IdsSlow
  <2>3. slowQ[j].id # 0 => \A k \in DOMAIN done' : done'[k] # slowQ'[j].id
    BY <1>2, <2>1, <2>2
  <2>4. ASSUME slowQ[j].id # 0, NEW j2 \in 0 .. SlowSize - 1, SlowHas(j2)', j2 # j
        PROVE  slowQ'[j2].id # slowQ'[j].id
    BY <2>1, <2>2, <2>4
  <2>5. QED
    BY <2>1, <2>2, <2>3, <2>4
<1>6. IdsDone'
  BY <1>2 DEF IdsDone
<1>7. ExecutedOnce'
  BY <1>1 DEF ExecutedOnce
<1>8. QED
  BY <1>3, <1>4, <1>5, <1>6, <1>7 DEF IdsIn, IdsSlow

(* What Fewer and OneExecuted need of the types. *)
LEMMA IdTypes ==
    ASSUME Inv
    PROVE  /\ nextId \in Nat /\ nextId >= 1 /\ done \in Seq(Nat) /\ \A k \in DOMAIN done : done[k] \in Nat
           /\ inHead \in 0 .. InSize - 1 /\ ppcMsg.tail \in 0 .. InSize - 1
           /\ slowHead \in 0 .. SlowSize - 1 /\ slowTail \in 0 .. SlowSize - 1
           /\ InSize \in Nat /\ InSize > 1 /\ SlowSize \in Nat /\ SlowSize > 1
           /\ inQ \in [0 .. InSize - 1 -> Request \cup {None}]
           /\ slowQ \in [0 .. SlowSize - 1 -> Request \cup {None}]
           /\ inTail \in 0 .. InSize - 1
<1>1. done \in Seq(0 .. MaxRequests) /\ MaxRequests \in Nat
  BY BoundsAssumption DEF Inv, TypeOK, TypePpc
<1>2. done \in Seq(Nat) /\ \A k \in DOMAIN done : done[k] \in Nat
  BY <1>1
<1>3. nextId \in Nat /\ nextId >= 1 /\ inTail \in 0 .. InSize - 1
  BY BoundsAssumption DEF Inv, TypeOK, TypePpc
<1>4. QED
  BY <1>2, <1>3, SizesAssumption DEF Inv, TypeOK, TypeRings

LEMMA IdsInit == Init => IdsInv
BY SizesAssumption DEF Init, IdsInv, IdsPpc, IdsIn, IdsSlow, IdsDone, ServedIsFirst, ExecutedOnce,
   PpcHas, InHas, SlowHas, Occupied

(* The steps that neither move a request nor execute one. *)
Waits ==
    \/ \E c \in Contexts : Post(c)
    \/ MainTake \/ MainFlush \/ MainIdle \/ MainKill \/ MainRecheck \/ MainWait \/ MainRestore
    \/ IrqEnter \/ IrqNand \/ IrqBell \/ IrqDrained
    \/ NandComplete \/ CardChange \/ Alarm
    \/ PpcShutdown \/ PpcInit \/ PpcBell \/ PpcReceive \/ PpcAck \/ PpcDiscard \/ PpcReturn
    \/ PpcFlush
    \/ UNCHANGED vars

(* What Waits leaves alone. *)
Waiting ==
    /\ UNCHANGED <<inQ, slowQ, inHead, slowHead, slowTail, done, nextId>>
    /\ ppcMsg'.tail = ppcMsg.tail
    /\ irq' = "advance" <=> irq = "advance"
    /\ main \in {"advance", "flush", "leave"} => main' \in {"advance", "flush", "leave"}
    /\ PpcHas' => PpcHas /\ request' = request
    /\ ServedIsFirst'

LEMMA WaitsWaiting == ASSUME Inv, IdsInv, Waits PROVE Waiting
<1>1. ASSUME NEW c \in Contexts, Post(c) PROVE Waiting
  BY <1>1 DEF Post, PostKill, PostWrite, PostRead, PostPoke, PostRestore, Waiting, rings, ppcCpu,
     PpcHas, IdsInv, ServedIsFirst
<1>2. CASE MainTake \/ MainFlush \/ MainIdle \/ MainKill
  BY <1>2 DEF MainTake, MainFlush, MainIdle, MainKill, Waiting, rings, ppcCpu, PpcHas,
     IdsInv, ServedIsFirst
<1>3. CASE MainRecheck \/ MainWait \/ MainRestore
  BY <1>3 DEF MainRecheck, MainWait, MainRestore, Waiting, rings, ppcCpu, PpcHas, IdsInv,
     ServedIsFirst
<1>4. CASE IrqEnter \/ IrqNand \/ IrqBell \/ IrqDrained
  BY <1>4 DEF IrqEnter, Runs, IrqNand, IrqBell, IrqDrained, Waiting, rings, ppcCpu, PpcHas,
     IdsInv, ServedIsFirst
<1>5. CASE NandComplete \/ CardChange \/ Alarm
  BY <1>5 DEF NandComplete, CardChange, Alarm, Waiting, rings, armCpu, ppcCpu, PpcHas,
     IdsInv, ServedIsFirst
<1>6. CASE PpcShutdown \/ PpcInit \/ PpcBell \/ PpcReceive
  BY <1>6 DEF PpcShutdown, PpcInit, PpcBell, PpcReceive, PpcAt, Waiting, rings, armCpu, PpcHas,
     IdsInv, ServedIsFirst
<1>7. CASE PpcDiscard \/ PpcReturn \/ PpcFlush
  BY <1>7 DEF PpcDiscard, PpcReturn, PpcFlush, PpcAt, Waiting, rings, armCpu, PpcHas,
     IdsInv, ServedIsFirst
<1>8. CASE PpcAck
  <2>1. ppcMsg'.tail = ppcMsg.tail
    BY <1>8 DEF PpcAck, Inv, TypeOK, TypeRings
  <2>2. QED
    BY <1>8, <2>1 DEF PpcAck, PpcAt, Waiting, armCpu, PpcHas, IdsInv, ServedIsFirst
<1>9. CASE UNCHANGED vars
  BY <1>9 DEF vars, Waiting, rings, armCpu, ppcCpu, PpcHas, IdsInv, ServedIsFirst
<1>10. QED
  BY <1>1, <1>2, <1>3, <1>4, <1>5, <1>6, <1>7, <1>8, <1>9 DEF Waits

LEMMA WaitsKeepsIds == ASSUME Inv, IdsInv, Waits PROVE IdsInv'
<1>1. Waiting
  BY WaitsWaiting
<1>2. \A i \in 0 .. InSize - 1 : InHas(i)' => InHas(i) /\ inQ'[i] = inQ[i]
  BY <1>1 DEF Waiting, InHas
<1>3. \A j \in 0 .. SlowSize - 1 : SlowHas(j)' => SlowHas(j) /\ slowQ'[j] = slowQ[j]
  BY <1>1 DEF Waiting, SlowHas
<1>4. /\ done' = done /\ nextId' = nextId /\ ServedIsFirst'
      /\ PpcHas' => PpcHas /\ request' = request
  BY <1>1 DEF Waiting
<1>5. QED
  BY <1>2, <1>3, <1>4, Fewer, IdTypes

(* A head moves past a request that was executed, or given to the slow queue. *)
LEMMA AdvanceKeepsIds ==
    ASSUME Inv, IdsInv, MainAdvance \/ MainLeave \/ IrqAdvance
    PROVE  IdsInv'
<1>1. CASE MainAdvance \/ MainLeave
  <2>1. /\ slowHead' = Succ(slowHead, SlowSize) /\ slowHead # slowTail
        /\ main \in {"advance", "leave"} /\ main' \notin {"process", "advance", "flush", "leave"}
        /\ UNCHANGED <<inQ, slowQ, inHead, ppcMsg, slowTail, irq, done, nextId, ppc, request>>
    BY <1>1 DEF MainAdvance, MainLeave, ppcCpu, Inv, HeldInv, SlowEmpty
  <2>2. ASSUME NEW j \in 0 .. SlowSize - 1, SlowHas(j)' PROVE SlowHas(j) /\ slowQ'[j] = slowQ[j]
    <3>1. Occupied(j, Succ(slowHead, SlowSize), slowTail)
      BY <2>1, <2>2 DEF SlowHas
    <3>2. Occupied(j, slowHead, slowTail) /\ j # slowHead
      BY <2>1, <3>1, OccupiedGet, IdTypes
    <3>3. QED
      BY <2>1, <3>2 DEF SlowHas
  <2>3. \A i \in 0 .. InSize - 1 : InHas(i)' => InHas(i) /\ inQ'[i] = inQ[i]
    BY <2>1 DEF InHas
  <2>4. ServedIsFirst' /\ (PpcHas' => PpcHas /\ request' = request)
    BY <2>1 DEF ServedIsFirst, PpcHas
  <2>5. QED
    BY <2>1, <2>2, <2>3, <2>4, Fewer, IdTypes
<1>2. CASE IrqAdvance
  <2>1. /\ inHead' = Succ(inHead, InSize) /\ inHead # ppcMsg.tail
        /\ irq = "advance" /\ irq' # "advance"
        /\ UNCHANGED <<inQ, slowQ, ppcMsg, slowHead, slowTail, main, served, done, nextId, ppc,
                       request>>
    BY <1>2 DEF IrqAdvance, ppcCpu, Inv, HeldInv, InEmpty
  <2>2. ASSUME NEW i \in 0 .. InSize - 1, InHas(i)' PROVE InHas(i) /\ inQ'[i] = inQ[i]
    <3>1. Occupied(i, Succ(inHead, InSize), ppcMsg.tail)
      BY <2>1, <2>2 DEF InHas
    <3>2. Occupied(i, inHead, ppcMsg.tail) /\ i # inHead
      BY SMTT(20), <2>1, <3>1, OccupiedGet, IdTypes
    <3>3. QED
      BY <2>1, <3>2 DEF InHas
  <2>3. \A j \in 0 .. SlowSize - 1 : SlowHas(j)' => SlowHas(j) /\ slowQ'[j] = slowQ[j]
    BY <2>1 DEF SlowHas
  <2>4. ServedIsFirst' /\ (PpcHas' => PpcHas /\ request' = request)
    BY <2>1 DEF IdsInv, ServedIsFirst, PpcHas
  <2>5. QED
    BY <2>1, <2>2, <2>3, <2>4, Fewer, IdTypes
<1>3. QED
  BY <1>1, <1>2

(* A request is made, with an id of its own. *)
LEMMA CallKeepsIds == ASSUME Inv, IdsInv, PpcCall PROVE IdsInv'
<1>1. /\ request'.id = nextId /\ nextId' = nextId + 1 /\ ~PpcHas
      /\ UNCHANGED <<rings, main, served, irq, done>>
  BY DEF PpcCall, Call, PpcAt, PpcHas, armCpu
<1>2. /\ \A i \in 0 .. InSize - 1 : InHas(i)' => InHas(i) /\ inQ'[i] = inQ[i]
      /\ \A j \in 0 .. SlowSize - 1 : SlowHas(j)' => SlowHas(j) /\ slowQ'[j] = slowQ[j]
  BY <1>1 DEF InHas, SlowHas, rings
<1>3. nextId \in Nat /\ nextId >= 1
  BY IdTypes
<1>4. /\ \A k \in DOMAIN done : done[k] # nextId
      /\ \A i \in 0 .. InSize - 1 : InHas(i) => inQ[i].id # nextId
      /\ \A j \in 0 .. SlowSize - 1 : SlowHas(j) => slowQ[j].id # nextId
  BY <1>3 DEF IdsInv, IdsDone, IdsIn, IdsSlow
<1>5. IdsPpc'
  BY <1>1, <1>2, <1>3, <1>4 DEF IdsPpc
<1>6. IdsIn'
  BY <1>1, <1>2, <1>3 DEF IdsInv, IdsIn
<1>7. IdsSlow'
  BY <1>1, <1>2, <1>3 DEF IdsInv, IdsSlow
<1>8. IdsDone'
  BY <1>1, <1>3, IdTypes DEF IdsInv, IdsDone
<1>9. ServedIsFirst' /\ ExecutedOnce'
  BY <1>1 DEF IdsInv, ServedIsFirst, ExecutedOnce, rings
<1>10. QED
  BY <1>5, <1>6, <1>7, <1>8, <1>9 DEF IdsInv

(* The slot is filled, but it is not in the ring yet. *)
LEMMA WriteKeepsIds == ASSUME Inv, IdsInv, PpcWrite PROVE IdsInv'
<1>1. /\ inQ' = [inQ EXCEPT ![inTail] = request] /\ inTail = ppcMsg.tail /\ PpcHas
      /\ UNCHANGED <<ppcMsg, slowQ, inHead, slowHead, slowTail, main, served, irq, done, nextId,
                     request>>
  BY DEF PpcWrite, PpcAt, PpcHas, Inv, PpcInv, armCpu
<1>2. ASSUME NEW i \in 0 .. InSize - 1, InHas(i)' PROVE InHas(i) /\ inQ'[i] = inQ[i]
  <2>1. InHas(i)
    BY <1>1, <1>2 DEF InHas
  <2>2. i # inTail
    <3>1. ~Occupied(ppcMsg.tail, inHead, ppcMsg.tail)
      BY OccupiedEnds, IdTypes
    <3>2. Occupied(i, inHead, ppcMsg.tail)
      BY <2>1 DEF InHas
    <3>3. QED
      BY <1>1, <3>1, <3>2
  <2>3. QED
    BY <1>1, <2>1, <2>2, IdTypes
<1>3. \A j \in 0 .. SlowSize - 1 : SlowHas(j)' => SlowHas(j) /\ slowQ'[j] = slowQ[j]
  BY <1>1 DEF SlowHas
<1>4. ServedIsFirst'
  BY <1>1 DEF IdsInv, ServedIsFirst
<1>5. QED
  BY <1>1, <1>2, <1>3, <1>4, Fewer, IdTypes

(* poke_intail: the request leaves the PowerPC for the ring. *)
LEMMA PokeKeepsIds == ASSUME Inv, IdsInv, PpcPoke PROVE IdsInv'
<1>1. /\ PpcHas /\ ~PpcHas' /\ inTail = ppcMsg.tail /\ inQ[inTail] = request
      /\ ~IsFull(inHead, ppcMsg.tail, InSize)
      /\ ppcMsg' = [ppcMsg EXCEPT !.tail = Succ(inTail, InSize)]
      /\ UNCHANGED <<inQ, slowQ, inHead, slowHead, slowTail, main, served, irq, done, nextId>>
  BY DEF PpcPoke, PpcAt, PpcHas, Inv, PpcInv, armCpu
<1>2. ppcMsg'.tail = Succ(ppcMsg.tail, InSize)
  BY <1>1 DEF Inv, TypeOK, TypeRings
<1>3. ASSUME NEW i \in 0 .. InSize - 1, InHas(i)' PROVE InHas(i) \/ i = inTail
  <2>1. Occupied(i, inHead, Succ(ppcMsg.tail, InSize)) /\ ~(irq = "advance" /\ i = inHead)
    BY <1>1, <1>2, <1>3 DEF InHas
  <2>2. Occupied(i, inHead, ppcMsg.tail) \/ i = ppcMsg.tail
    BY <1>1, <2>1, OccupiedPut, IdTypes
  <2>3. QED
    BY <1>1, <2>1, <2>2 DEF InHas
<1>4. \A j \in 0 .. SlowSize - 1 : SlowHas(j)' <=> SlowHas(j)
  BY <1>1 DEF SlowHas
<1>5. IdsPpc'
  BY <1>1 DEF IdsPpc
<1>6. ASSUME NEW i \in 0 .. InSize - 1, InHas(i)'
      PROVE  /\ inQ[i].id \in 1 .. nextId - 1
             /\ \A k \in DOMAIN done : done[k] # inQ[i].id
             /\ \A i2 \in 0 .. InSize - 1 : InHas(i2)' /\ i2 # i => inQ[i2].id # inQ[i].id
             /\ \A j \in 0 .. SlowSize - 1 : SlowHas(j) => slowQ[j].id # inQ[i].id
  <2>1. CASE i = inTail
    <3>1. \A i2 \in 0 .. InSize - 1 : InHas(i2)' /\ i2 # i => InHas(i2)
      BY <1>3, <2>1
    <3>2. QED
      BY <1>1, <2>1, <3>1 DEF IdsInv, IdsPpc
  <2>2. CASE i # inTail
    <3>1. InHas(i)
      BY <1>3, <1>6, <2>2
    <3>2. \A i2 \in 0 .. InSize - 1 : InHas(i2)' => InHas(i2) \/ inQ[i2] = request
      BY <1>1, <1>3
    <3>3. inQ[i].id # request.id
      BY <1>1, <3>1 DEF IdsInv, IdsPpc
    <3>4. QED
      BY <3>1, <3>2, <3>3 DEF IdsInv, IdsIn
  <2>3. QED
    BY <2>1, <2>2
<1>7. IdsIn'
  BY <1>1, <1>4, <1>6 DEF IdsIn
<1>8. IdsSlow' /\ IdsDone' /\ ServedIsFirst' /\ ExecutedOnce'
  BY <1>1, <1>4 DEF IdsInv, IdsSlow, IdsDone, ServedIsFirst, ExecutedOnce
<1>9. QED
  BY <1>5, <1>7, <1>8 DEF IdsInv

-----------------------------------------------------------------------------
(* What the slow queue has after ipc_enqueue_slow. *)
LEMMA EnqueuePlaces ==
    ASSUME Inv, NEW r \in Request, EnqueueSlow(r), UNCHANGED <<slowHead, main>>
    PROVE  /\ \A j \in 0 .. SlowSize - 1 : SlowHas(j)' =>
                 \/ SlowHas(j) /\ slowQ'[j] = slowQ[j]
                 \/ j = slowTail /\ slowQ'[j] = r
           /\ slowHead # slowTail => slowQ'[slowHead] = slowQ[slowHead]
<1>1. CASE SlowFull
  BY <1>1 DEF EnqueueSlow, SlowHas
<1>2. CASE ~SlowFull
  <2>1. /\ slowQ' = [slowQ EXCEPT ![slowTail] = r] /\ slowTail' = Succ(slowTail, SlowSize)
        /\ ~IsFull(slowHead, slowTail, SlowSize)
    BY <1>2 DEF EnqueueSlow, SlowFull
  <2>2. ASSUME NEW j \in 0 .. SlowSize - 1, SlowHas(j)', j # slowTail
        PROVE  SlowHas(j) /\ slowQ'[j] = slowQ[j]
    <3>1. Occupied(j, slowHead, Succ(slowTail, SlowSize))
      BY <2>1, <2>2 DEF SlowHas
    <3>2. Occupied(j, slowHead, slowTail)
      BY <2>1, <2>2, <3>1, OccupiedPut, IdTypes
    <3>3. QED
      BY <2>1, <2>2, <3>2, IdTypes DEF SlowHas
  <2>3. slowQ'[slowTail] = r
    BY <2>1, IdTypes
  <2>4. QED
    BY <2>1, <2>2, <2>3, IdTypes
<1>3. QED
  BY <1>1, <1>2

(* The ARM's own requests. *)
LEMMA OwnKeepsIds == ASSUME Inv, IdsInv, IrqTimer \/ IrqSdhc PROVE IdsInv'
<1> DEFINE OnlyOwn ==
             /\ \A j \in 0 .. SlowSize - 1 : SlowHas(j)' =>
                   (SlowHas(j) /\ slowQ'[j] = slowQ[j]) \/ slowQ'[j].id = 0
             /\ slowHead # slowTail => slowQ'[slowHead] = slowQ[slowHead]
<1>1. /\ UNCHANGED <<inQ, inHead, ppcMsg, slowHead, main, served, done>>
      /\ irq # "advance" /\ irq' # "advance"
  BY DEF IrqTimer, IrqSdhc
<1>2. nextId' = nextId /\ (PpcHas' => PpcHas /\ request' = request)
  BY DEF IrqTimer, IrqSdhc, GeckoReceive, GeckoGiveUp, GeckoComplete, PowerpcHang, ppcCpu, PpcHas
<1>3. UNCHANGED <<slowQ, slowTail>> \/ \E kind \in ArmKinds : EnqueueSlow(FromArm(kind))
  BY DEF IrqTimer, IrqSdhc, GeckoReceive, GeckoGiveUp, GeckoComplete, ArmKinds
<1>4. OnlyOwn
  <2>1. CASE UNCHANGED <<slowQ, slowTail>>
    BY <1>1, <2>1 DEF SlowHas
  <2>2. ASSUME NEW kind \in ArmKinds, EnqueueSlow(FromArm(kind)) PROVE OnlyOwn
    BY <1>1, <2>2, EnqueuePlaces, FromArmType DEF FromArm
  <2>3. QED
    BY <1>3, <2>1, <2>2
<1>5. ServedIsFirst'
  BY <1>1, <1>4 DEF IdsInv, ServedIsFirst, Inv, HeldInv, SlowEmpty
<1>6. \A i \in 0 .. InSize - 1 : InHas(i)' => InHas(i) /\ inQ'[i] = inQ[i]
  BY <1>1 DEF InHas
<1>7. QED
  BY <1>1, <1>2, <1>4, <1>5, <1>6, Fewer, IdTypes

(* process_in: the request at the head is executed here, or enqueued. *)
LEMMA ProcessInKeepsIds == ASSUME Inv, IdsInv, IrqProcessIn PROVE IdsInv'
<1> DEFINE r == inQ[inHead]
<1>1. /\ irq = "drain" /\ irq' = "advance" /\ inHead # ppcMsg.tail
      /\ UNCHANGED <<inQ, inHead, ppcMsg, slowHead, main, served, nextId, ppc, request>>
  BY DEF IrqProcessIn, InEmpty, ppcCpu
<1>2. InHas(inHead) /\ r \in Request
  <2>1. Occupied(inHead, inHead, ppcMsg.tail)
    BY <1>1, OccupiedEnds, IdTypes
  <2>2. QED
    BY <1>1, <2>1, IdTypes DEF InHas, Inv, SlotsInv
<1>3. /\ r.id \in 1 .. nextId - 1
      /\ \A k \in DOMAIN done : done[k] # r.id
      /\ \A i \in 0 .. InSize - 1 : InHas(i) /\ i # inHead => inQ[i].id # r.id
      /\ \A j \in 0 .. SlowSize - 1 : SlowHas(j) => slowQ[j].id # r.id
      /\ PpcHas => request.id # r.id
  BY <1>2, IdTypes DEF IdsInv, IdsIn, IdsPpc
<1>4. \A i \in 0 .. InSize - 1 : InHas(i)' => InHas(i) /\ i # inHead
  BY <1>1 DEF InHas
<1>5. (done' = Append(done, r.id) /\ UNCHANGED <<slowQ, slowTail>>) \/ (EnqueueSlow(r) /\ done' = done)
  BY DEF IrqProcessIn, Execute
<1>6. CASE done' = Append(done, r.id) /\ UNCHANGED <<slowQ, slowTail>>
  <2>1. ServedIsFirst' /\ (PpcHas' => PpcHas /\ request' = request /\ request.id # r.id)
    BY <1>1, <1>3, <1>6 DEF IdsInv, ServedIsFirst, PpcHas
  <2>2. \A j \in 0 .. SlowSize - 1 : SlowHas(j)' => SlowHas(j) /\ slowQ'[j] = slowQ[j]
    BY <1>1, <1>6 DEF SlowHas
  <2>3. r.id \in Nat /\ r.id < nextId
    BY <1>3, IdTypes
  <2>4. nextId' = nextId /\ inQ' = inQ
    BY <1>1
  <2>5. QED
    BY <1>3, <1>4, <1>6, <2>1, <2>2, <2>3, <2>4, OneExecuted, IdTypes
<1>7. CASE EnqueueSlow(r) /\ done' = done
  <2>1. /\ \A j \in 0 .. SlowSize - 1 : SlowHas(j)' =>
              \/ SlowHas(j) /\ slowQ'[j] = slowQ[j]
              \/ j = slowTail /\ slowQ'[j] = r
        /\ slowHead # slowTail => slowQ'[slowHead] = slowQ[slowHead]
    BY <1>1, <1>2, <1>7, EnqueuePlaces
  <2>2. ServedIsFirst'
    BY <1>1, <2>1 DEF IdsInv, ServedIsFirst, Inv, HeldInv, SlowEmpty
  <2>3. IdsPpc'
    BY <1>1, <1>3, <1>4, <1>7, <2>1 DEF IdsInv, IdsPpc, PpcHas
  <2>4. IdsIn'
    BY <1>1, <1>3, <1>4, <1>7, <2>1 DEF IdsInv, IdsIn
  <2>5. ASSUME NEW j \in 0 .. SlowSize - 1, SlowHas(j)'
        PROVE  /\ slowQ'[j].id \in 0 .. nextId - 1
               /\ slowQ'[j].id # 0 =>
                     /\ \A k \in DOMAIN done : done[k] # slowQ'[j].id
                     /\ \A j2 \in 0 .. SlowSize - 1 :
                           SlowHas(j2)' /\ j2 # j => slowQ'[j2].id # slowQ'[j].id
    <3>1. CASE j = slowTail /\ slowQ'[j] = r
      BY <1>3, <2>1, <3>1
    <3>2. CASE SlowHas(j) /\ slowQ'[j] = slowQ[j]
      BY <1>3, <2>1, <3>2 DEF IdsInv, IdsSlow
    <3>3. QED
      BY <2>1, <2>5, <3>1, <3>2
  <2>6. IdsSlow'
    BY <1>1, <1>7, <2>5 DEF IdsSlow
  <2>7. IdsDone' /\ ExecutedOnce'
    BY <1>1, <1>7 DEF IdsInv, IdsDone, ExecutedOnce
  <2>8. QED
    BY <2>2, <2>3, <2>4, <2>6, <2>7 DEF IdsInv
<1>8. QED
  BY <1>5, <1>6, <1>7

(* process_slow: the request at the head is executed and left behind. *)
LEMMA ProcessKeepsIds ==
    ASSUME Inv, IdsInv, ProcessSlow \/ ProcessMute \/ ProcessNand \/ ProcessBoot
    PROVE  IdsInv'
<1>1. /\ main = "process" /\ main' \in {"advance", "flush", "leave"}
      /\ done' = Append(done, served.id)
      /\ UNCHANGED <<inQ, slowQ, inHead, ppcMsg, slowHead, slowTail, irq>>
  BY DEF ProcessSlow, ProcessMute, ProcessNand, ProcessBoot, Execute, rings
<1>2. nextId' = nextId /\ (PpcHas' => PpcHas /\ request' = request)
  BY DEF ProcessSlow, ProcessMute, ProcessNand, ProcessBoot, PowerpcBoot, PowerpcHang, ppcCpu, PpcHas
<1>3. SlowHas(slowHead) /\ served = slowQ[slowHead] /\ served \in Request
  <2>1. slowHead # slowTail
    BY <1>1 DEF Inv, HeldInv, SlowEmpty
  <2>2. Occupied(slowHead, slowHead, slowTail)
    BY <2>1, OccupiedEnds, IdTypes
  <2>3. QED
    BY <1>1, <2>2 DEF SlowHas, IdsInv, ServedIsFirst, Inv, ControlInv
<1>4. /\ served.id \in 0 .. nextId - 1
      /\ served.id # 0 =>
            /\ \A k \in DOMAIN done : done[k] # served.id
            /\ \A j \in 0 .. SlowSize - 1 : SlowHas(j) /\ j # slowHead => slowQ[j].id # served.id
  BY <1>3, IdTypes DEF IdsInv, IdsSlow
<1>5. /\ \A i \in 0 .. InSize - 1 : InHas(i) => inQ[i].id # served.id
      /\ PpcHas => request.id # served.id
  BY <1>3, IdTypes DEF IdsInv, IdsIn, IdsPpc
<1>6. \A i \in 0 .. InSize - 1 : InHas(i)' => InHas(i) /\ inQ'[i] = inQ[i]
  BY <1>1 DEF InHas
<1>7. \A j \in 0 .. SlowSize - 1 : SlowHas(j)' => SlowHas(j) /\ j # slowHead /\ slowQ'[j] = slowQ[j]
  BY <1>1 DEF SlowHas
<1>8. ServedIsFirst'
  BY <1>1 DEF ServedIsFirst
<1>9. served.id \in Nat /\ served.id < nextId
  BY <1>4, IdTypes
<1>10. QED
  BY <1>1, <1>2, <1>4, <1>5, <1>6, <1>7, <1>8, <1>9, OneExecuted, IdTypes

LEMMA IdsKept == ASSUME Inv, IdsInv, [Next]_vars PROVE IdsInv'
BY WaitsKeepsIds, AdvanceKeepsIds, CallKeepsIds, WriteKeepsIds, PokeKeepsIds, OwnKeepsIds,
   ProcessInKeepsIds, ProcessKeepsIds DEF Next, Arm, Main, Irq, PpcRun, Waits

(***************************************************************************)
(* No request is executed twice, by the handler or by the main loop, for   *)
(* rings of every size and however often the PowerPC is restarted.         *)
(***************************************************************************)
THEOREM RequestsExecutedOnce == Spec => []ExecutedOnce
<1>1. Init => IdsInv
  BY IdsInit
<1>2. Inv /\ IdsInv /\ [Next]_vars => IdsInv'
  BY IdsKept
<1>3. IdsInv => ExecutedOnce
  BY DEF IdsInv
<1>4. QED
  BY <1>1, <1>2, <1>3, Invariant, PTL DEF Spec

-----------------------------------------------------------------------------
(* A reply goes to its request. *)

(***************************************************************************)
(* A request is seen where it is, and where it was: in a slot that is free *)
(* again, or behind the head.                                              *)
(***************************************************************************)
Carriers == <<inQ, outQ, slowQ, request, received, served, nandReq, reply>>

Seen(m) ==
    /\ m \in Request
    /\ \/ m \in {request, received, served, nandReq}
       \/ \E c \in Contexts : reply[c] = m
       \/ \E i \in 0 .. InSize - 1 : inQ[i] = m
       \/ \E i \in 0 .. OutSize - 1 : outQ[i] = m
       \/ \E i \in 0 .. SlowSize - 1 : slowQ[i] = m

Stopped == ppc \in {"init", "reset"}

(* A request made is one that was not there before; its copies are it. *)
Numbered == \A m : Seen(m) => m.id < nextId /\ (m.id = 0 <=> m.kind \in ArmKinds)

IdsDiffer == \A m, n : Seen(m) /\ Seen(n) /\ m.id = n.id /\ m.id # 0 => m = n

(* A tag of the running program is used up, or that of the call under way. *)
TagsUsed ==
    ~Stopped => \A m : Seen(m) /\ m.id >= firstId => m.tag < curTag \/ m = request

(* The PowerPC is in a call; it is waiting for the reply. *)
Active(p) == p \in {"room", "poke", "bell", "receive", "ack", "match"}
Waited(p) == p \in {"receive", "ack", "match"}

(* Between two calls there is no request; in a call it is the last made. *)
OneCall ==
    /\ firstId <= nextId
    /\ ~Active(ppc) => request = None
    /\ request # None =>
          /\ request.id = nextId - 1 /\ request.id >= firstId /\ request.id > 0
          /\ request.tag \in {0, curTag}
          /\ Waited(ppc) => request.tag = curTag /\ request.tag # 0

(* What ipc_receive takes is a reply. *)
OutSlots == \A i \in 0 .. OutSize - 1 :
    Occupied(i, ppcMsg.head, armMsg.tail) => outQ[i] \in Request

Received == ppc \in {"ack", "match"} => received \in Request

CallInv == Numbered /\ IdsDiffer /\ TagsUsed /\ OneCall /\ OutSlots /\ Received

-----------------------------------------------------------------------------
(* The types these proofs need. *)
LEMMA CarrierTypes ==
    ASSUME Inv
    PROVE  /\ inQ \in [0 .. InSize - 1 -> Request \cup {None}]
           /\ outQ \in [0 .. OutSize - 1 -> Request \cup {None}]
           /\ slowQ \in [0 .. SlowSize - 1 -> Request \cup {None}]
           /\ reply \in [Contexts -> Request \cup {None}]
           /\ post \in [Contexts -> {"none", "kill", "room", "read", "poke", "restore"}]
           /\ request \in Request \cup {None} /\ received \in Request \cup {None}
           /\ served \in Request \cup {None} /\ nandReq \in Request \cup {None}
           /\ inTail \in 0 .. InSize - 1 /\ inHead \in 0 .. InSize - 1
           /\ outTail \in 0 .. OutSize - 1 /\ outHead \in 0 .. OutSize - 1
           /\ slowHead \in 0 .. SlowSize - 1 /\ slowTail \in 0 .. SlowSize - 1
           /\ armMsg \in Message
           /\ ppcMsg \in [head : 0 .. OutSize - 1, tail : 0 .. InSize - 1]
           /\ nextId \in Nat /\ firstId \in Nat /\ curTag \in Nat
           /\ nextId >= 1 /\ firstId >= 1 /\ curTag >= 1
           /\ ppc \in {"reset", "init", "idle", "room", "poke", "bell", "receive", "ack", "match",
                       "flush", "off"}
BY BoundsAssumption DEF Inv, TypeOK, TypeRings, TypeArm, TypeDevices, TypePpc

(* A step that touches no carrier shows no request that was not seen. *)
LEMMA SeenSame == ASSUME NEW m, UNCHANGED Carriers, Seen(m)' PROVE Seen(m)
BY DEF Carriers, Seen

(* The copies that are made on the ARM: what is posted, enqueued, served. *)
LEMMA PostSeen ==
    ASSUME Inv, NEW c \in Contexts, NEW r \in Request, Seen(r), StartPost(c, r),
           UNCHANGED <<inQ, outQ, slowQ, received, served>>,
           request' \in {request, None}, nandReq' \in {nandReq, r, None}, NEW m, Seen(m)'
    PROVE  Seen(m)
BY CarrierTypes, NoneAssumption DEF StartPost, Seen

(* Nor does enqueueing one that was. *)
LEMMA EnqueueSeen ==
    ASSUME Inv, NEW r \in Request, EnqueueSlow(r),
           UNCHANGED <<inQ, outQ, received, served, nandReq, reply>>,
           request' \in {request, None}, NEW m, Seen(m)'
    PROVE  Seen(m) \/ m = r
<1>1. CASE SlowFull
  BY <1>1, NoneAssumption DEF EnqueueSlow, Seen
<1>2. CASE ~SlowFull
  BY <1>2, CarrierTypes, NoneAssumption DEF EnqueueSlow, Seen
<1>3. QED
  BY <1>1, <1>2

(* A request that is seen was seen before, or is new. *)
New(m) ==
    \/ PpcCall /\ m = request'
    \/ m = FromArm("discover")
    \/ gecko = "loading" /\ \E kind \in {"armboot", "armjump"} : m = FromArm(kind)

(***************************************************************************)
(* ipc_post, the main loop, the handler and the PowerPC copy requests;     *)
(* only the last two make any.                                             *)
(***************************************************************************)
LEMMA SeenPost ==
    ASSUME Inv, NEW c \in Contexts, Post(c), NEW m, Seen(m)'
    PROVE  Seen(m)
<1> USE NoneAssumption
<1>1. CASE PostWrite(c)
  BY <1>1, CarrierTypes DEF PostWrite, Seen, nand, ppcCpu
<1>2. CASE PostRestore(c)
  BY <1>2, CarrierTypes DEF PostRestore, Seen, nand, ppcCpu, rings
<1>3. CASE PostKill(c) \/ PostRead(c) \/ PostPoke(c)
  BY <1>3, SeenSame DEF PostKill, PostRead, PostPoke, Carriers, nand, ppcCpu, rings
<1>4. QED
  BY <1>1, <1>2, <1>3 DEF Post

LEMMA SeenMain ==
    ASSUME Inv, Main, NEW m, Seen(m)'
    PROVE  Seen(m)
<1> USE NoneAssumption
<1>1. CASE MainTake
  BY <1>1, CarrierTypes DEF MainTake, Seen, rings, posts, nand, ppcCpu
<1>2. CASE ProcessSlow
  <2>1. served \in Request /\ Seen(served) /\ StartPost("main", served)
    BY <1>2 DEF ProcessSlow, Inv, ControlInv, Seen
  <2>2. QED
    BY <1>2, <2>1, PostSeen DEF ProcessSlow, rings, nand, ppcCpu, Contexts
<1>3. CASE ProcessNand
  <2>1. served \in Request /\ Seen(served)
    BY <1>3 DEF ProcessNand, Inv, ControlInv, Seen
  <2>2. CASE nandReq = None
    BY <1>3, <2>1, <2>2 DEF ProcessNand, Seen, rings, posts, ppcCpu
  <2>3. CASE nandReq # None
    BY <1>3, <2>1, <2>3, PostSeen DEF ProcessNand, rings, ppcCpu, Contexts
  <2>4. QED
    BY <2>2, <2>3
<1>4. CASE ProcessBoot
  <2>1. served \in Request /\ Seen(served) /\ UNCHANGED <<inQ, outQ, slowQ, served, nandReq>>
    BY <1>4 DEF ProcessBoot, Inv, ControlInv, Seen, rings, nand
  <2>2. /\ request' \in {request, None} /\ received' \in {received, None}
        /\ UNCHANGED posts \/ StartPost("main", served)
    BY <1>4 DEF ProcessBoot, PowerpcBoot, PowerpcHang, ppcCpu
  <2>3. CASE UNCHANGED posts
    BY <2>1, <2>2, <2>3 DEF Seen, posts
  <2>4. CASE StartPost("main", served)
    BY <2>1, <2>2, <2>4, CarrierTypes DEF Seen, StartPost, Contexts
  <2>5. QED
    BY <2>2, <2>3, <2>4
<1>5. CASE MainAdvance
  BY <1>5 DEF MainAdvance, Seen, posts, nand, ppcCpu
<1>6. CASE ProcessMute \/ MainFlush \/ MainLeave \/ MainIdle \/ MainKill \/ MainRecheck
           \/ MainWait \/ MainRestore
  BY <1>6, SeenSame DEF ProcessMute, MainFlush, MainLeave, MainIdle, MainKill, MainRecheck,
     MainWait, MainRestore, Carriers, rings, posts, nand, ppcCpu
<1>7. QED
  BY <1>1, <1>2, <1>3, <1>4, <1>5, <1>6 DEF Main

LEMMA SeenIrq ==
    ASSUME Inv, Irq, NEW m, Seen(m)'
    PROVE  Seen(m) \/ New(m)
<1> USE NoneAssumption
<1>1. CASE IrqTimer
  <2>1. UNCHANGED <<inQ, outQ, served, nandReq, reply>> /\ request' \in {request, None}
        /\ received' \in {received, None}
    BY <1>1 DEF IrqTimer, GeckoReceive, GeckoGiveUp, GeckoComplete, PowerpcHang, posts, nand, ppcCpu
  <2>2. CASE UNCHANGED slowQ
    BY <2>1, <2>2 DEF Seen
  <2>3. ASSUME NEW kind \in {"armboot", "armjump"}, EnqueueSlow(FromArm(kind)), GeckoComplete
        PROVE  Seen(m) \/ New(m)
    <3>1. received' = received /\ gecko = "loading"
      BY <2>3 DEF GeckoComplete, ppcCpu
    <3>2. kind \in ArmKinds
      BY DEF ArmKinds
    <3>3. Seen(m) \/ m = FromArm(kind)
      BY <2>1, <2>3, <3>1, <3>2, FromArmType, EnqueueSeen
    <3>4. QED
      BY <3>1, <3>3 DEF New
  <2>4. QED
    BY <1>1, <2>2, <2>3 DEF IrqTimer, GeckoReceive, GeckoGiveUp, GeckoComplete
<1>2. CASE IrqNand
  <2>1. UNCHANGED <<inQ, outQ, slowQ, request, received, served>>
    BY <1>2 DEF IrqNand, rings, ppcCpu
  <2>2. CASE UNCHANGED reply /\ nandReq' \in {nandReq, None}
    BY <2>1, <2>2 DEF Seen
  <2>3. CASE nandReq # None /\ StartPost("irq", nandReq) /\ nandReq' = None
    BY <2>1, <2>3, CarrierTypes, PostSeen DEF Seen, Contexts
  <2>4. QED
    BY <1>2, <2>2, <2>3 DEF IrqNand, posts
<1>3. CASE IrqProcessIn
  <2>1. inQ[inHead] \in Request /\ Seen(inQ[inHead])
    BY <1>3, OccupiedEnds, SizesAssumption, CarrierTypes DEF IrqProcessIn, InEmpty, Inv, SlotsInv, Seen
  <2>2. UNCHANGED <<inQ, outQ, request, received, served, nandReq>>
    BY <1>3 DEF IrqProcessIn, nand, ppcCpu
  <2>3. \/ UNCHANGED <<slowQ, reply>>
        \/ StartPost("irq", inQ[inHead]) /\ UNCHANGED slowQ
        \/ EnqueueSlow(inQ[inHead]) /\ UNCHANGED reply
    BY <1>3 DEF IrqProcessIn, posts
  <2>4. QED
    BY <2>1, <2>2, <2>3, SeenSame, PostSeen, EnqueueSeen DEF Carriers, Contexts
<1>4. CASE IrqSdhc
  <2>1. UNCHANGED <<inQ, outQ, request, received, served, nandReq, reply>>
    BY <1>4 DEF IrqSdhc, posts, nand, ppcCpu
  <2>2. UNCHANGED slowQ \/ EnqueueSlow(FromArm("discover"))
    BY <1>4 DEF IrqSdhc
  <2>3. "discover" \in ArmKinds
    BY DEF ArmKinds
  <2>4. QED
    BY <2>1, <2>2, <2>3, SeenSame, EnqueueSeen, FromArmType DEF Carriers, New
<1>5. CASE IrqEnter \/ IrqBell \/ IrqDrained \/ IrqAdvance
  BY <1>5, SeenSame DEF IrqEnter, IrqBell, IrqDrained, IrqAdvance, Carriers, rings, posts, nand, ppcCpu
<1>6. QED
  BY <1>1, <1>2, <1>3, <1>4, <1>5 DEF Irq

LEMMA SeenPpc ==
    ASSUME Inv, PpcCall \/ PpcShutdown \/ PpcRun, NEW m, Seen(m)'
    PROVE  Seen(m) \/ New(m)
<1> USE NoneAssumption
<1>1. CASE PpcCall
  BY <1>1 DEF PpcCall, Call, New, Seen, rings, armCpu, posts, nand
<1>2. CASE PpcWrite
  BY <1>2, CarrierTypes DEF PpcWrite, Seen, armCpu, posts, nand
<1>3. CASE PpcBell \/ PpcDiscard \/ PpcReturn
  BY <1>3 DEF PpcBell, PpcDiscard, PpcReturn, Seen, rings, armCpu, posts, nand
<1>4. CASE PpcReceive
  BY <1>4, CarrierTypes DEF PpcReceive, Seen, rings, armCpu, posts, nand
<1>5. CASE PpcShutdown \/ PpcInit \/ PpcPoke \/ PpcAck \/ PpcFlush
  BY <1>5, SeenSame DEF PpcShutdown, PpcInit, PpcPoke, PpcAck, PpcFlush, Carriers, rings,
     armCpu, posts, nand
<1>6. QED
  BY <1>1, <1>2, <1>3, <1>4, <1>5 DEF PpcRun

(* So a step shows only what was seen, and what it makes. *)
LEMMA SeenStep ==
    ASSUME Inv, [Next]_vars, NEW m, Seen(m)'
    PROVE  Seen(m) \/ New(m)
<1>1. CASE NandComplete \/ CardChange \/ Alarm \/ UNCHANGED vars
  BY <1>1, SeenSame DEF NandComplete, CardChange, Alarm, vars, Carriers, rings, armCpu, posts,
     nand, ppcCpu
<1>2. QED
  BY <1>1, SeenPost, SeenMain, SeenIrq, SeenPpc DEF Next, Arm

-----------------------------------------------------------------------------
(* The PowerPC's own progress: what a step makes of the call under way. *)
Steady == UNCHANGED <<request, curTag, firstId, nextId>> /\ (Stopped' <=> Stopped)

(* It is stopped, or booted, by the ARM. *)
Halt == Stopped' /\ request' = None /\ UNCHANGED <<curTag, firstId, nextId>>

(* A step leaves the call alone, stops the PowerPC, or is one of four. *)
LEMMA CallSteps ==
    ASSUME [Next]_vars
    PROVE  \/ Steady \/ Halt
           \/ PpcCall \/ PpcInit \/ PpcReturn \/ PpcBell
<1> USE DEF Steady, Stopped
<1>1. ASSUME NEW c \in Contexts, Post(c) PROVE Steady
  BY <1>1 DEF Post, PostKill, PostWrite, PostRead, PostPoke, PostRestore, ppcCpu
<1>2. CASE ProcessBoot \/ IrqTimer
  BY <1>2 DEF ProcessBoot, IrqTimer, GeckoReceive, GeckoGiveUp, GeckoComplete, PowerpcHang,
     PowerpcBoot, ppcCpu, Halt
<1>3. CASE MainTake \/ ProcessSlow \/ ProcessMute \/ ProcessNand \/ MainFlush \/ MainAdvance
           \/ MainLeave \/ MainIdle \/ MainKill \/ MainRecheck \/ MainWait \/ MainRestore
  BY <1>3 DEF MainTake, ProcessSlow, ProcessMute, ProcessNand, MainFlush, MainAdvance, MainLeave,
     MainIdle, MainKill, MainRecheck, MainWait, MainRestore, ppcCpu
<1>4. CASE IrqEnter \/ IrqNand \/ IrqBell \/ IrqProcessIn \/ IrqDrained \/ IrqAdvance \/ IrqSdhc
  BY <1>4 DEF IrqEnter, IrqNand, IrqBell, IrqProcessIn, IrqDrained, IrqAdvance, IrqSdhc, ppcCpu
<1>5. CASE NandComplete \/ CardChange \/ Alarm \/ UNCHANGED vars
  BY <1>5 DEF NandComplete, CardChange, Alarm, vars, ppcCpu
<1>6. CASE PpcShutdown \/ PpcWrite \/ PpcPoke \/ PpcReceive \/ PpcAck \/ PpcDiscard \/ PpcFlush
  BY <1>6 DEF PpcShutdown, PpcWrite, PpcPoke, PpcReceive, PpcAck, PpcDiscard, PpcFlush, PpcAt
<1>7. QED
  BY <1>1, <1>2, <1>3, <1>4, <1>5, <1>6 DEF Next, Arm, Main, Irq, PpcRun

(* The new request, and those the ARM makes. *)
LEMMA NewCall ==
    ASSUME Inv, PpcCall
    PROVE  /\ request'.id = nextId /\ request'.tag \in {0, curTag} /\ request'.kind \in ClientKinds
           /\ nextId' = nextId + 1 /\ ppc = "idle" /\ ppc' = "room"
           /\ UNCHANGED <<curTag, firstId>>
<1>1. PICK kind \in ClientKinds, tag \in {0, curTag} : Call(kind, tag)
  BY KindsAssumption DEF PpcCall
<1>2. QED
  BY <1>1 DEF Call, PpcAt

(* The ARM makes no requests of the client's kinds. *)
LEMMA KindsDiffer == ClientKinds \cap ArmKinds = {}
BY DEF ClientKinds, ArmKinds, FastKinds

(* Each part of CallInv holds on. *)
LEMMA NumberedStep == ASSUME Inv, CallInv, [Next]_vars PROVE Numbered' /\ nextId' >= nextId
<1>1. nextId \in Nat /\ nextId >= 1 /\ nextId' \in {nextId, nextId + 1}
  BY CarrierTypes, CallSteps, NewCall DEF Steady, Halt, PpcInit, PpcReturn, PpcBell
<1>2. ASSUME NEW m, Seen(m)' PROVE m.id < nextId' /\ (m.id = 0 <=> m.kind \in ArmKinds)
  <2>1. m \in Request /\ m.id \in Nat
    BY <1>2, RequestId DEF Seen
  <2>2. CASE Seen(m)
    BY <1>1, <2>1, <2>2 DEF CallInv, Numbered
  <2>3. CASE PpcCall /\ m = request'
    BY <1>1, <2>3, NewCall, KindsDiffer
  <2>4. ASSUME NEW kind \in ArmKinds, m = FromArm(kind)
        PROVE  m.id < nextId' /\ (m.id = 0 <=> m.kind \in ArmKinds)
    BY <1>1, <2>4 DEF FromArm
  <2>5. QED
    BY <1>2, <2>2, <2>3, <2>4, SeenStep DEF New, ArmKinds
<1>3. QED
  BY <1>1, <1>2 DEF Numbered

LEMMA IdsDifferStep == ASSUME Inv, CallInv, [Next]_vars PROVE IdsDiffer'
<1>1. SUFFICES ASSUME NEW m, NEW n, Seen(m)', Seen(n)', m.id = n.id, m.id # 0
               PROVE  m = n
  BY DEF IdsDiffer
<1>2. ASSUME NEW o, Seen(o)', o.id # 0 PROVE Seen(o) \/ (PpcCall /\ o = request')
  BY <1>2, SeenStep DEF New, FromArm
<1>3. ASSUME NEW o, Seen(o) PROVE o.id < nextId /\ o.id \in Nat
  BY <1>3, RequestId DEF CallInv, Numbered, Seen
<1>4. PpcCall => request'.id = nextId
  BY NewCall
<1>5. nextId \in Nat
  BY CarrierTypes
<1>6. QED
  BY <1>1, <1>2, <1>3, <1>4, <1>5 DEF CallInv, IdsDiffer

LEMMA TagsUsedStep == ASSUME Inv, CallInv, [Next]_vars PROVE TagsUsed'
<1>1. SUFFICES ASSUME ~Stopped', NEW m, Seen(m)', m.id >= firstId'
               PROVE  m.tag < curTag' \/ m = request'
  BY DEF TagsUsed
<1>2. /\ nextId \in Nat /\ firstId \in Nat /\ curTag \in Nat /\ firstId >= 1 /\ curTag >= 1
      /\ m \in Request /\ m.id \in Nat
  BY <1>1, CarrierTypes, RequestId DEF Seen
<1>3. firstId' \in Nat /\ firstId' >= 1
  BY <1>2, CallSteps, CarrierTypes, NewCall DEF Steady, Halt, PpcInit, PpcReturn, PpcBell
<1>4. Seen(m) \/ (PpcCall /\ m = request')
  BY <1>1, <1>2, <1>3, SeenStep DEF New, FromArm
<1>5. Seen(m) /\ ~Stopped /\ m.id >= firstId => m.tag < curTag \/ m = request
  BY DEF CallInv, TagsUsed
<1>6. CASE PpcCall
  <2>1. request = None /\ ~Stopped /\ m # None
    BY <1>2, <1>6, NewCall, NoneAssumption DEF CallInv, OneCall, Stopped, Active
  <2>2. QED
    BY <1>1, <1>4, <1>5, <1>6, <2>1, NewCall
<1>7. CASE PpcInit
  BY <1>1, <1>2, <1>4, <1>7 DEF PpcInit, PpcCall, Call, PpcAt, CallInv, Numbered
<1>8. CASE PpcReturn
  <2>1. request # None /\ request.tag \in {0, curTag} /\ curTag' = curTag + 1 /\ ~Stopped
        /\ UNCHANGED firstId
    BY <1>8, NoneAssumption DEF PpcReturn, PpcAt, CallInv, OneCall, Inv, PpcInv, Stopped
  <2>2. ~PpcCall
    BY <1>8 DEF PpcReturn, PpcCall, Call, PpcAt
  <2>3. m.tag < curTag \/ m.tag \in {0, curTag}
    BY <1>1, <1>4, <1>5, <2>1, <2>2
  <2>4. m.tag \in Nat
    BY <1>2 DEF Request
  <2>5. QED
    BY <1>2, <2>1, <2>3, <2>4
<1>9. CASE PpcBell
  <2>1. /\ request' = IF request.tag = 0 THEN None ELSE request
        /\ ~Stopped /\ UNCHANGED <<firstId, curTag>> /\ ~PpcCall
    BY <1>9 DEF PpcBell, PpcAt, Stopped, PpcCall, Call
  <2>2. QED
    BY <1>1, <1>2, <1>4, <1>5, <2>1
<1>10. CASE Steady /\ ~PpcCall
  BY <1>1, <1>4, <1>5, <1>10 DEF Steady
<1>11. QED
  BY <1>1, <1>6, <1>7, <1>8, <1>9, <1>10, CallSteps DEF Halt

(* A step that does not concern the call leaves the PowerPC in it. *)
LEMMA SteadyPpc ==
    ASSUME Inv, [Next]_vars, ~(PpcCall \/ PpcInit \/ PpcReturn \/ PpcBell), ~Halt
    PROVE  Steady /\ (Active(ppc') <=> Active(ppc)) /\ (Waited(ppc') => Waited(ppc))
<1> USE DEF Active, Waited
<1>1. Steady
  BY CallSteps
<1>2. PpcShutdown \/ PpcRun \/ ppc' = ppc
  <2>1. ASSUME NEW c \in Contexts, Post(c) PROVE ppc' = ppc
    BY <2>1 DEF Post, PostKill, PostWrite, PostRead, PostPoke, PostRestore, ppcCpu
  <2>2. CASE ProcessBoot \/ IrqTimer
    BY <2>2 DEF ProcessBoot, IrqTimer, GeckoReceive, GeckoGiveUp, GeckoComplete, PowerpcHang,
       PowerpcBoot, ppcCpu, Halt, Stopped
  <2>3. CASE MainTake \/ ProcessSlow \/ ProcessMute \/ ProcessNand \/ MainFlush \/ MainAdvance
             \/ MainLeave \/ MainIdle \/ MainKill \/ MainRecheck \/ MainWait \/ MainRestore
    BY <2>3 DEF MainTake, ProcessSlow, ProcessMute, ProcessNand, MainFlush, MainAdvance, MainLeave,
       MainIdle, MainKill, MainRecheck, MainWait, MainRestore, ppcCpu
  <2>4. CASE IrqEnter \/ IrqNand \/ IrqBell \/ IrqProcessIn \/ IrqDrained \/ IrqAdvance \/ IrqSdhc
    BY <2>4 DEF IrqEnter, IrqNand, IrqBell, IrqProcessIn, IrqDrained, IrqAdvance, IrqSdhc, ppcCpu
  <2>5. CASE NandComplete \/ CardChange \/ Alarm \/ UNCHANGED vars
    BY <2>5 DEF NandComplete, CardChange, Alarm, vars, ppcCpu
  <2>6. QED
    BY <2>1, <2>2, <2>3, <2>4, <2>5 DEF Next, Arm, Main, Irq
<1>3. CASE PpcShutdown \/ PpcRun
  BY <1>1, <1>3 DEF PpcShutdown, PpcRun, PpcWrite, PpcPoke, PpcReceive, PpcAck, PpcDiscard, PpcFlush, PpcAt
<1>4. QED
  BY <1>1, <1>2, <1>3

LEMMA OneCallStep == ASSUME Inv, CallInv, [Next]_vars PROVE OneCall'
<1> USE DEF OneCall, Active, Waited
<1>1. /\ nextId \in Nat /\ nextId >= 1 /\ firstId \in Nat /\ firstId <= nextId
      /\ curTag \in Nat /\ curTag >= 1
  BY CarrierTypes DEF CallInv
<1>2. CASE PpcCall
  BY <1>1, <1>2, NewCall
<1>3. CASE PpcInit
  BY <1>1, <1>3 DEF PpcInit, PpcAt, CallInv
<1>4. CASE PpcReturn
  BY <1>1, <1>4 DEF PpcReturn
<1>5. CASE PpcBell
  <2>1. request # None
    BY <1>5, NoneAssumption DEF PpcBell, PpcAt, Inv, PpcInv
  <2>2. QED
    BY <1>1, <1>5, <2>1 DEF PpcBell, PpcAt, CallInv
<1>6. CASE Halt
  BY <1>1, <1>6 DEF Halt, Stopped, CallInv
<1>7. CASE ~(PpcCall \/ PpcInit \/ PpcReturn \/ PpcBell) /\ ~Halt
  BY <1>1, <1>7, SteadyPpc DEF Steady, CallInv
<1>8. QED
  BY <1>2, <1>3, <1>4, <1>5, <1>6, <1>7

(* A reply is published when it is written, and read when it is published. *)
LEMMA OutSlotsStep == ASSUME Inv, OutInv, CallInv, [Next]_vars PROVE OutSlots'
<1> USE SizesAssumption
<1>1. /\ ppcMsg.head \in 0 .. OutSize - 1 /\ armMsg.tail \in 0 .. OutSize - 1
      /\ outTail \in 0 .. OutSize - 1
      /\ outQ \in [0 .. OutSize - 1 -> Request \cup {None}]
  BY CarrierTypes DEF Message
<1>2. OutSlots
  BY DEF CallInv
<1>3. ASSUME NEW c \in Contexts, PostWrite(c) PROVE OutSlots'
  <2>1. /\ outQ' = [outQ EXCEPT ![armMsg.tail] = reply[c]]
        /\ armMsg' = armMsg /\ ppcMsg' = ppcMsg
    BY <1>3, PostWriteOut DEF PostWrite
  <2>2. QED
    BY <1>1, <1>2, <2>1, OccupiedEnds DEF OutSlots
<1>4. ASSUME NEW c \in Contexts, PostPoke(c) PROVE OutSlots'
  <2>1. /\ outQ' = outQ /\ ppcMsg' = ppcMsg
        /\ armMsg'.tail = Succ(armMsg.tail, OutSize)
        /\ outQ[armMsg.tail] \in Request /\ ~IsFull(ppcMsg.head, armMsg.tail, OutSize)
    BY <1>4, PostPokeOut DEF PostPoke
  <2>2. ASSUME NEW i \in 0 .. OutSize - 1, Occupied(i, ppcMsg.head, Succ(armMsg.tail, OutSize))
        PROVE  Occupied(i, ppcMsg.head, armMsg.tail) \/ i = armMsg.tail
    BY <1>1, <2>1, <2>2, OccupiedPut
  <2>3. QED
    BY <1>2, <2>1, <2>2 DEF OutSlots
<1>5. CASE PpcAck
  <2>1. /\ outQ' = outQ /\ armMsg' = armMsg
        /\ ppcMsg'.head = Succ(ppcMsg.head, OutSize) /\ ppcMsg.head # armMsg.tail
    BY <1>5, PpcAckOut DEF PpcAck
  <2>2. ASSUME NEW i \in 0 .. OutSize - 1, Occupied(i, Succ(ppcMsg.head, OutSize), armMsg.tail)
        PROVE  Occupied(i, ppcMsg.head, armMsg.tail)
    BY <1>1, <2>1, <2>2, OccupiedGet
  <2>3. QED
    BY <1>2, <2>1, <2>2 DEF OutSlots
<1>6. ASSUME NEW c \in Contexts, PostRead(c) PROVE OutSlots'
  BY <1>2, <1>6 DEF PostRead, OutSlots
<1>7. CASE \/ Silent \/ MainAdvance \/ MainLeave
           \/ IrqTimer \/ IrqProcessIn \/ IrqAdvance \/ IrqSdhc
           \/ PpcWrite \/ PpcPoke
  <2>1. OutQuiet
    BY <1>7, QuietSteps
  <2>2. QED
    BY <1>2, <2>1 DEF OutQuiet, OutSlots
<1>8. QED
  BY <1>3, <1>4, <1>5, <1>6, <1>7, Steps

LEMMA ReceivedStep == ASSUME Inv, CallInv, [Next]_vars PROVE Received'
<1>1. CASE PpcReceive
  <2>1. outHead = ppcMsg.head /\ armMsg.tail # outHead /\ received' = outQ[outHead]
    BY <1>1 DEF PpcReceive, PpcAt, Inv, PpcInv
  <2>2. /\ ppcMsg.head \in 0 .. OutSize - 1 /\ armMsg.tail \in 0 .. OutSize - 1
    BY CarrierTypes DEF Message
  <2>3. Occupied(ppcMsg.head, ppcMsg.head, armMsg.tail)
    BY <2>1, <2>2, OccupiedEnds, SizesAssumption
  <2>4. QED
    BY <2>1, <2>2, <2>3 DEF CallInv, OutSlots, Received
<1>2. ASSUME ppc' \in {"ack", "match"} => ppc \in {"ack", "match"} /\ received' = received
      PROVE  Received'
  BY <1>2 DEF CallInv, Received
<1>3. ASSUME NEW c \in Contexts, Post(c) PROVE Received'
  BY <1>2, <1>3 DEF Post, PostKill, PostWrite, PostRead, PostPoke, PostRestore, ppcCpu
<1>4. CASE ProcessBoot \/ IrqTimer
  BY <1>2, <1>4 DEF ProcessBoot, IrqTimer, GeckoReceive, GeckoGiveUp, GeckoComplete, PowerpcHang,
     PowerpcBoot, ppcCpu
<1>5. CASE MainTake \/ ProcessSlow \/ ProcessMute \/ ProcessNand \/ MainFlush \/ MainAdvance
           \/ MainLeave \/ MainIdle \/ MainKill \/ MainRecheck \/ MainWait \/ MainRestore
  BY <1>2, <1>5 DEF MainTake, ProcessSlow, ProcessMute, ProcessNand, MainFlush, MainAdvance,
     MainLeave, MainIdle, MainKill, MainRecheck, MainWait, MainRestore, ppcCpu
<1>6. CASE IrqEnter \/ IrqNand \/ IrqBell \/ IrqProcessIn \/ IrqDrained \/ IrqAdvance \/ IrqSdhc
  BY <1>2, <1>6 DEF IrqEnter, IrqNand, IrqBell, IrqProcessIn, IrqDrained, IrqAdvance, IrqSdhc, ppcCpu
<1>7. CASE NandComplete \/ CardChange \/ Alarm \/ UNCHANGED vars
  BY <1>2, <1>7 DEF NandComplete, CardChange, Alarm, vars, ppcCpu
<1>8. CASE \/ PpcCall \/ PpcShutdown \/ PpcInit \/ PpcWrite \/ PpcPoke \/ PpcBell
           \/ PpcAck \/ PpcDiscard \/ PpcReturn \/ PpcFlush
  BY <1>2, <1>8 DEF PpcCall, Call, PpcShutdown, PpcInit, PpcWrite, PpcPoke, PpcBell, PpcAck,
     PpcDiscard, PpcReturn, PpcFlush, PpcAt
<1>9. QED
  BY <1>1, <1>3, <1>4, <1>5, <1>6, <1>7, <1>8 DEF Next, Arm, Main, Irq, PpcRun

(* CallInv holds at first, and holds on. *)
LEMMA CallInit == Init => CallInv
<1>1. ASSUME Init, NEW m PROVE ~Seen(m)
  BY <1>1, NoneAssumption DEF Init, Seen, Contexts
<1>2. ASSUME Init PROVE OneCall /\ OutSlots /\ Received
  BY <1>2, SizesAssumption DEF Init, OneCall, OutSlots, Received, Active, Occupied
<1>3. QED
  BY <1>1, <1>2 DEF CallInv, Numbered, IdsDiffer, TagsUsed

LEMMA CallKept == Inv /\ OutInv /\ CallInv /\ [Next]_vars => CallInv'
BY NumberedStep, IdsDifferStep, TagsUsedStep, OneCallStep, OutSlotsStep, ReceivedStep DEF CallInv

(***************************************************************************)
(* What the ARM and the PowerPC hold of requests agrees with the call the  *)
(* PowerPC is in, for rings of every size and however often it restarts.   *)
(***************************************************************************)
THEOREM CallInvariant == Spec => [](Inv /\ OutInv /\ IdsInv /\ CallInv)
<1>1. Init => OutInv /\ IdsInv /\ CallInv
  BY OutInit, IdsInit, CallInit
<1>2. Inv /\ OutInv /\ IdsInv /\ CallInv /\ [Next]_vars => (OutInv /\ IdsInv /\ CallInv)'
  BY OutKept, IdsKept, CallKept
<1>3. QED
  BY <1>1, <1>2, Invariant, PTL DEF Spec

-----------------------------------------------------------------------------
(***************************************************************************)
(* A reply that matches and is of the running program is the reply to its  *)
(* request, however often the PowerPC was restarted before.                *)
(***************************************************************************)
ReplyOfProgram == PpcAt("match") /\ Matches /\ received.id >= firstId => received = request

(* A matching reply of the program has the tag of the call under way. *)
LEMMA MatchIsRequest == CallInv /\ Inv => ReplyOfProgram
<1>1. SUFFICES ASSUME CallInv, Inv, ppc = "match", received.tag = request.tag,
                      received.id >= firstId
               PROVE  received = request
  BY DEF ReplyOfProgram, PpcAt, Matches
<1>2. /\ received \in Request /\ Seen(received) /\ ~Stopped /\ request # None
      /\ request.tag = curTag
  BY <1>1, NoneAssumption
     DEF CallInv, Received, Seen, Stopped, Inv, PpcInv, OneCall, Waited
<1>3. received.tag < curTag \/ received = request
  BY <1>1, <1>2 DEF CallInv, TagsUsed
<1>4. QED
  BY <1>1, <1>2, <1>3, CarrierTypes

(***************************************************************************)
(* ipc_receive_tagged takes no reply for another one of the same program:  *)
(* a tag of the program is never used twice.                               *)
(***************************************************************************)
THEOREM RepliesOfProgram == Spec => []ReplyOfProgram
BY CallInvariant, MatchIsRequest, PTL

(* As long as nothing stops the PowerPC: its first program runs. *)
Undisturbed == [][ppc' \notin {"init", "reset"}]_ppc

FirstProgram == firstId = 1 /\ ppc # "reset" /\ (ppc = "init" => nextId = 1)

(* The first program stays the running one. *)
LEMMA FirstStep ==
    ASSUME Inv, CallInv, FirstProgram, [Next]_vars, [ppc' \notin {"init", "reset"}]_ppc
    PROVE  FirstProgram'
<1>1. CASE PpcInit
  BY <1>1 DEF PpcInit, PpcAt, FirstProgram
<1>2. CASE PpcCall
  BY <1>2, NewCall DEF FirstProgram
<1>3. CASE Steady \/ PpcReturn \/ PpcBell
  BY <1>3 DEF Steady, PpcReturn, PpcBell, PpcAt, FirstProgram, Stopped
<1>4. CASE Halt
  BY <1>4 DEF Halt, FirstProgram, Stopped
<1>5. QED
  BY <1>1, <1>2, <1>3, <1>4, CallSteps

(***************************************************************************)
(* Where nobody makes the ARM start a program, nothing stops the PowerPC.  *)
(***************************************************************************)
NoneStarted ==
    /\ gecko = "none"
    /\ \A m : Seen(m) => m.kind \notin {"armboot", "ppcboot"}

(* Only an upload or a boot request stops the PowerPC. *)
LEMMA StartingSteps ==
    ASSUME [Next]_vars
    PROVE  /\ gecko' = gecko \/ GeckoReceive \/ gecko' = "none"
           /\ [ppc' \notin {"init", "reset"}]_ppc \/ GeckoReceive \/ ProcessBoot
<1>1. ASSUME NEW c \in Contexts, Post(c)
      PROVE  UNCHANGED <<gecko, ppc>>
  BY <1>1 DEF Post, PostKill, PostWrite, PostRead, PostPoke, PostRestore, ppcCpu, devices
<1>2. CASE ProcessBoot \/ IrqTimer
  BY <1>2 DEF ProcessBoot, IrqTimer, GeckoGiveUp, GeckoComplete, ppcCpu, devices
<1>3. CASE MainTake \/ ProcessSlow \/ ProcessMute \/ ProcessNand \/ MainFlush \/ MainAdvance
           \/ MainLeave \/ MainIdle \/ MainKill \/ MainRecheck \/ MainWait \/ MainRestore
  BY <1>3 DEF MainTake, ProcessSlow, ProcessMute, ProcessNand, MainFlush, MainAdvance, MainLeave,
     MainIdle, MainKill, MainRecheck, MainWait, MainRestore, ppcCpu, devices
<1>4. CASE IrqEnter \/ IrqNand \/ IrqBell \/ IrqProcessIn \/ IrqDrained \/ IrqAdvance \/ IrqSdhc
  BY <1>4 DEF IrqEnter, IrqNand, IrqBell, IrqProcessIn, IrqDrained, IrqAdvance, IrqSdhc, ppcCpu,
     devices
<1>5. CASE NandComplete \/ CardChange \/ Alarm \/ UNCHANGED vars
  BY <1>5 DEF NandComplete, CardChange, Alarm, vars, ppcCpu, devices
<1>6. CASE \/ PpcShutdown \/ PpcWrite \/ PpcPoke \/ PpcReceive \/ PpcAck \/ PpcDiscard \/ PpcFlush
           \/ PpcCall \/ PpcInit \/ PpcReturn \/ PpcBell
  BY <1>6 DEF PpcShutdown, PpcWrite, PpcPoke, PpcReceive, PpcAck, PpcDiscard, PpcFlush, PpcAt,
     PpcCall, Call, PpcInit, PpcReturn, PpcBell, devices
<1>7. QED
  BY <1>1, <1>2, <1>3, <1>4, <1>5, <1>6 DEF Next, Arm, Main, Irq, PpcRun

(* Without uploads and boot requests there is neither. *)
LEMMA NoneStartedStep ==
    ASSUME Inv, NoneStarted, MaxUploads = 0, "ppcboot" \notin ExchangeKinds \cup PostKinds,
           [Next]_vars
    PROVE  NoneStarted' /\ [ppc' \notin {"init", "reset"}]_ppc
<1>1. ~GeckoReceive
  BY DEF GeckoReceive, Inv, TypeOK, TypeDevices
<1>2. ~ProcessBoot
  BY DEF ProcessBoot, NoneStarted, Seen, Inv, ControlInv
<1>3. gecko' = "none" /\ [ppc' \notin {"init", "reset"}]_ppc
  BY <1>1, <1>2, StartingSteps DEF NoneStarted
<1>4. ASSUME NEW m, Seen(m)' PROVE m.kind \notin {"armboot", "ppcboot"}
  <2>1. CASE PpcCall /\ m = request'
    BY <2>1, KindsAssumption DEF PpcCall, Call, ClientKinds, FastKinds
  <2>2. CASE m = FromArm("discover")
    BY <2>2 DEF FromArm
  <2>3. QED
    BY <1>4, <2>1, <2>2, SeenStep DEF New, NoneStarted
<1>5. QED
  BY <1>3, <1>4 DEF NoneStarted

(***************************************************************************)
(* Without uploads and boot requests the PowerPC's first program runs on:  *)
(* the hypothesis of the theorems below is met.                            *)
(***************************************************************************)
THEOREM NothingStops ==
    ASSUME MaxUploads = 0, "ppcboot" \notin ExchangeKinds \cup PostKinds
    PROVE  Spec => Undisturbed
<1>1. Init => NoneStarted
  <2>1. ASSUME Init, NEW m PROVE ~Seen(m)
    BY <2>1, NoneAssumption DEF Init, Seen, Contexts
  <2>2. QED
    BY <2>1 DEF Init, NoneStarted
<1>2. /\ Inv /\ NoneStarted /\ [Next]_vars
      => NoneStarted' /\ [ppc' \notin {"init", "reset"}]_ppc
  BY NoneStartedStep
<1>3. QED
  BY <1>1, <1>2, Invariant, PTL DEF Spec, Undisturbed

(* Then every request is the running program's, and every match its own. *)
LEMMA OwnInFirst == Inv /\ CallInv /\ FirstProgram => OwnReply
<1>1. SUFFICES ASSUME Inv, CallInv, firstId = 1, ppc = "match", Matches
               PROVE  received.id = request.id
  BY DEF FirstProgram, OwnReply, PpcAt
<1>2. request \in Request /\ received \in Request /\ Seen(request) /\ Seen(received)
  BY <1>1 DEF Inv, PpcInv, CallInv, Received, Seen
<1>3. request.id # 0 /\ received.kind = request.kind
  BY <1>1, <1>2, NoneAssumption, CarrierTypes DEF CallInv, OneCall, Matches
<1>4. received.id # 0
  <2>1. \A m : Seen(m) => (m.id = 0 <=> m.kind \in ArmKinds)
    BY <1>1 DEF CallInv, Numbered
  <2>2. request.kind \notin ArmKinds
    BY <1>2, <1>3, <2>1
  <2>3. QED
    BY <1>2, <1>3, <2>1, <2>2
<1>5. received.id >= firstId
  BY <1>1, <1>2, <1>4, RequestId
<1>6. QED
  BY <1>1, <1>5, MatchIsRequest DEF ReplyOfProgram, PpcAt

(***************************************************************************)
(* While nothing stops the PowerPC, ipc_exchange returns the reply to its  *)
(* own request, in spite of replies nobody has read (ipc_receive_tagged).  *)
(***************************************************************************)
THEOREM OwnReplies == Spec /\ Undisturbed => []OwnReply
<1>1. Init => FirstProgram
  BY DEF Init, FirstProgram
<1>2. /\ Inv /\ CallInv /\ FirstProgram /\ [Next]_vars /\ [ppc' \notin {"init", "reset"}]_ppc
      => FirstProgram'
  BY FirstStep
<1>3. Inv /\ CallInv /\ FirstProgram => OwnReply
  BY OwnInFirst
<1>4. QED
  BY <1>1, <1>2, <1>3, CallInvariant, PTL DEF Spec, Undisturbed

-----------------------------------------------------------------------------
(***************************************************************************)
(* No request is slept over, unless the PowerPC is stopped between         *)
(* publishing it and ringing: nothing rings for it then.                   *)
(***************************************************************************)
RingsOnce == [][ppc = "bell" => ppc' \notin {"init", "reset"}]_ppc

(* A request published stays on somebody's list until it is served. *)
LEMMA BellStep ==
    ASSUME Inv, NoLostBell, [Next]_vars, [ppc = "bell" => ppc' \notin {"init", "reset"}]_ppc
    PROVE  NoLostBell'
<1> USE DEF NoLostBell, InEmpty
<1>1. ASSUME NEW c \in Contexts, Post(c) PROVE NoLostBell'
  BY <1>1 DEF Post, PostKill, PostWrite, PostRead, PostPoke, PostRestore, ppcCpu, rings
<1>2. CASE ProcessBoot \/ IrqTimer
  BY <1>2 DEF ProcessBoot, IrqTimer, GeckoReceive, GeckoGiveUp, GeckoComplete, PowerpcHang,
     PowerpcBoot, ppcCpu, rings
<1>3. CASE MainTake \/ ProcessSlow \/ ProcessMute \/ ProcessNand \/ MainFlush \/ MainAdvance
           \/ MainLeave \/ MainIdle \/ MainKill \/ MainRecheck \/ MainWait \/ MainRestore
  BY <1>3 DEF MainTake, ProcessSlow, ProcessMute, ProcessNand, MainFlush, MainAdvance, MainLeave,
     MainIdle, MainKill, MainRecheck, MainWait, MainRestore, ppcCpu, rings
<1>4. CASE IrqEnter \/ IrqNand \/ IrqBell \/ IrqProcessIn \/ IrqDrained \/ IrqAdvance \/ IrqSdhc
  <2>1. CASE IrqEnter
    BY <2>1 DEF IrqEnter, Runs, ppcCpu, rings
  <2>2. CASE IrqBell \/ IrqDrained
    BY <2>2 DEF IrqBell, IrqDrained, ppcCpu, rings
  <2>3. CASE IrqProcessIn \/ IrqAdvance
    BY <2>3 DEF IrqProcessIn, IrqAdvance
  <2>4. CASE IrqNand \/ IrqSdhc
    BY <2>4 DEF IrqNand, IrqSdhc, ppcCpu, rings
  <2>5. QED
    BY <1>4, <2>1, <2>2, <2>3, <2>4
<1>5. CASE NandComplete \/ CardChange \/ Alarm \/ UNCHANGED vars
  BY <1>5 DEF NandComplete, CardChange, Alarm, vars, ppcCpu, rings, armCpu
<1>6. CASE PpcPoke \/ PpcBell
  BY <1>6 DEF PpcPoke, PpcBell
<1>7. CASE \/ PpcCall \/ PpcShutdown \/ PpcInit \/ PpcWrite \/ PpcReceive \/ PpcAck
           \/ PpcDiscard \/ PpcReturn \/ PpcFlush
  <2>1. ppc # "bell" /\ UNCHANGED <<inHead, bell, irq, main>> /\ ppcMsg'.tail = ppcMsg.tail
    BY <1>7, CarrierTypes DEF PpcCall, Call, PpcShutdown, PpcInit, PpcWrite, PpcReceive, PpcAck, PpcDiscard,
       PpcReturn, PpcFlush, PpcAt, rings, armCpu
  <2>2. QED
    BY <2>1
<1>8. QED
  BY <1>1, <1>2, <1>3, <1>4, <1>5, <1>6, <1>7 DEF Next, Arm, Main, Irq, PpcRun

(***************************************************************************)
(* Neither processor sleeps over a request, in the ring or in the slow     *)
(* queue, unless the PowerPC is stopped before it rings.                   *)
(***************************************************************************)
THEOREM NoneSleptOver == Spec /\ RingsOnce => []NothingLost
<1>1. Init => NoLostBell
  BY DEF Init, NoLostBell, InEmpty
<1>2. Inv /\ NoLostBell /\ [Next]_vars /\ [ppc = "bell" => ppc' \notin {"init", "reset"}]_ppc
      => NoLostBell'
  BY BellStep
<1>3. Inv /\ NoLostBell => NothingLost
  BY DEF Inv, NothingLost
<1>4. QED
  BY <1>1, <1>2, <1>3, Invariant, PTL DEF Spec, RingsOnce

-----------------------------------------------------------------------------
(* The ARM replies before it leaves. *)

(***************************************************************************)
(* Only the main loop answers a boot2 request: what the handler posts is a *)
(* fast request's or current_request's reply.  A request to leave stays    *)
(* known, and once ipc_flush is over no reply to one is in the ring.       *)
(***************************************************************************)
NandKind == nandReq # None => nandReq.kind = "nand"

HandlerPosts ==
    /\ Posting("irq") => reply["irq"].kind # "boot2"
    /\ post["irq"] \in {"read", "poke"} => outQ[armMsg.tail].kind # "boot2"

LeavesWith == main \in {"flush", "leave", "left"} => served \in Request

Flushed == \A i \in 0 .. OutSize - 1 :
    Occupied(i, ppcMsg.head, armMsg.tail) => outQ[i].kind # "boot2"

FlushedFirst == main \in {"leave", "left"} /\ served.kind = "boot2" => Flushed

LeaveInv == NandKind /\ HandlerPosts /\ LeavesWith /\ FlushedFirst

(* What a step does that the others do not. *)
LEMMA LeavingSteps ==
    ASSUME Inv, [Next]_vars
    PROVE  /\ nandReq' = nandReq \/ (ProcessNand /\ nandReq' = served) \/ nandReq' = None
           /\ UNCHANGED <<main, served>> \/ Main
           /\ \/ Posting("irq")' => Posting("irq") /\ reply'["irq"] = reply["irq"]
              \/ IrqNand /\ StartPost("irq", nandReq) /\ nandReq # None
              \/ IrqProcessIn /\ StartPost("irq", inQ[inHead]) /\ inQ[inHead].kind = "fast"
<1> USE CarrierTypes DEF Posting
<1>1. ASSUME NEW c \in Contexts, Post(c)
      PROVE  /\ nandReq' = nandReq /\ UNCHANGED <<main, served>>
             /\ Posting("irq")' => Posting("irq") /\ reply'["irq"] = reply["irq"]
  BY <1>1 DEF Post, PostKill, PostWrite, PostRead, PostPoke, PostRestore, nand, Contexts
<1>2. CASE ProcessSlow \/ ProcessNand \/ ProcessBoot
  <2>1. /\ nandReq' \in {nandReq, served} /\ (nandReq' = served => ProcessNand \/ nandReq' = nandReq)
        /\ \E r : UNCHANGED posts \/ StartPost("main", r)
    BY <1>2 DEF ProcessSlow, ProcessNand, ProcessBoot, nand
  <2>2. Posting("irq")' => Posting("irq") /\ reply'["irq"] = reply["irq"]
    BY <2>1 DEF posts, StartPost, Contexts
  <2>3. QED
    BY <1>2, <2>1, <2>2 DEF Main
<1>3. CASE MainTake \/ ProcessMute \/ MainFlush \/ MainAdvance
           \/ MainLeave \/ MainIdle \/ MainKill \/ MainRecheck \/ MainWait \/ MainRestore
  BY <1>3 DEF Main, MainTake, ProcessMute, MainFlush, MainAdvance, MainLeave,
     MainIdle, MainKill, MainRecheck, MainWait, MainRestore, nand, posts
<1>4. CASE IrqNand
  BY <1>4 DEF IrqNand, posts
<1>5. CASE IrqProcessIn
  BY <1>5 DEF IrqProcessIn, posts, nand
<1>6. CASE IrqTimer \/ IrqEnter \/ IrqBell \/ IrqDrained \/ IrqAdvance \/ IrqSdhc
  BY <1>6 DEF IrqTimer, IrqEnter, IrqBell, IrqDrained, IrqAdvance, IrqSdhc, posts, nand
<1>7. CASE NandComplete \/ CardChange \/ Alarm \/ UNCHANGED vars
  BY <1>7 DEF NandComplete, CardChange, Alarm, vars, armCpu, posts, nand
<1>8. CASE PpcCall \/ PpcShutdown \/ PpcRun
  BY <1>8 DEF PpcCall, Call, PpcShutdown, PpcRun, PpcInit, PpcWrite, PpcPoke, PpcBell, PpcReceive,
     PpcAck, PpcDiscard, PpcReturn, PpcFlush, armCpu, posts, nand
<1>9. QED
  BY <1>1, <1>2, <1>3, <1>4, <1>5, <1>6, <1>7, <1>8 DEF Next, Arm, Main, Irq

(* Each part of LeaveInv holds on. *)
LEMMA NandKindStep == ASSUME Inv, NandKind, [Next]_vars PROVE NandKind'
BY LeavingSteps DEF NandKind, ProcessNand

LEMMA HandlerPostsStep ==
    ASSUME Inv, OutInv, NandKind, HandlerPosts, [Next]_vars
    PROVE  HandlerPosts'
<1> DEFINE irqPosts == Posting("irq") => reply["irq"].kind # "boot2"
           irqWrote == post["irq"] \in {"read", "poke"} => outQ[armMsg.tail].kind # "boot2"
<1>0. "irq" \in Contexts /\ armMsg.tail \in 0 .. OutSize - 1
  BY CarrierTypes DEF Contexts, Message
<1>1. irqPosts'
  BY LeavingSteps, CarrierTypes DEF HandlerPosts, NandKind, StartPost, Contexts
<1>2. ASSUME NEW c \in Contexts, PostWrite(c) PROVE irqWrote'
  <2>1. /\ armMsg.tail = outTail /\ armMsg' = armMsg
        /\ outQ' = [outQ EXCEPT ![outTail] = reply[c]] /\ InPost(c)
        /\ post' = [post EXCEPT ![c] = "read"]
    BY <1>2, PostWriteOut DEF PostWrite, InPost
  <2>2. CASE c = "irq"
    BY <1>0, <1>2, <2>1, <2>2, CarrierTypes DEF HandlerPosts, PostWrite, Posting
  <2>3. CASE c # "irq"
    <3>1. ~InPost("irq")
      BY <1>0, <2>1, <2>3, OnePoster
    <3>2. QED
      BY <1>0, <2>1, <2>3, <3>1, CarrierTypes DEF InPost
  <2>4. QED
    BY <2>2, <2>3
<1>3. ASSUME NEW c \in Contexts, PostRead(c) PROVE irqWrote'
  BY <1>0, <1>3, CarrierTypes DEF PostRead, HandlerPosts
<1>4. ASSUME NEW c \in Contexts, PostPoke(c) PROVE irqWrote'
  <2>1. InPost(c) /\ post' = [post EXCEPT ![c] = "restore"]
    BY <1>4 DEF PostPoke, InPost
  <2>2. c = "irq" \/ ~InPost("irq")
    BY <1>0, <2>1, OnePoster
  <2>3. QED
    BY <1>0, <2>1, <2>2, CarrierTypes DEF InPost
<1>5. ASSUME OutQuiet \/ PpcAck PROVE irqWrote'
  <2>1. /\ outQ' = outQ /\ armMsg'.tail = armMsg.tail
        /\ post'["irq"] \in {"read", "poke"} => post'["irq"] = post["irq"]
    BY <1>0, <1>5 DEF OutQuiet, PpcAck, armCpu, posts
  <2>2. QED
    BY <2>1 DEF HandlerPosts
<1>6. irqWrote'
  BY <1>2, <1>3, <1>4, <1>5, Steps, QuietSteps
<1>7. QED
  BY <1>1, <1>6 DEF HandlerPosts

LEMMA LeavesWithStep == ASSUME Inv, LeavesWith, [Next]_vars PROVE LeavesWith'
<1>1. CASE UNCHANGED <<main, served>>
  BY <1>1 DEF LeavesWith
<1>2. CASE Main
  BY <1>2, CarrierTypes DEF Main, LeavesWith, MainTake, ProcessSlow, ProcessMute, ProcessNand, ProcessBoot,
     MainFlush, MainAdvance, MainLeave, MainIdle, MainKill, MainRecheck, MainWait, MainRestore,
     Inv, ControlInv
<1>3. QED
  BY <1>1, <1>2, LeavingSteps

(* ipc_flush: nothing is being posted, and the PowerPC has read it all. *)
LEMMA FlushEmpties == ASSUME Inv, MainFlush PROVE ppcMsg.head = armMsg.tail
<1>1. ~Posting("main") /\ irq = "off"
  BY DEF MainFlush, MainRuns, Runs
<1>2. ~Posting("irq")
  BY <1>1 DEF Inv, ControlInv
<1>3. ~Publishing
  BY <1>1, <1>2 DEF Publishing, Posting, Contexts
<1>4. QED
  BY <1>3 DEF MainFlush, Inv, RegistersInv

(* Once no reply to a boot2 request is in the ring, none comes in. *)
LEMMA FlushedKept ==
    ASSUME Inv, OutInv, HandlerPosts, Flushed, [Next]_vars, main \in {"leave", "left"}
    PROVE  Flushed'
<1> USE SizesAssumption
<1>1. /\ ppcMsg.head \in 0 .. OutSize - 1 /\ armMsg.tail \in 0 .. OutSize - 1
      /\ outTail \in 0 .. OutSize - 1
      /\ outQ \in [0 .. OutSize - 1 -> Request \cup {None}]
  BY CarrierTypes DEF Message
<1>2. ASSUME NEW c \in Contexts, PostWrite(c) PROVE Flushed'
  <2>1. /\ outQ' = [outQ EXCEPT ![armMsg.tail] = reply[c]]
        /\ armMsg' = armMsg /\ ppcMsg' = ppcMsg
    BY <1>2, PostWriteOut DEF PostWrite
  <2>2. ASSUME NEW i \in 0 .. OutSize - 1, Occupied(i, ppcMsg.head, armMsg.tail)
        PROVE  outQ'[i] = outQ[i]
    BY <1>1, <2>1, <2>2, OccupiedEnds
  <2>3. QED
    BY <2>1, <2>2 DEF Flushed
<1>3. ASSUME NEW c \in Contexts, PostPoke(c) PROVE Flushed'
  <2>1. /\ outQ' = outQ /\ ppcMsg' = ppcMsg
        /\ armMsg'.tail = Succ(armMsg.tail, OutSize)
        /\ ~IsFull(ppcMsg.head, armMsg.tail, OutSize)
    BY <1>3, PostPokeOut DEF PostPoke
  <2>2. c = "irq"
    BY <1>3 DEF PostPoke, Posting, Inv, ControlInv, Contexts
  <2>3. outQ[armMsg.tail].kind # "boot2"
    BY <1>3, <2>2 DEF PostPoke, HandlerPosts
  <2>4. ASSUME NEW i \in 0 .. OutSize - 1, Occupied(i, ppcMsg.head, Succ(armMsg.tail, OutSize))
        PROVE  Occupied(i, ppcMsg.head, armMsg.tail) \/ i = armMsg.tail
    BY <1>1, <2>1, <2>4, OccupiedPut
  <2>5. QED
    BY <2>1, <2>3, <2>4 DEF Flushed
<1>4. CASE PpcAck
  <2>1. /\ outQ' = outQ /\ armMsg' = armMsg
        /\ ppcMsg'.head = Succ(ppcMsg.head, OutSize) /\ ppcMsg.head # armMsg.tail
    BY <1>4, PpcAckOut DEF PpcAck
  <2>2. ASSUME NEW i \in 0 .. OutSize - 1, Occupied(i, Succ(ppcMsg.head, OutSize), armMsg.tail)
        PROVE  Occupied(i, ppcMsg.head, armMsg.tail)
    BY <1>1, <2>1, <2>2, OccupiedGet
  <2>3. QED
    BY <2>1, <2>2 DEF Flushed
<1>5. ASSUME NEW c \in Contexts, PostRead(c) PROVE Flushed'
  BY <1>5 DEF PostRead, Flushed
<1>6. CASE OutQuiet
  BY <1>6 DEF OutQuiet, Flushed
<1>7. QED
  BY <1>2, <1>3, <1>4, <1>5, <1>6, Steps, QuietSteps

(* ipc_flush ends when the ring of replies is empty. *)
LEMMA FlushedFirstStep ==
    ASSUME Inv, OutInv, LeaveInv, [Next]_vars
    PROVE  FlushedFirst'
<1>1. CASE MainFlush
  <2>1. ppcMsg.head = armMsg.tail /\ UNCHANGED <<ppcMsg, armMsg>>
    BY <1>1, FlushEmpties DEF MainFlush, rings
  <2>2. ~\E i \in 0 .. OutSize - 1 : Occupied(i, ppcMsg.head, armMsg.tail)'
    BY <2>1, CarrierTypes, SizesAssumption DEF Occupied, Message
  <2>3. QED
    BY <2>2 DEF FlushedFirst, Flushed
<1>2. CASE ProcessMute
  BY <1>2 DEF ProcessMute, FlushedFirst
<1>3. ASSUME ~MainFlush, ~ProcessMute, main' \in {"leave", "left"}
      PROVE  main \in {"leave", "left"} /\ served' = served
  BY <1>3, LeavingSteps DEF Main, MainTake, ProcessSlow, ProcessNand, ProcessBoot,
     MainAdvance, MainLeave, MainIdle, MainKill, MainRecheck, MainWait, MainRestore
<1>4. QED
  BY <1>1, <1>2, <1>3, FlushedKept DEF FlushedFirst, LeaveInv

(* LeaveInv holds at first, and holds on. *)
LEMMA LeaveInit == Init => LeaveInv
BY DEF Init, LeaveInv, NandKind, HandlerPosts, LeavesWith, FlushedFirst, Posting, Contexts

LEMMA LeaveKept == ASSUME Inv, OutInv, LeaveInv, [Next]_vars PROVE LeaveInv'
BY NandKindStep, HandlerPostsStep, LeavesWithStep, FlushedFirstStep DEF LeaveInv

(* A reply in the ring with the id of the request to leave is its reply. *)
LEMMA RepliedWhenLeft ==
    ASSUME Inv, CallInv, LeaveInv
    PROVE  RepliedBeforeLeaving
<1>1. SUFFICES ASSUME main = "left", served.kind = "boot2", NEW k \in DOMAIN OutFlight,
                      OutFlight[k].id = served.id
               PROVE  FALSE
  BY DEF RepliedBeforeLeaving
<1>2. /\ ppcMsg.head \in 0 .. OutSize - 1 /\ armMsg.tail \in 0 .. OutSize - 1
  BY CarrierTypes DEF Message
<1>3. k \in 1 .. Used(ppcMsg.head, armMsg.tail, OutSize)
  BY DEF OutFlight, Contents
<1>4. PICK i \in 0 .. OutSize - 1 : Occupied(i, ppcMsg.head, armMsg.tail) /\ OutFlight[k] = outQ[i]
  BY <1>2, <1>3, SizesAssumption, IndexOccupied DEF OutFlight, Contents
<1>5. outQ[i] \in Request /\ Seen(outQ[i]) /\ outQ[i].kind # "boot2"
  BY <1>1, <1>4 DEF CallInv, OutSlots, Seen, LeaveInv, FlushedFirst, Flushed
<1>6. served \in Request /\ Seen(served)
  BY <1>1 DEF LeaveInv, LeavesWith, Seen
<1>7. served.id # 0
  <2>1. \A m : Seen(m) => (m.id = 0 <=> m.kind \in ArmKinds)
    BY DEF CallInv, Numbered
  <2>2. served.kind \notin ArmKinds
    BY <1>1 DEF ArmKinds
  <2>3. QED
    BY <1>6, <2>1, <2>2
<1>8. outQ[i] = served
  BY <1>1, <1>4, <1>5, <1>6, <1>7 DEF CallInv, IdsDiffer
<1>9. QED
  BY <1>1, <1>5, <1>8

(***************************************************************************)
(* When the ARM has left for boot2 the PowerPC has taken the reply, for    *)
(* rings of every size and whatever the handler posts meanwhile.           *)
(***************************************************************************)
THEOREM BootReplied == Spec => []RepliedBeforeLeaving
<1>1. Init => LeaveInv
  BY LeaveInit
<1>2. Inv /\ OutInv /\ LeaveInv /\ [Next]_vars => LeaveInv'
  BY LeaveKept
<1>3. Inv /\ CallInv /\ LeaveInv => RepliedBeforeLeaving
  BY RepliedWhenLeft
<1>4. QED
  BY <1>1, <1>2, <1>3, CallInvariant, PTL DEF Spec

-----------------------------------------------------------------------------
(* The client's requests are done in order. *)

(***************************************************************************)
(* The first program's requests, in the order of their ids: so many are    *)
(* published; so many of these the handler is done with.  It has executed  *)
(* each of them, or passed on the one the PowerPC is waiting for.          *)
(***************************************************************************)
IsDone(id) == \E k \in DOMAIN done : done[k] = id

Settled(id) == IsDone(id) \/ (request # None /\ request.tag # 0 /\ request.id = id)

Published == IF PpcHas THEN nextId - 2 ELSE nextId - 1

Passed == Published - Len(InFlight)

Handled == IF irq = "advance" THEN Passed + 1 ELSE Passed

(* The ring holds the latest requests, in order. *)
Consecutive == \A k \in 1 .. Len(InFlight) : InFlight[k].id = Passed + k

HandledSettled == \A id \in 1 .. Handled : Settled(id)

(* Where a request is that the ARM has executed: it is a reply. *)
Sent(m) ==
    /\ m \in Request
    /\ \/ m \in {received, nandReq}
       \/ \E c \in Contexts : reply[c] = m
       \/ \E i \in 0 .. OutSize - 1 : outQ[i] = m

SentDone == \A m : Sent(m) /\ m.id # 0 => IsDone(m.id)

TaggedDone == \A m : Seen(m) /\ m.id # 0 /\ m.tag # 0 => IsDone(m.id) \/ m = request

UntaggedFast == \A m : Seen(m) /\ m.id # 0 /\ m.tag = 0 => m.kind \in FastKinds

OffEmpty == ppc = "off" => InEmpty

OrderInv ==
    /\ FirstProgram /\ Consecutive /\ HandledSettled
    /\ SentDone /\ TaggedDone /\ UntaggedFast /\ OffEmpty

FirstRuns == [ppc' \notin {"init", "reset"}]_ppc

-----------------------------------------------------------------------------
(* What is done stays done. *)
LEMMA DoneGrows ==
    ASSUME Inv, [Next]_vars
    PROVE  /\ done' = done \/ \E id \in Nat : done' = Append(done, id)
           /\ \A id : IsDone(id) => IsDone(id)'
<1> USE IdTypes
<1>1. \/ done' = done
      \/ \E r \in Request : done' = Append(done, r.id)
  <2>1. ASSUME NEW c \in Contexts, Post(c) PROVE done' = done
    BY <2>1 DEF Post, PostKill, PostWrite, PostRead, PostPoke, PostRestore
  <2>2. CASE ProcessSlow \/ ProcessMute \/ ProcessNand \/ ProcessBoot
    BY <2>2 DEF ProcessSlow, ProcessMute, ProcessNand, ProcessBoot, Execute, Inv, ControlInv
  <2>3. CASE MainTake \/ MainFlush \/ MainAdvance \/ MainLeave \/ MainIdle \/ MainKill
             \/ MainRecheck \/ MainWait \/ MainRestore
    BY <2>3 DEF MainTake, MainFlush, MainAdvance, MainLeave, MainIdle, MainKill, MainRecheck,
       MainWait, MainRestore
  <2>4. CASE IrqProcessIn
    <3>1. inQ[inHead] \in Request
      BY <2>4, OccupiedEnds DEF IrqProcessIn, InEmpty, Inv, SlotsInv
    <3>2. QED
      BY <2>4, <3>1 DEF IrqProcessIn, Execute
  <2>5. CASE IrqTimer \/ IrqEnter \/ IrqNand \/ IrqBell \/ IrqDrained \/ IrqAdvance \/ IrqSdhc
    BY <2>5 DEF IrqTimer, IrqEnter, IrqNand, IrqBell, IrqDrained, IrqAdvance, IrqSdhc
  <2>6. CASE NandComplete \/ CardChange \/ Alarm \/ UNCHANGED vars
    BY <2>6 DEF NandComplete, CardChange, Alarm, vars
  <2>7. CASE PpcCall \/ PpcShutdown \/ PpcRun
    BY <2>7 DEF PpcCall, Call, PpcShutdown, PpcRun, PpcInit, PpcWrite, PpcPoke, PpcBell,
       PpcReceive, PpcAck, PpcDiscard, PpcReturn, PpcFlush
  <2>8. QED
    BY <2>1, <2>2, <2>3, <2>4, <2>5, <2>6, <2>7 DEF Next, Arm, Main, Irq
<1>2. done' = done \/ \E id \in Nat : done' = Append(done, id)
  BY <1>1, RequestId, BoundsAssumption
<1>3. ASSUME NEW id, IsDone(id) PROVE IsDone(id)'
  <2>1. PICK k \in DOMAIN done : done[k] = id
    BY <1>3 DEF IsDone
  <2>2. k \in DOMAIN done' /\ done'[k] = id
    <3>1. done \in Seq(Nat)
      OBVIOUS
    <3>2. ASSUME NEW last \in Nat, done' = Append(done, last)
          PROVE  k \in DOMAIN done' /\ done'[k] = done[k]
      BY SMTT(20), <2>1, <3>1, <3>2
    <3>3. QED
      BY <1>2, <2>1, <3>2
  <2>3. QED
    BY <2>2 DEF IsDone
<1>4. QED
  BY <1>2, <1>3

(* Three steps execute a request, and only those. *)
LEMMA Executes ==
    ASSUME Inv, NEW r \in Request, Execute(r)
    PROVE  \E k \in DOMAIN done' : done'[k] = r.id
<1>1. done \in Seq(Nat) /\ done' = Append(done, r.id)
  BY IdTypes DEF Execute
<1>2. Len(done) + 1 \in DOMAIN done' /\ done'[Len(done) + 1] = r.id
  BY <1>1
<1>3. QED
  BY <1>2

(* A reply is sent for what was sent, or is executed now. *)
LEMMA SentStart ==
    ASSUME Inv, NEW c \in Contexts, NEW r \in Request, StartPost(c, r),
           UNCHANGED <<outQ>>, received' \in {received, None}, nandReq' \in {nandReq, r, None},
           NEW m, Sent(m)'
    PROVE  Sent(m) \/ m = r
BY CarrierTypes, NoneAssumption DEF StartPost, Sent

(* What is sent was sent before, or has just been executed. *)
LEMMA SentStep ==
    ASSUME Inv, OutInv, CallInv, [Next]_vars, NEW m, Sent(m)'
    PROVE  Sent(m) \/ IsDone(m.id)'
<1> USE CarrierTypes, NoneAssumption
<1>1. ASSUME NEW c \in Contexts, Post(c) PROVE Sent(m)
  <2>1. CASE PostWrite(c)
    BY <2>1 DEF PostWrite, Sent, nand, ppcCpu
  <2>2. CASE PostRestore(c)
    BY <2>2 DEF PostRestore, Sent, nand, ppcCpu, rings
  <2>3. CASE PostKill(c) \/ PostRead(c) \/ PostPoke(c)
    BY <2>3 DEF PostKill, PostRead, PostPoke, Sent, nand, ppcCpu, rings
  <2>4. QED
    BY <1>1, <2>1, <2>2, <2>3 DEF Post
<1>2. CASE ProcessSlow \/ ProcessNand \/ ProcessBoot
  <2>1. served \in Request /\ Execute(served) /\ "main" \in Contexts
    BY <1>2 DEF ProcessSlow, ProcessNand, ProcessBoot, Inv, ControlInv, Contexts
  <2>2. /\ outQ' = outQ /\ received' \in {received, None} /\ nandReq' \in {nandReq, served}
        /\ UNCHANGED posts \/ StartPost("main", served)
    BY <1>2 DEF ProcessSlow, ProcessNand, ProcessBoot, PowerpcBoot, PowerpcHang, rings, nand, ppcCpu
  <2>3. Sent(m) \/ m = served
    <3>1. CASE UNCHANGED posts
      BY <2>1, <2>2, <3>1 DEF Sent, posts
    <3>2. CASE StartPost("main", served)
      BY <2>1, <2>2, <3>2, SentStart
    <3>3. QED
      BY <2>2, <3>1, <3>2
  <2>4. m = served => IsDone(m.id)'
    BY <2>1, Executes DEF IsDone
  <2>5. QED
    BY <2>3, <2>4
<1>3. CASE IrqNand
  <2>1. /\ UNCHANGED <<outQ, received>> /\ nandReq' \in {nandReq, None} /\ "irq" \in Contexts
        /\ UNCHANGED reply \/ (StartPost("irq", nandReq) /\ nandReq # None)
    BY <1>3 DEF IrqNand, posts, rings, ppcCpu, Contexts
  <2>2. CASE UNCHANGED reply
    BY <2>1, <2>2 DEF Sent
  <2>3. CASE StartPost("irq", nandReq) /\ nandReq # None
    <3>1. nandReq \in Request /\ Sent(nandReq)
      BY <2>3 DEF Sent
    <3>2. QED
      BY <2>1, <2>3, <3>1, SentStart
  <2>4. QED
    BY <2>1, <2>2, <2>3
<1>4. CASE IrqProcessIn
  <2>1. inQ[inHead] \in Request /\ "irq" \in Contexts
    BY <1>4, IdTypes, OccupiedEnds DEF IrqProcessIn, InEmpty, Inv, SlotsInv, Contexts
  <2>2. UNCHANGED <<outQ, received, nandReq>>
    BY <1>4 DEF IrqProcessIn, nand, ppcCpu
  <2>3. UNCHANGED posts \/ (StartPost("irq", inQ[inHead]) /\ Execute(inQ[inHead]))
    BY <1>4 DEF IrqProcessIn
  <2>4. m = inQ[inHead] /\ Execute(inQ[inHead]) => IsDone(m.id)'
    BY <2>1, Executes DEF IsDone
  <2>5. QED
    BY <2>1, <2>2, <2>3, <2>4, SentStart DEF Sent, posts
<1>5. CASE PpcReceive
  BY <1>5 DEF PpcReceive, Sent, rings, armCpu, posts, nand
<1>6. CASE PpcDiscard \/ PpcCall
  BY <1>6 DEF PpcDiscard, PpcCall, Call, Sent, rings, armCpu, posts, nand
<1>7. CASE IrqTimer
  BY <1>7 DEF IrqTimer, GeckoReceive, GeckoGiveUp, GeckoComplete, PowerpcHang, Sent, posts, nand, ppcCpu
<1>8. CASE MainTake \/ ProcessMute \/ MainFlush \/ MainAdvance \/ MainLeave \/ MainIdle
           \/ MainKill \/ MainRecheck \/ MainWait \/ MainRestore
  BY <1>8 DEF MainTake, ProcessMute, MainFlush, MainAdvance, MainLeave, MainIdle, MainKill,
     MainRecheck, MainWait, MainRestore, Sent, rings, posts, nand, ppcCpu
<1>9. CASE IrqEnter \/ IrqBell \/ IrqDrained \/ IrqAdvance \/ IrqSdhc
  BY <1>9 DEF IrqEnter, IrqBell, IrqDrained, IrqAdvance, IrqSdhc, Sent, rings, posts, nand, ppcCpu
<1>10. CASE NandComplete \/ CardChange \/ Alarm \/ UNCHANGED vars
  BY <1>10 DEF NandComplete, CardChange, Alarm, vars, armCpu, Sent, rings, posts, nand, ppcCpu
<1>11. CASE PpcShutdown \/ PpcInit \/ PpcWrite \/ PpcPoke \/ PpcBell \/ PpcAck \/ PpcReturn \/ PpcFlush
  BY <1>11 DEF PpcShutdown, PpcInit, PpcWrite, PpcPoke, PpcBell, PpcAck, PpcReturn, PpcFlush,
     armCpu, Sent, rings, posts, nand
<1>12. QED
  BY <1>1, <1>2, <1>3, <1>4, <1>5, <1>6, <1>7, <1>8, <1>9, <1>10, <1>11
     DEF Next, Arm, Main, Irq, PpcRun

-----------------------------------------------------------------------------
(* A first program that is not stopped is not halted. *)
LEMMA FirstHalt ==
    ASSUME CallInv, FirstProgram, FirstRuns, Halt
    PROVE  ppc = "init" /\ ppc' = "init" /\ request = None /\ nextId = 1
BY DEF FirstRuns, Halt, Stopped, FirstProgram, CallInv, OneCall, Active

(* The reply that ipc_exchange returns is to a request that is done. *)
LEMMA ReturnIsDone ==
    ASSUME Inv, CallInv, FirstProgram, SentDone, ppc = "match", Matches
    PROVE  /\ request \in Request /\ request.id \in Nat /\ request.id = nextId - 1 /\ request.id >= 1
           /\ request.id = received.id /\ IsDone(request.id)
<1>1. /\ request \in Request /\ received \in Request
  BY DEF Inv, PpcInv, CallInv, Received
<1>2. /\ request.id \in Nat /\ request.id = nextId - 1 /\ request.id >= 1
  BY <1>1, NoneAssumption, RequestId, BoundsAssumption DEF CallInv, OneCall
<1>3. received.id = request.id
  BY OwnInFirst DEF OwnReply, PpcAt
<1>4. Sent(received) /\ received.id # 0
  BY <1>1, <1>2, <1>3 DEF Sent
<1>5. QED
  BY <1>1, <1>2, <1>3, <1>4 DEF SentDone

(* What is settled stays settled. *)
LEMMA SettledStays ==
    ASSUME Inv, CallInv, FirstProgram, SentDone, [Next]_vars, FirstRuns, NEW id, Settled(id)
    PROVE  Settled(id)'
<1>1. IsDone(id) => IsDone(id)'
  BY DoneGrows
<1>2. CASE PpcCall
  BY <1>1, <1>2, NewCall DEF Settled, CallInv, OneCall, Active
<1>3. CASE PpcReturn
  BY <1>1, <1>3, ReturnIsDone DEF PpcReturn, PpcAt, Settled
<1>4. CASE PpcBell
  BY <1>1, <1>4 DEF PpcBell, Settled
<1>5. CASE Halt
  BY <1>1, <1>5, FirstHalt DEF Settled
<1>6. CASE PpcInit \/ Steady
  BY <1>1, <1>6 DEF PpcInit, Steady, Settled
<1>7. QED
  BY <1>2, <1>3, <1>4, <1>5, <1>6, CallSteps

(* The parts of OrderInv about what is sent, tagged or fast hold on. *)
LEMMA SentDoneStep == ASSUME Inv, OutInv, CallInv, SentDone, [Next]_vars PROVE SentDone'
<1>1. ASSUME NEW m, Sent(m)', m.id # 0 PROVE IsDone(m.id)'
  <2>1. Sent(m) \/ IsDone(m.id)'
    BY <1>1, SentStep
  <2>2. Sent(m) => IsDone(m.id)
    BY <1>1 DEF SentDone
  <2>3. IsDone(m.id) => IsDone(m.id)'
    BY DoneGrows
  <2>4. QED
    BY <2>1, <2>2, <2>3
<1>2. QED
  BY <1>1 DEF SentDone

LEMMA TaggedDoneStep ==
    ASSUME Inv, CallInv, FirstProgram, SentDone, TaggedDone, [Next]_vars, FirstRuns
    PROVE  TaggedDone'
<1>1. SUFFICES ASSUME NEW m, Seen(m)', m.id # 0, m.tag # 0
               PROVE  IsDone(m.id)' \/ m = request'
  BY DEF TaggedDone
<1>2. Seen(m) \/ (PpcCall /\ m = request')
  BY <1>1, SeenStep DEF New, FromArm
<1>3. Seen(m) => IsDone(m.id) \/ m = request
  BY <1>1 DEF TaggedDone
<1>4. m = request /\ m # None => Settled(m.id)
  BY <1>1 DEF Settled
<1>5. IsDone(m.id) => IsDone(m.id)'
  BY DoneGrows
<1>6. m \in Request /\ m # None
  BY <1>1, NoneAssumption DEF Seen
<1>7. CASE PpcCall
  BY <1>2, <1>3, <1>5, <1>6, <1>7, NewCall DEF CallInv, OneCall, Active
<1>8. CASE PpcReturn
  BY <1>2, <1>3, <1>5, <1>8, ReturnIsDone DEF PpcReturn, PpcAt, PpcCall, Call
<1>9. CASE PpcBell
  BY <1>1, <1>2, <1>3, <1>5, <1>9 DEF PpcBell, PpcAt, PpcCall, Call
<1>10. CASE Halt /\ ~PpcCall
  BY <1>2, <1>3, <1>5, <1>6, <1>10, FirstHalt
<1>11. CASE (PpcInit \/ Steady) /\ ~PpcCall
  BY <1>2, <1>3, <1>5, <1>11 DEF PpcInit, Steady
<1>12. QED
  BY <1>7, <1>8, <1>9, <1>10, <1>11, CallSteps

LEMMA UntaggedFastStep ==
    ASSUME Inv, UntaggedFast, PostKinds \subseteq FastKinds, [Next]_vars
    PROVE  UntaggedFast'
<1>1. SUFFICES ASSUME NEW m, Seen(m)', m.id # 0, m.tag = 0
               PROVE  m.kind \in FastKinds
  BY DEF UntaggedFast
<1>2. Seen(m) \/ (PpcCall /\ m = request')
  BY <1>1, SeenStep DEF New, FromArm
<1>3. CASE Seen(m)
  BY <1>1, <1>3 DEF UntaggedFast
<1>4. CASE PpcCall /\ m = request'
  BY <1>1, <1>4, CarrierTypes DEF PpcCall, Call
<1>5. QED
  BY <1>2, <1>3, <1>4

-----------------------------------------------------------------------------
(* How many requests are published changes with the ring only. *)
LEMMA PublishedStep ==
    ASSUME Inv, CallInv, FirstProgram, [Next]_vars, FirstRuns
    PROVE  /\ Published \in Int
           /\ Published' = IF PpcPoke THEN Published + 1 ELSE Published
<1> USE DEF Published, PpcHas
<1>1. nextId \in Nat
  BY CarrierTypes
<1>2. CASE PpcCall
  BY <1>1, <1>2, NewCall DEF PpcCall, Call, PpcPoke, PpcAt
<1>3. CASE PpcPoke
  BY <1>1, <1>3 DEF PpcPoke, PpcAt
<1>4. CASE PpcInit \/ PpcReturn \/ PpcBell
  BY <1>1, <1>4 DEF PpcInit, PpcReturn, PpcBell, PpcPoke, PpcAt
<1>5. CASE Halt
  BY <1>1, <1>5, FirstHalt DEF Halt, PpcPoke, PpcAt
<1>6. CASE Steady /\ ~PpcPoke
  <2>1. (ppc \in {"room", "poke"}) <=> (ppc' \in {"room", "poke"})
    <3>1. CASE PpcWrite \/ PpcShutdown \/ PpcReceive \/ PpcAck \/ PpcDiscard \/ PpcFlush
      BY <3>1 DEF PpcWrite, PpcShutdown, PpcReceive, PpcAck, PpcDiscard, PpcFlush, PpcAt
    <3>2. CASE PpcCall \/ PpcInit \/ PpcReturn \/ PpcBell
      BY <1>1, <1>6, <3>2 DEF PpcCall, Call, PpcInit, PpcReturn, PpcBell, PpcAt, Steady, Stopped
    <3>3. ASSUME NEW c \in Contexts, Post(c) PROVE ppc' = ppc
      BY <3>3 DEF Post, PostKill, PostWrite, PostRead, PostPoke, PostRestore, ppcCpu
    <3>4. CASE ProcessBoot \/ IrqTimer
      BY <1>6, <3>4 DEF ProcessBoot, IrqTimer, GeckoReceive, GeckoGiveUp, GeckoComplete, PowerpcHang,
         PowerpcBoot, ppcCpu, Steady, Stopped
    <3>5. CASE MainTake \/ ProcessSlow \/ ProcessMute \/ ProcessNand \/ MainFlush \/ MainAdvance
               \/ MainLeave \/ MainIdle \/ MainKill \/ MainRecheck \/ MainWait \/ MainRestore
      BY <3>5 DEF MainTake, ProcessSlow, ProcessMute, ProcessNand, MainFlush, MainAdvance, MainLeave,
         MainIdle, MainKill, MainRecheck, MainWait, MainRestore, ppcCpu
    <3>6. CASE IrqEnter \/ IrqNand \/ IrqBell \/ IrqProcessIn \/ IrqDrained \/ IrqAdvance \/ IrqSdhc
      BY <3>6 DEF IrqEnter, IrqNand, IrqBell, IrqProcessIn, IrqDrained, IrqAdvance, IrqSdhc, ppcCpu
    <3>7. CASE NandComplete \/ CardChange \/ Alarm \/ UNCHANGED vars
      BY <3>7 DEF NandComplete, CardChange, Alarm, vars, ppcCpu
    <3>8. QED
      BY <1>6, <3>1, <3>2, <3>3, <3>4, <3>5, <3>6, <3>7 DEF Next, Arm, Main, Irq, PpcRun
  <2>2. QED
    BY <1>1, <1>6, <2>1 DEF Steady
<1>7. QED
  BY <1>2, <1>3, <1>4, <1>5, <1>6, CallSteps

(* When the handler takes a request it settles it. *)
LEMMA HandlerSteps ==
    ASSUME [Next]_vars
    PROVE  \/ IrqProcessIn /\ irq = "drain" /\ irq' = "advance"
           \/ IrqAdvance /\ irq = "advance" /\ irq' = "drain"
           \/ ~IrqProcessIn /\ ~IrqAdvance /\ (irq' = "advance" <=> irq = "advance")
<1>1. ASSUME NEW c \in Contexts, Post(c) PROVE irq' = irq
  BY <1>1 DEF Post, PostKill, PostWrite, PostRead, PostPoke, PostRestore
<1>2. ASSUME Main PROVE irq' = irq
  BY <1>2 DEF Main, MainTake, ProcessSlow, ProcessMute, ProcessNand, ProcessBoot, MainFlush,
     MainAdvance, MainLeave, MainIdle, MainKill, MainRecheck, MainWait, MainRestore
<1>3. ASSUME NandComplete \/ CardChange \/ Alarm \/ UNCHANGED vars PROVE irq' = irq
  BY <1>3 DEF NandComplete, CardChange, Alarm, vars, armCpu
<1>4. ASSUME PpcCall \/ PpcShutdown \/ PpcRun PROVE irq' = irq
  BY <1>4 DEF PpcCall, Call, PpcShutdown, PpcRun, PpcInit, PpcWrite, PpcPoke, PpcBell,
     PpcReceive, PpcAck, PpcDiscard, PpcReturn, PpcFlush, armCpu
<1>5. CASE IrqProcessIn
  BY <1>5 DEF IrqProcessIn
<1>6. CASE IrqAdvance
  BY <1>6 DEF IrqAdvance
<1>7. ASSUME irq' = irq PROVE ~IrqProcessIn /\ ~IrqAdvance
  BY <1>7 DEF IrqProcessIn, IrqAdvance
<1>8. CASE IrqTimer \/ IrqEnter \/ IrqNand \/ IrqBell \/ IrqDrained \/ IrqSdhc
  BY <1>8 DEF IrqTimer, IrqEnter, IrqNand, IrqBell, IrqDrained, IrqSdhc, IrqProcessIn, IrqAdvance, Runs
<1>9. QED
  BY <1>1, <1>2, <1>3, <1>4, <1>5, <1>6, <1>7, <1>8 DEF Next, Arm, Irq

(* The ring of requests holds requests, as many as are in use. *)
LEMMA InFlightType ==
    ASSUME Inv
    PROVE  /\ Len(InFlight) \in Nat /\ InFlight \in Seq(Request)
           /\ Len(InFlight) = Used(inHead, ppcMsg.tail, InSize)
           /\ \A k \in 1 .. Len(InFlight) :
                 InFlight[k] = inQ[Index(inHead, k - 1, InSize)]
           /\ ~InEmpty => Len(InFlight) >= 1 /\ InFlight[1] = inQ[inHead]
           /\ InEmpty => Len(InFlight) = 0
<1> USE IdTypes
<1>1. Len(InFlight) = Used(inHead, ppcMsg.tail, InSize) /\ Len(InFlight) \in Nat
  BY SMTT(20), ContentsLength DEF InFlight
<1>2. InFlight = [k \in 1 .. Len(InFlight) |-> inQ[Index(inHead, k - 1, InSize)]]
  BY <1>1 DEF InFlight, Contents
<1>3. ASSUME NEW k \in 1 .. Len(InFlight) PROVE inQ[Index(inHead, k - 1, InSize)] \in Request
  BY <1>1, <1>3, IndexOccupied DEF Inv, SlotsInv
<1>4. InFlight \in Seq(Request)
  <2>1. InFlight \in [1 .. Len(InFlight) -> Request]
    BY <1>2, <1>3
  <2>2. QED
    BY <1>1, <2>1
<1>5. ~InEmpty => Len(InFlight) >= 1 /\ InFlight[1] = inQ[inHead]
  BY SMTT(20), <1>1, <1>2 DEF InEmpty, Used, Index
<1>6. InEmpty => Len(InFlight) = 0
  BY <1>1 DEF InEmpty, Used
<1>7. QED
  BY <1>1, <1>2, <1>4, <1>5, <1>6

(* The ring keeps the latest requests in order. *)
LEMMA ConsecutiveStep ==
    ASSUME Inv, CallInv, FirstProgram, Consecutive, [Next]_vars, FirstRuns
    PROVE  Consecutive' /\ Handled \in Int /\ Handled' = IF IrqProcessIn THEN Handled + 1 ELSE Handled
<1> USE DEF Passed, Handled
<1>1. Published \in Int /\ Published' = IF PpcPoke THEN Published + 1 ELSE Published
  BY PublishedStep
<1>2. Len(InFlight) \in Nat /\ InFlight \in Seq(Request)
  BY InFlightType
<1>3. ~(PpcPoke /\ (IrqProcessIn \/ IrqAdvance)) /\ ~(IrqProcessIn /\ IrqAdvance)
  BY DEF PpcPoke, IrqProcessIn, IrqAdvance, armCpu
<1>4. CASE PpcPoke
  <2>1. /\ InFlight' = Append(InFlight, request) /\ request \in Request
        /\ Len(InFlight') = Len(InFlight) + 1
    BY <1>3, <1>4, InMoves
  <2>2. request.id = nextId - 1 /\ Published = nextId - 2 /\ nextId \in Nat
    BY <1>4, <2>1, NoneAssumption, CarrierTypes DEF CallInv, OneCall, PpcPoke, PpcAt, Published, PpcHas
  <2>3. ASSUME NEW k \in 1 .. Len(InFlight) + 1
        PROVE  InFlight'[k].id = Published + 1 - (Len(InFlight) + 1) + k
    <3>1. CASE k \in 1 .. Len(InFlight)
      <4>1. InFlight'[k] = InFlight[k]
        BY <1>2, <2>1, <3>1
      <4>2. QED
        BY <1>1, <1>2, <3>1, <4>1 DEF Consecutive
    <3>2. CASE k = Len(InFlight) + 1
      <4>1. InFlight'[k] = request
        BY <1>2, <2>1, <3>2
      <4>2. QED
        BY <1>1, <1>2, <2>2, <3>2, <4>1
    <3>3. QED
      BY <1>2, <3>1, <3>2
  <2>4. Published' = Published + 1 /\ irq' = irq
    BY <1>1, <1>4 DEF PpcPoke, armCpu
  <2>5. Consecutive'
    <3>1. ASSUME NEW k \in 1 .. Len(InFlight')
          PROVE  InFlight'[k].id = Published' - Len(InFlight') + k
      <4>1. k \in 1 .. Len(InFlight) + 1
        BY <2>1, <3>1
      <4>2. InFlight'[k].id = Published + 1 - (Len(InFlight) + 1) + k
        BY <2>3, <4>1
      <4>3. QED
        BY <1>1, <1>2, <2>1, <2>4, <4>2
    <3>2. QED
      BY <3>1 DEF Consecutive
  <2>6. QED
    BY <1>1, <1>2, <1>3, <1>4, <2>1, <2>4, <2>5
<1>5. CASE IrqAdvance
  <2>1. InFlight # <<>> /\ InFlight' = Tail(InFlight) /\ irq = "advance" /\ irq' = "drain"
    BY <1>3, <1>5, InMoves DEF IrqAdvance
  <2>2. /\ Len(InFlight) >= 1 /\ Len(InFlight') = Len(InFlight) - 1
        /\ \A k \in 1 .. Len(InFlight) - 1 : InFlight'[k] = InFlight[k + 1]
    BY <1>2, <2>1
  <2>3. ASSUME NEW k \in 1 .. Len(InFlight) - 1
        PROVE  InFlight'[k].id = Published - (Len(InFlight) - 1) + k
    <3>1. InFlight'[k] = InFlight[k + 1] /\ k + 1 \in 1 .. Len(InFlight)
      BY <1>2, <2>2
    <3>2. QED
      BY <1>1, <1>2, <3>1 DEF Consecutive
  <2>4. Published' = Published
    BY <1>1, <1>3, <1>5
  <2>5. Consecutive'
    BY <2>2, <2>3, <2>4 DEF Consecutive
  <2>6. QED
    BY <1>1, <1>2, <1>3, <1>5, <2>1, <2>2, <2>4, <2>5
<1>6. CASE ~PpcPoke /\ ~IrqAdvance
  <2>1. InFlight' = InFlight /\ Published' = Published
    BY <1>1, <1>6, InMoves
  <2>2. Consecutive'
    BY <2>1 DEF Consecutive
  <2>3. QED
    BY <1>1, <1>2, <1>6, <2>1, <2>2, HandlerSteps
<1>7. QED
  BY <1>4, <1>5, <1>6

(* The handler settles the requests in order. *)
LEMMA HandledSettledStep ==
    ASSUME Inv, CallInv, IdsInv, OrderInv, [Next]_vars, FirstRuns
    PROVE  HandledSettled'
<1>1. Handled \in Int /\ Handled' = IF IrqProcessIn THEN Handled + 1 ELSE Handled
  BY ConsecutiveStep DEF OrderInv
<1>2. ASSUME NEW id \in 1 .. Handled PROVE Settled(id)'
  BY <1>2, SettledStays DEF OrderInv, HandledSettled
<1>3. ASSUME IrqProcessIn, NEW id, id = Handled + 1 PROVE Settled(id)'
  <2> DEFINE r == inQ[inHead]
  <2>1. irq = "drain" /\ ~InEmpty /\ request' = request
    BY <1>3 DEF IrqProcessIn, ppcCpu
  <2>2. Len(InFlight) \in Nat /\ Len(InFlight) >= 1 /\ InFlight[1] = r
    BY <2>1, InFlightType
  <2>3. id = r.id
    BY <1>1, <1>3, <2>1, <2>2 DEF OrderInv, Consecutive, Handled
  <2>4. Occupied(inHead, inHead, ppcMsg.tail)
    BY <2>1, OccupiedEnds, IdTypes DEF InEmpty
  <2>5. r \in Request /\ Seen(r)
    BY <2>4, IdTypes DEF Inv, SlotsInv, Seen
  <2>6. r.id # 0 /\ ~IsDone(r.id)
    BY <2>1, <2>4, IdTypes DEF InHas, IdsInv, IdsIn, IsDone
  <2>7. CASE r.kind \in FastKinds
    <3>1. Execute(r)
      BY <1>3, <2>7 DEF IrqProcessIn
    <3>2. QED
      BY <2>3, <2>5, <3>1, Executes DEF Settled, IsDone
  <2>8. CASE r.kind \notin FastKinds
    <3>1. r.tag # 0
      BY <2>5, <2>6, <2>8 DEF OrderInv, UntaggedFast
    <3>2. r = request
      BY <2>5, <2>6, <3>1 DEF OrderInv, TaggedDone
    <3>3. QED
      BY <2>1, <2>3, <2>5, <3>1, <3>2, NoneAssumption DEF Settled
  <2>9. QED
    BY <2>7, <2>8
<1>4. ASSUME NEW id \in 1 .. Handled' PROVE Settled(id)'
  BY <1>1, <1>2, <1>3, <1>4
<1>5. QED
  BY <1>4 DEF HandledSettled

(* When ipc_shutdown is over the ring of requests stays empty. *)
LEMMA OffEmptyStep == ASSUME Inv, OffEmpty, [Next]_vars PROVE OffEmpty'
<1> USE DEF OffEmpty, InEmpty
<1>1. CASE PpcFlush
  BY <1>1 DEF PpcFlush, PpcAt, rings, armCpu, Inv, PpcInv, RegistersInv
<1>2. CASE IrqAdvance
  BY <1>2 DEF IrqAdvance, ppcCpu, Inv, HeldInv
<1>3. ASSUME ~PpcFlush, ppc' = "off" PROVE ppc = "off" /\ ~PpcPoke /\ ~PpcAck
  <2>1. ASSUME NEW c \in Contexts, Post(c) PROVE ppc' = ppc
    BY <2>1 DEF Post, PostKill, PostWrite, PostRead, PostPoke, PostRestore, ppcCpu
  <2>2. ASSUME Main \/ Irq PROVE ppc = "off"
    <3>1. ASSUME ProcessBoot \/ IrqTimer PROVE ppc = "off"
      BY <1>3, <3>1 DEF ProcessBoot, IrqTimer, GeckoReceive, GeckoGiveUp, GeckoComplete, PowerpcHang,
         PowerpcBoot, ppcCpu
    <3>2. ASSUME Main, ~ProcessBoot PROVE ppc' = ppc
      BY <3>2 DEF Main, MainTake, ProcessSlow, ProcessMute, ProcessNand, MainFlush, MainAdvance,
         MainLeave, MainIdle, MainKill, MainRecheck, MainWait, MainRestore, ppcCpu
    <3>3. ASSUME Irq, ~IrqTimer PROVE ppc' = ppc
      BY <3>3 DEF Irq, IrqEnter, IrqNand, IrqBell, IrqProcessIn, IrqDrained, IrqAdvance, IrqSdhc, ppcCpu
    <3>4. QED
      BY <1>3, <2>2, <3>1, <3>2, <3>3
  <2>3. ASSUME NandComplete \/ CardChange \/ Alarm \/ UNCHANGED vars PROVE ppc' = ppc
    BY <2>3 DEF NandComplete, CardChange, Alarm, vars, ppcCpu
  <2>4. ~(\/ PpcCall \/ PpcShutdown \/ PpcInit \/ PpcWrite \/ PpcPoke \/ PpcBell \/ PpcReceive
          \/ PpcAck \/ PpcDiscard \/ PpcReturn)
    BY <1>3 DEF PpcCall, Call, PpcShutdown, PpcInit, PpcWrite, PpcPoke, PpcBell, PpcReceive,
       PpcAck, PpcDiscard, PpcReturn
  <2>5. ppc = "off"
    BY <1>3, <2>1, <2>2, <2>3, <2>4 DEF Next, Arm, PpcRun
  <2>6. QED
    BY <2>5 DEF PpcPoke, PpcAck, PpcAt
<1>4. ASSUME ~PpcFlush, ~IrqAdvance, ppc' = "off" PROVE InEmpty'
  <2>1. ~PpcPoke /\ ~PpcAck /\ InEmpty
    BY <1>3, <1>4
  <2>2. UNCHANGED rings \/ (inHead' = inHead /\ ppcMsg'.tail = ppcMsg.tail)
    BY <1>4, <2>1, Steps, SilentKeepsRings DEF PostWrite, PostRead, PostPoke, MainAdvance, MainLeave,
       IrqTimer, IrqProcessIn, IrqSdhc, PpcWrite
  <2>3. QED
    BY <2>1, <2>2 DEF rings
<1>5. QED
  BY <1>1, <1>2, <1>4

(* OrderInv holds at first, and holds on. *)
LEMMA OrderInit == Init => OrderInv
<1>1. ASSUME Init PROVE FirstProgram /\ OffEmpty
  BY <1>1 DEF Init, FirstProgram, OffEmpty
<1>2. ASSUME Init, NEW m PROVE ~Seen(m) /\ ~Sent(m)
  BY <1>2, NoneAssumption DEF Init, Seen, Sent, Contexts
<1>3. ASSUME Init PROVE InFlight = <<>> /\ Published = 0 /\ irq # "advance"
  BY <1>3, SizesAssumption DEF Init, InFlight, Contents, Used, Published, PpcHas
<1>4. ASSUME Init PROVE Consecutive /\ HandledSettled
  BY <1>3, <1>4 DEF Consecutive, HandledSettled, Handled, Passed
<1>5. QED
  BY <1>1, <1>2, <1>4 DEF OrderInv, SentDone, TaggedDone, UntaggedFast

LEMMA OrderKept ==
    ASSUME Inv, OutInv, IdsInv, CallInv, OrderInv, PostKinds \subseteq FastKinds, [Next]_vars,
           FirstRuns
    PROVE  OrderInv'
<1> USE DEF OrderInv
<1>1. FirstProgram'
  BY FirstStep DEF FirstRuns
<1>2. Consecutive'
  BY ConsecutiveStep
<1>3. HandledSettled'
  BY HandledSettledStep
<1>4. SentDone' /\ TaggedDone' /\ UntaggedFast' /\ OffEmpty'
  BY SentDoneStep, TaggedDoneStep, UntaggedFastStep, OffEmptyStep
<1>5. QED
  BY <1>1, <1>2, <1>3, <1>4

(* The last request in the ring, but for one the handler is done with, is  *)
(* not executed.                                                           *)
LEMMA LastNotDone ==
    ASSUME Inv, IdsInv, Consecutive, Published \in Int, Handled < Published
    PROVE  ~IsDone(Published)
<1> DEFINE n == Len(InFlight)
           i == Index(inHead, n - 1, InSize)
<1>1. n \in Nat /\ n >= 1 /\ (irq = "advance" => n >= 2)
  BY InFlightType DEF Handled, Passed
<1>2. InFlight[n].id = Published /\ InFlight[n] = inQ[i]
  BY <1>1, InFlightType DEF Consecutive, Passed
<1>3. n \in 1 .. Used(inHead, ppcMsg.tail, InSize) /\ n <= InSize - 1
  <2>1. Used(inHead, ppcMsg.tail, InSize) \in 0 .. InSize - 1
    BY SMTT(20), IdTypes DEF Used
  <2>2. n = Used(inHead, ppcMsg.tail, InSize)
    BY InFlightType
  <2>3. QED
    BY <1>1, <2>1, <2>2
<1>4. i \in 0 .. InSize - 1 /\ Occupied(i, inHead, ppcMsg.tail)
  BY <1>1, <1>3, IdTypes, IndexOccupied
<1>5. irq = "advance" => i # inHead
  BY SMTT(20), <1>1, <1>3, IdTypes DEF Index
<1>6. QED
  BY <1>2, <1>4, <1>5 DEF InHas, IdsInv, IdsIn, IsDone

(* When a call returns, the handler is past it and past all before it. *)
LEMMA DoneInOrder ==
    ASSUME Inv, IdsInv, CallInv, OrderInv
    PROVE  EarlierDone
<1> USE DEF OrderInv
<1>1. Published \in Int /\ nextId \in Nat /\ Len(InFlight) \in Nat /\ firstId = 1
  BY CarrierTypes, InFlightType DEF Published, FirstProgram
<1>2. ASSUME ppc = "match", Matches, NEW id \in firstId .. request.id
      PROVE  IsDone(id)
  <2>1. request.id \in Nat /\ request.id = Published /\ IsDone(request.id)
    BY <1>1, <1>2, ReturnIsDone DEF Published, PpcHas
  <2>2. ~(Handled < Published)
    BY <1>1, <2>1, LastNotDone
  <2>3. id \in 1 .. Handled
    BY <1>1, <1>2, <2>1, <2>2 DEF Handled, Passed
  <2>4. Settled(id)
    BY <2>3 DEF HandledSettled
  <2>5. QED
    BY <2>1, <2>4 DEF Settled
<1>3. ASSUME ppc = "off", NEW id \in firstId .. nextId - 1
      PROVE  IsDone(id)
  <2>1. request = None
    BY <1>3 DEF CallInv, OneCall, Active
  <2>2. Len(InFlight) = 0 /\ Published = nextId - 1
    BY <1>3, InFlightType DEF OffEmpty, Published, PpcHas
  <2>3. id \in 1 .. Handled
    BY <1>1, <1>3, <2>2 DEF Handled, Passed
  <2>4. QED
    BY <2>1, <2>3 DEF HandledSettled, Settled
<1>4. QED
  BY <1>2, <1>3 DEF EarlierDone, AllDone, IsDone, PpcAt

(***************************************************************************)
(* When ipc_exchange or ipc_shutdown returns, the ARM has done all the     *)
(* client sent before, for rings of every size: while nothing stops the    *)
(* PowerPC, and if what the client posts and does not wait for is what the *)
(* interrupt handler does itself.                                          *)
(***************************************************************************)
THEOREM DoneBefore ==
    ASSUME PostKinds \subseteq FastKinds
    PROVE  Spec /\ Undisturbed => []EarlierDone
<1>1. Init => OrderInv
  BY OrderInit
<1>2. /\ Inv /\ OutInv /\ IdsInv /\ CallInv /\ OrderInv
      /\ [Next]_vars /\ [ppc' \notin {"init", "reset"}]_ppc
      => OrderInv'
  BY OrderKept DEF FirstRuns
<1>3. Inv /\ OutInv /\ IdsInv /\ CallInv /\ OrderInv => EarlierDone
  BY DoneInOrder
<1>4. QED
  BY <1>1, <1>2, <1>3, CallInvariant, PTL DEF Spec, Undisturbed

-----------------------------------------------------------------------------
(* Where the ARM stops. *)

(***************************************************************************)
(* A request is with the ARM: in the ring of requests or the slow queue,   *)
(* not yet worked off there, or current_request of the NAND driver; its    *)
(* reply is on the way through ipc_post; the PowerPC can take the reply,   *)
(* or has taken it and not looked at it.                                   *)
(***************************************************************************)
AtArm(r) ==
    \/ \E i \in 0 .. InSize - 1 : InHas(i) /\ inQ[i] = r
    \/ \E j \in 0 .. SlowSize - 1 : SlowHas(j) /\ slowQ[j] = r
    \/ nandReq = r

AtPost(r) == \E c \in Contexts :
    \/ post[c] \in {"kill", "room"} /\ reply[c] = r
    \/ post[c] \in {"read", "poke"} /\ outQ[armMsg.tail] = r

AtPpc(r) ==
    \/ \E i \in 0 .. OutSize - 1 : Occupied(i, ppcMsg.head, armMsg.tail) /\ outQ[i] = r
    \/ ppc \in {"ack", "match"} /\ received = r

Somewhere(r) == AtArm(r) \/ AtPost(r) \/ AtPpc(r)

(***************************************************************************)
(* The request the PowerPC waits for, if it is of a kind that is answered, *)
(* is not lost on its way through three rings, the NAND driver and two     *)
(* contexts of ipc_post, and neither is its reply.                         *)
(***************************************************************************)
Answered == ClientKinds \ {"mute", "poke"}

Awaited ==
    ~panicked /\ (ppc = "bell" \/ Waited(ppc)) /\ request.kind \in Answered => Somewhere(request)

HeldReceived == ppc = "ack" => received = outQ[outHead]

AsksExchange == request # None /\ request.tag # 0 => request.kind \in ExchangeKinds

(* What the main loop is given it can do; a device's interrupt is due. *)
SlowKinds == \A j \in 0 .. SlowSize - 1 : SlowHas(j) => slowQ[j].kind \notin FastKinds

TimerDue ==
    /\ timerFlag => UploadDue
    /\ irq = "timer" /\ "timer" \in flags => timerFlag

NandDue == nandReq # None => nandBusy \/ nandFlag

RestInv == Awaited /\ HeldReceived /\ AsksExchange /\ SlowKinds /\ TimerDue /\ NandDue

-----------------------------------------------------------------------------
(* A step that is not of ipc_post leaves what is being posted alone. *)
LEMMA OthersKeepPosts ==
    ASSUME Inv, [Next]_vars, ~\E c \in Contexts : Post(c), NEW d \in Contexts, Posting(d)
    PROVE  post'[d] = post[d] /\ reply'[d] = reply[d]
<1>1. post \in [Contexts -> {"none", "kill", "room", "read", "poke", "restore"}]
      /\ reply \in [Contexts -> Request \cup {None}]
  BY CarrierTypes
<1>2. ASSUME NEW c \in Contexts, ~Posting(c), NEW r, StartPost(c, r) \/ UNCHANGED posts
      PROVE  post'[d] = post[d] /\ reply'[d] = reply[d]
  BY <1>1, <1>2 DEF StartPost, posts
<1>3. CASE ProcessSlow \/ ProcessNand \/ ProcessBoot
  <2>1. "main" \in Contexts /\ ~Posting("main")
    BY <1>3 DEF ProcessSlow, ProcessNand, ProcessBoot, MainRuns, Contexts
  <2>2. StartPost("main", served) \/ UNCHANGED posts
    BY <1>3 DEF ProcessSlow, ProcessNand, ProcessBoot
  <2>3. QED
    BY <1>2, <2>1, <2>2
<1>4. CASE IrqNand \/ IrqProcessIn
  <2>1. "irq" \in Contexts /\ ~Posting("irq")
    BY <1>4 DEF IrqNand, IrqProcessIn, IrqRuns, Contexts
  <2>2. StartPost("irq", nandReq) \/ StartPost("irq", inQ[inHead]) \/ UNCHANGED posts
    BY <1>4 DEF IrqNand, IrqProcessIn
  <2>3. QED
    BY <1>2, <2>1, <2>2
<1>5. CASE UNCHANGED posts
  BY <1>5 DEF posts
<1>6. CASE MainTake \/ ProcessMute \/ MainFlush \/ MainAdvance \/ MainLeave \/ MainIdle
           \/ MainKill \/ MainRecheck \/ MainWait \/ MainRestore
  BY <1>5, <1>6 DEF MainTake, ProcessMute, MainFlush, MainAdvance, MainLeave,
     MainIdle, MainKill, MainRecheck, MainWait, MainRestore
<1>7. CASE IrqEnter \/ IrqTimer \/ IrqBell \/ IrqDrained \/ IrqAdvance \/ IrqSdhc
  BY <1>5, <1>7 DEF IrqEnter, IrqTimer, IrqBell, IrqDrained, IrqAdvance, IrqSdhc
<1>8. CASE NandComplete \/ CardChange \/ Alarm \/ PpcCall \/ PpcShutdown \/ UNCHANGED vars
  BY <1>5, <1>8 DEF NandComplete, CardChange, Alarm, PpcCall, Call, PpcShutdown, vars, armCpu
<1>9. CASE PpcRun
  BY <1>5, <1>9 DEF PpcRun, PpcInit, PpcWrite, PpcPoke, PpcBell, PpcReceive, PpcAck,
     PpcDiscard, PpcReturn, PpcFlush, armCpu
<1>10. QED
  BY <1>3, <1>4, <1>6, <1>7, <1>8, <1>9 DEF Next, Arm, Main, Irq

(* A reply that is on its way is published, and no other one instead. *)
LEMMA PostStays ==
    ASSUME Inv, OutInv, [Next]_vars, NEW r \in Request, AtPost(r)
    PROVE  AtPost(r)' \/ AtPpc(r)'
<1> USE SizesAssumption
<1>1. PICK c \in Contexts : \/ post[c] \in {"kill", "room"} /\ reply[c] = r
                            \/ post[c] \in {"read", "poke"} /\ outQ[armMsg.tail] = r
  BY DEF AtPost
<1>2. /\ post \in [Contexts -> {"none", "kill", "room", "read", "poke", "restore"}]
      /\ reply \in [Contexts -> Request \cup {None}]
      /\ outQ \in [0 .. OutSize - 1 -> Request \cup {None}]
      /\ armMsg.tail \in 0 .. OutSize - 1 /\ ppcMsg.head \in 0 .. OutSize - 1
      /\ outTail \in 0 .. OutSize - 1
  BY CarrierTypes DEF Message
<1>3. CASE ~\E d \in Contexts : Post(d)
  <2>1. post'[c] = post[c] /\ reply'[c] = reply[c]
    BY <1>1, <1>3, OthersKeepPosts DEF Posting
  <2>2. outQ' = outQ /\ armMsg'.tail = armMsg.tail
    <3>1. CASE PpcAck
      BY <3>1 DEF PpcAck
    <3>2. CASE ~PpcAck
      BY <1>3, <3>2, Steps, QuietSteps DEF OutQuiet, Post
    <3>3. QED
      BY <3>1, <3>2
  <2>3. QED
    BY <1>1, <2>1, <2>2 DEF AtPost
<1>4. ASSUME NEW d \in Contexts, PostKill(d) PROVE AtPost(r)'
  BY <1>1, <1>2, <1>4 DEF PostKill, AtPost, rings
<1>5. ASSUME NEW d \in Contexts, PostWrite(d) PROVE AtPost(r)'
  <2>1. /\ outQ' = [outQ EXCEPT ![armMsg.tail] = reply[d]] /\ post[d] = "room"
        /\ post' = [post EXCEPT ![d] = "read"] /\ armMsg' = armMsg /\ reply' = reply
    BY <1>5, PostWriteOut DEF PostWrite
  <2>2. CASE c = d
    BY <1>1, <1>2, <2>1, <2>2 DEF AtPost
  <2>3. CASE c # d
    <3>1. ~InPost(c)
      BY <2>1, <2>3, OnePoster DEF InPost
    <3>2. QED
      BY <1>1, <1>2, <2>1, <2>3, <3>1 DEF AtPost, InPost
  <2>4. QED
    BY <2>2, <2>3
<1>6. ASSUME NEW d \in Contexts, PostRead(d) PROVE AtPost(r)'
  BY <1>1, <1>2, <1>6 DEF PostRead, AtPost
<1>7. ASSUME NEW d \in Contexts, PostPoke(d) PROVE AtPost(r)' \/ AtPpc(r)'
  <2>1. /\ outQ' = outQ /\ post[d] = "poke" /\ ppcMsg' = ppcMsg /\ reply' = reply
        /\ post' = [post EXCEPT ![d] = "restore"]
        /\ armMsg'.tail = Succ(armMsg.tail, OutSize)
        /\ ~IsFull(ppcMsg.head, armMsg.tail, OutSize)
    BY <1>7, PostPokeOut DEF PostPoke
  <2>2. CASE c = d
    <3>1. Occupied(armMsg.tail, ppcMsg.head, Succ(armMsg.tail, OutSize))
      BY <1>2, <2>1, OccupiedPut
    <3>2. QED
      BY <1>1, <1>2, <2>1, <2>2, <3>1 DEF AtPpc
  <2>3. CASE c # d
    <3>1. ~InPost(c)
      BY <2>1, <2>3, OnePoster DEF InPost
    <3>2. QED
      BY <1>1, <1>2, <2>1, <2>3, <3>1 DEF AtPost, InPost
  <2>4. QED
    BY <2>2, <2>3
<1>8. ASSUME NEW d \in Contexts, PostRestore(d) PROVE AtPost(r)'
  BY <1>1, <1>2, <1>8 DEF PostRestore, AtPost, rings
<1>9. QED
  BY <1>3, <1>4, <1>5, <1>6, <1>7, <1>8 DEF Post

(* A published reply is there until the PowerPC has looked at it. *)
LEMMA PpcStays ==
    ASSUME Inv, OutInv, HeldReceived, [Next]_vars, NEW r \in Request, AtPpc(r), ~Halt
    PROVE  AtPpc(r)' \/ ((PpcDiscard \/ PpcReturn) /\ received = r)
<1> USE SizesAssumption
<1>1. /\ outQ \in [0 .. OutSize - 1 -> Request \cup {None}]
      /\ armMsg.tail \in 0 .. OutSize - 1 /\ ppcMsg.head \in 0 .. OutSize - 1
  BY CarrierTypes DEF Message
<1>2. ASSUME NEW i \in 0 .. OutSize - 1, Occupied(i, ppcMsg.head, armMsg.tail), outQ[i] = r
      PROVE  AtPpc(r)'
  <2>1. ASSUME NEW d \in Contexts, PostWrite(d) PROVE AtPpc(r)'
    <3>1. outQ' = [outQ EXCEPT ![armMsg.tail] = reply[d]] /\ armMsg' = armMsg /\ ppcMsg' = ppcMsg
      BY <2>1, PostWriteOut DEF PostWrite
    <3>2. i # armMsg.tail
      BY <1>1, <1>2, OccupiedEnds
    <3>3. QED
      BY <1>1, <1>2, <3>1, <3>2 DEF AtPpc
  <2>2. ASSUME NEW d \in Contexts, PostPoke(d) PROVE AtPpc(r)'
    <3>1. /\ outQ' = outQ /\ ppcMsg' = ppcMsg
          /\ armMsg'.tail = Succ(armMsg.tail, OutSize)
          /\ ~IsFull(ppcMsg.head, armMsg.tail, OutSize)
      BY <2>2, PostPokeOut DEF PostPoke
    <3>2. Occupied(i, ppcMsg.head, Succ(armMsg.tail, OutSize))
      BY <1>1, <1>2, <3>1, OccupiedPut
    <3>3. QED
      BY <1>2, <3>1, <3>2 DEF AtPpc
  <2>3. ASSUME NEW d \in Contexts, PostRead(d) PROVE AtPpc(r)'
    BY <1>2, <2>3 DEF PostRead, AtPpc
  <2>4. CASE PpcAck
    <3>1. /\ outQ' = outQ /\ armMsg' = armMsg /\ received' = received
          /\ ppc = "ack" /\ ppc' = "match" /\ outHead = ppcMsg.head
          /\ ppcMsg'.head = Succ(ppcMsg.head, OutSize) /\ ppcMsg.head # armMsg.tail
      BY <2>4, PpcAckOut DEF PpcAck, PpcAt, Inv, PpcInv
    <3>2. CASE i = ppcMsg.head
      BY <1>2, <3>1, <3>2 DEF HeldReceived, AtPpc
    <3>3. CASE i # ppcMsg.head
      <4>1. Occupied(i, Succ(ppcMsg.head, OutSize), armMsg.tail)
        BY <1>1, <1>2, <3>1, <3>3, OccupiedGet
      <4>2. QED
        BY <1>2, <3>1, <4>1 DEF AtPpc
    <3>4. QED
      BY <3>2, <3>3
  <2>5. CASE OutQuiet
    BY <1>2, <2>5 DEF OutQuiet, AtPpc
  <2>6. QED
    BY <2>1, <2>2, <2>3, <2>4, <2>5, Steps, QuietSteps
<1>3. ASSUME ppc \in {"ack", "match"}, received = r
      PROVE  AtPpc(r)' \/ PpcDiscard \/ PpcReturn
  <2>1. ASSUME UNCHANGED <<ppc, received>> PROVE AtPpc(r)'
    BY <1>3, <2>1 DEF AtPpc
  <2>2. ASSUME NEW c \in Contexts, Post(c) PROVE AtPpc(r)'
    BY <2>1, <2>2 DEF Post, PostKill, PostWrite, PostRead, PostPoke, PostRestore, ppcCpu
  <2>3. CASE ProcessBoot \/ IrqTimer
    BY <2>1, <2>3 DEF ProcessBoot, IrqTimer, GeckoReceive, GeckoGiveUp, GeckoComplete, PowerpcHang,
       PowerpcBoot, ppcCpu, Halt, Stopped
  <2>4. CASE MainTake \/ ProcessSlow \/ ProcessMute \/ ProcessNand \/ MainFlush \/ MainAdvance
             \/ MainLeave \/ MainIdle \/ MainKill \/ MainRecheck \/ MainWait \/ MainRestore
    BY <2>1, <2>4 DEF MainTake, ProcessSlow, ProcessMute, ProcessNand, MainFlush, MainAdvance,
       MainLeave, MainIdle, MainKill, MainRecheck, MainWait, MainRestore, ppcCpu
  <2>5. CASE IrqEnter \/ IrqNand \/ IrqBell \/ IrqProcessIn \/ IrqDrained \/ IrqAdvance \/ IrqSdhc
    BY <2>1, <2>5 DEF IrqEnter, IrqNand, IrqBell, IrqProcessIn, IrqDrained, IrqAdvance, IrqSdhc, ppcCpu
  <2>6. CASE NandComplete \/ CardChange \/ Alarm \/ UNCHANGED vars
    BY <2>1, <2>6 DEF NandComplete, CardChange, Alarm, vars, ppcCpu
  <2>7. CASE PpcAck
    BY <1>3, <2>7 DEF PpcAck, AtPpc
  <2>8. CASE \/ PpcCall \/ PpcShutdown \/ PpcInit \/ PpcWrite \/ PpcPoke \/ PpcBell
             \/ PpcReceive \/ PpcFlush
    BY <1>3, <2>8 DEF PpcCall, Call, PpcShutdown, PpcInit, PpcWrite, PpcPoke, PpcBell,
       PpcReceive, PpcFlush, PpcAt
  <2>9. QED
    BY <2>2, <2>3, <2>4, <2>5, <2>6, <2>7, <2>8 DEF Next, Arm, Main, Irq, PpcRun
<1>4. QED
  BY <1>2, <1>3 DEF AtPpc

-----------------------------------------------------------------------------
(* The handler passes a request on to the slow queue, or panics. *)
LEMMA EnqueueKeeps ==
    ASSUME Inv, NEW q \in Request, EnqueueSlow(q), UNCHANGED <<slowHead, main>>
    PROVE  \/ panicked'
           \/ /\ \A j \in 0 .. SlowSize - 1 :
                    SlowHas(j) => SlowHas(j)' /\ slowQ'[j] = slowQ[j]
              /\ main \notin {"advance", "flush", "leave"} \/ slowHead # slowTail
                 => \E j \in 0 .. SlowSize - 1 : SlowHas(j)' /\ slowQ'[j] = q
<1>1. CASE SlowFull
  BY <1>1 DEF EnqueueSlow
<1>2. CASE ~SlowFull
  <2>1. /\ slowQ' = [slowQ EXCEPT ![slowTail] = q] /\ slowTail' = Succ(slowTail, SlowSize)
        /\ ~IsFull(slowHead, slowTail, SlowSize)
    BY <1>2 DEF EnqueueSlow, SlowFull
  <2>2. ASSUME NEW j \in 0 .. SlowSize - 1
        PROVE  Occupied(j, slowHead, Succ(slowTail, SlowSize))
               <=> Occupied(j, slowHead, slowTail) \/ j = slowTail
    BY <2>1, OccupiedPut, IdTypes
  <2>3. ASSUME NEW j \in 0 .. SlowSize - 1, SlowHas(j)
        PROVE  SlowHas(j)' /\ slowQ'[j] = slowQ[j]
    <3>1. ~Occupied(slowTail, slowHead, slowTail)
      BY OccupiedEnds, IdTypes
    <3>2. j # slowTail
      BY <2>3, <3>1 DEF SlowHas
    <3>3. QED
      BY <2>1, <2>2, <2>3, <3>2, IdTypes DEF SlowHas
  <2>4. ASSUME main \notin {"advance", "flush", "leave"} \/ slowHead # slowTail,
               NEW j \in 0 .. SlowSize - 1, j = slowTail
        PROVE  SlowHas(j)' /\ slowQ'[j] = q
    BY <2>1, <2>2, <2>4, IdTypes DEF SlowHas
  <2>5. QED
    BY <2>3, <2>4, IdTypes
<1>3. QED
  BY <1>1, <1>2

(* A request in the ring of requests is done, or passed on. *)
LEMMA InStays ==
    ASSUME Inv, IdsInv, [Next]_vars, NEW r \in Request, r.kind \in Answered,
           NEW i \in 0 .. InSize - 1, InHas(i), inQ[i] = r
    PROVE  panicked' \/ AtArm(r)' \/ AtPost(r)'
<1>1. ASSUME InHas(i)', inQ'[i] = r PROVE AtArm(r)'
  BY <1>1 DEF AtArm
<1>2. CASE Waits
  BY <1>1, <1>2, WaitsWaiting DEF Waiting, InHas
<1>3. CASE \/ MainAdvance \/ MainLeave \/ ProcessSlow \/ ProcessMute \/ ProcessNand
           \/ ProcessBoot \/ IrqTimer \/ IrqSdhc
  BY <1>1, <1>3 DEF MainAdvance, MainLeave, ProcessSlow, ProcessMute, ProcessNand, ProcessBoot,
     IrqTimer, IrqSdhc, InHas, rings
<1>4. CASE IrqAdvance
  <2>1. /\ inQ' = inQ /\ inHead' = Succ(inHead, InSize) /\ ppcMsg' = ppcMsg
        /\ irq = "advance" /\ irq' = "drain" /\ inHead # ppcMsg.tail
    BY <1>4 DEF IrqAdvance, Inv, HeldInv, InEmpty
  <2>2. Occupied(i, Succ(inHead, InSize), ppcMsg.tail)
    BY <2>1, OccupiedGet, IdTypes DEF InHas
  <2>3. QED
    BY <1>1, <2>1, <2>2 DEF InHas
<1>5. CASE IrqProcessIn
  <2>1. /\ irq' = "advance" /\ UNCHANGED <<inQ, inHead, ppcMsg, slowHead, main, outQ, armMsg>>
        /\ inHead # ppcMsg.tail /\ irq = "drain" /\ ~Posting("irq")
    BY <1>5 DEF IrqProcessIn, InEmpty, IrqRuns
  <2>2. CASE i # inHead
    BY <1>1, <2>1, <2>2 DEF InHas
  <2>3. CASE i = inHead /\ r.kind \in FastKinds
    <3>1. r.kind = "fast" /\ StartPost("irq", r)
      BY <1>5, <2>3 DEF IrqProcessIn, FastKinds, Answered
    <3>2. post'["irq"] = "kill" /\ reply'["irq"] = r /\ "irq" \in Contexts
      BY <3>1, CarrierTypes DEF StartPost, Contexts
    <3>3. QED
      BY <3>2 DEF AtPost
  <2>4. CASE i = inHead /\ r.kind \notin FastKinds
    <3>1. EnqueueSlow(r)
      BY <1>5, <2>4 DEF IrqProcessIn
    <3>2. main \notin {"advance", "flush", "leave"} \/ slowHead # slowTail
      BY DEF Inv, HeldInv, SlowEmpty
    <3>3. QED
      BY <2>1, <3>1, <3>2, EnqueueKeeps DEF AtArm
  <2>5. QED
    BY <2>2, <2>3, <2>4
<1>6. CASE PpcCall
  BY <1>1, <1>6 DEF PpcCall, Call, InHas, rings, armCpu
<1>7. CASE PpcWrite
  <2>1. /\ inQ' = [inQ EXCEPT ![ppcMsg.tail] = request] /\ UNCHANGED <<inHead, ppcMsg, irq>>
    BY <1>7 DEF PpcWrite, PpcAt, Inv, PpcInv, armCpu
  <2>2. i # ppcMsg.tail
    <3>1. ~Occupied(ppcMsg.tail, inHead, ppcMsg.tail)
      BY OccupiedEnds, IdTypes
    <3>2. QED
      BY <3>1 DEF InHas
  <2>3. QED
    BY <1>1, <2>1, <2>2, IdTypes DEF InHas
<1>8. CASE PpcPoke
  <2>1. /\ inQ' = inQ /\ UNCHANGED <<inHead, irq>>
        /\ ppcMsg'.tail = Succ(ppcMsg.tail, InSize) /\ ~IsFull(inHead, ppcMsg.tail, InSize)
    BY <1>8 DEF PpcPoke, PpcAt, Inv, PpcInv, armCpu, TypeOK, TypeRings
  <2>2. Occupied(i, inHead, Succ(ppcMsg.tail, InSize))
    BY <2>1, OccupiedPut, IdTypes DEF InHas
  <2>3. QED
    BY <1>1, <2>1, <2>2 DEF InHas
<1>9. QED
  BY <1>2, <1>3, <1>4, <1>5, <1>6, <1>7, <1>8 DEF Next, Arm, Main, Irq, PpcRun, Waits

(* A request in the slow queue is answered, or given to the NAND driver. *)
LEMMA SlowStays ==
    ASSUME Inv, IdsInv, [Next]_vars, NEW r \in Request, r.kind \in Answered,
           NEW j \in 0 .. SlowSize - 1, SlowHas(j), slowQ[j] = r, ~Halt
    PROVE  panicked' \/ AtArm(r)' \/ AtPost(r)'
<1>1. ASSUME SlowHas(j)', slowQ'[j] = r PROVE AtArm(r)'
  BY <1>1 DEF AtArm
<1>2. ASSUME UNCHANGED <<slowQ, slowHead, slowTail>>,
             main' \in {"advance", "flush", "leave"} => main \in {"advance", "flush", "leave"}
      PROVE  AtArm(r)'
  BY <1>1, <1>2 DEF SlowHas
<1>3. ASSUME NEW c \in Contexts, Post(c) PROVE AtArm(r)'
  BY <1>2, <1>3 DEF Post, PostKill, PostWrite, PostRead, PostPoke, PostRestore, rings
<1>4. CASE MainTake \/ MainFlush \/ MainIdle \/ MainKill \/ MainRecheck \/ MainWait \/ MainRestore
  BY <1>2, <1>4 DEF MainTake, MainFlush, MainIdle, MainKill, MainRecheck, MainWait, MainRestore, rings
<1>5. CASE IrqEnter \/ IrqNand \/ IrqBell \/ IrqDrained \/ IrqAdvance
  BY <1>2, <1>5 DEF IrqEnter, IrqNand, IrqBell, IrqDrained, IrqAdvance, rings
<1>6. CASE NandComplete \/ CardChange \/ Alarm \/ PpcCall \/ PpcShutdown \/ UNCHANGED vars
  BY <1>2, <1>6 DEF NandComplete, CardChange, Alarm, PpcCall, Call, PpcShutdown, vars, rings, armCpu
<1>7. CASE PpcRun
  BY <1>2, <1>7 DEF PpcRun, PpcInit, PpcWrite, PpcPoke, PpcBell, PpcReceive, PpcAck,
     PpcDiscard, PpcReturn, PpcFlush, armCpu, rings
<1>8. CASE MainAdvance \/ MainLeave
  <2>1. /\ slowQ' = slowQ /\ slowHead' = Succ(slowHead, SlowSize) /\ slowTail' = slowTail
        /\ main \in {"advance", "leave"} /\ main' \in {"loop", "left"} /\ slowHead # slowTail
    BY <1>8 DEF MainAdvance, MainLeave, Inv, HeldInv, SlowEmpty
  <2>2. Occupied(j, Succ(slowHead, SlowSize), slowTail)
    BY <2>1, OccupiedGet, IdTypes DEF SlowHas
  <2>3. QED
    BY <1>1, <2>1, <2>2 DEF SlowHas
<1>9. CASE ProcessSlow \/ ProcessMute \/ ProcessNand \/ ProcessBoot
  <2>1. /\ UNCHANGED <<slowQ, slowHead, slowTail>> /\ main = "process" /\ ~Posting("main")
        /\ served = slowQ[slowHead]
    BY <1>9 DEF ProcessSlow, ProcessMute, ProcessNand, ProcessBoot, MainRuns, IdsInv,
       ServedIsFirst, rings
  <2>2. CASE j # slowHead
    BY <1>1, <2>1, <2>2 DEF SlowHas
  <2>3. CASE j = slowHead /\ nandReq' = served
    BY <2>1, <2>3 DEF AtArm
  <2>4. CASE j = slowHead /\ StartPost("main", served)
    <3>1. post'["main"] = "kill" /\ reply'["main"] = r /\ "main" \in Contexts
      BY <2>1, <2>4, CarrierTypes DEF StartPost, Contexts
    <3>2. QED
      BY <3>1 DEF AtPost
  <2>5. CASE j = slowHead
    <3>1. served = r
      BY <2>1, <2>5
    <3>2. ~ProcessMute
      BY <3>1 DEF ProcessMute, Answered, ClientKinds, FastKinds
    <3>3. StartPost("main", served) \/ nandReq' = served \/ ProcessBoot
      BY <1>9, <3>2 DEF ProcessSlow, ProcessNand
    <3>4. ProcessBoot => StartPost("main", served)
      BY <3>1 DEF ProcessBoot, PowerpcBoot, Halt, Stopped, Answered, ClientKinds, FastKinds
    <3>5. QED
      BY <2>3, <2>4, <2>5, <3>3, <3>4
  <2>6. QED
    BY <2>2, <2>5
<1>10. CASE IrqTimer \/ IrqSdhc \/ IrqProcessIn
  <2>1. UNCHANGED <<slowHead, main>>
    BY <1>10 DEF IrqTimer, IrqSdhc, IrqProcessIn
  <2>2. UNCHANGED <<slowQ, slowTail>> \/ \E q \in Request : EnqueueSlow(q)
    <3>1. CASE IrqTimer \/ IrqSdhc
      <4>1. UNCHANGED <<slowQ, slowTail>> \/ \E kind \in ArmKinds : EnqueueSlow(FromArm(kind))
        BY <3>1 DEF IrqTimer, IrqSdhc, GeckoReceive, GeckoGiveUp, GeckoComplete, ArmKinds
      <4>2. QED
        BY <4>1, FromArmType
    <3>2. CASE IrqProcessIn
      <4>1. inQ[inHead] \in Request
        BY <3>2, OccupiedEnds, IdTypes DEF IrqProcessIn, InEmpty, Inv, SlotsInv
      <4>2. QED
        BY <3>2, <4>1 DEF IrqProcessIn
    <3>3. QED
      BY <1>10, <3>1, <3>2
  <2>3. CASE UNCHANGED <<slowQ, slowTail>>
    BY <1>2, <2>1, <2>3
  <2>4. ASSUME NEW q \in Request, EnqueueSlow(q) PROVE panicked' \/ AtArm(r)'
    <3>1. panicked' \/ (SlowHas(j)' /\ slowQ'[j] = slowQ[j])
      BY <2>1, <2>4, EnqueueKeeps
    <3>2. QED
      BY <1>1, <3>1
  <2>5. QED
    BY <2>2, <2>3, <2>4
<1>11. QED
  BY <1>3, <1>4, <1>5, <1>6, <1>7, <1>8, <1>9, <1>10 DEF Next, Arm, Main, Irq

(* current_request is answered by the NAND interrupt, and kept till then. *)
LEMMA NandStays ==
    ASSUME Inv, [Next]_vars, NEW r \in Request, nandReq = r
    PROVE  AtArm(r)' \/ AtPost(r)'
<1> USE NoneAssumption
<1>1. ASSUME nandReq' = r PROVE AtArm(r)'
  BY <1>1 DEF AtArm
<1>2. CASE IrqNand
  <2>1. nandReq' = r \/ StartPost("irq", r)
    BY <1>2 DEF IrqNand
  <2>2. CASE StartPost("irq", r)
    <3>1. post'["irq"] = "kill" /\ reply'["irq"] = r /\ "irq" \in Contexts
      BY <2>2, CarrierTypes DEF StartPost, Contexts
    <3>2. QED
      BY <3>1 DEF AtPost
  <2>3. QED
    BY <1>1, <2>1, <2>2
<1>3. CASE ProcessNand
  BY <1>1, <1>3 DEF ProcessNand
<1>4. ASSUME NEW c \in Contexts, Post(c) PROVE AtArm(r)'
  BY <1>1, <1>4 DEF Post, PostKill, PostWrite, PostRead, PostPoke, PostRestore, nand
<1>5. CASE \/ MainTake \/ ProcessSlow \/ ProcessMute \/ ProcessBoot \/ MainFlush \/ MainAdvance
           \/ MainLeave \/ MainIdle \/ MainKill \/ MainRecheck \/ MainWait \/ MainRestore
  BY <1>1, <1>5 DEF MainTake, ProcessSlow, ProcessMute, ProcessBoot, MainFlush, MainAdvance,
     MainLeave, MainIdle, MainKill, MainRecheck, MainWait, MainRestore, nand
<1>6. CASE IrqEnter \/ IrqTimer \/ IrqBell \/ IrqProcessIn \/ IrqDrained \/ IrqAdvance \/ IrqSdhc
  BY <1>1, <1>6 DEF IrqEnter, IrqTimer, IrqBell, IrqProcessIn, IrqDrained, IrqAdvance, IrqSdhc, nand
<1>7. CASE NandComplete \/ CardChange \/ Alarm \/ PpcCall \/ PpcShutdown \/ UNCHANGED vars
  BY <1>1, <1>7 DEF NandComplete, CardChange, Alarm, PpcCall, Call, PpcShutdown, vars, nand
<1>8. CASE PpcRun
  BY <1>1, <1>8 DEF PpcRun, PpcInit, PpcWrite, PpcPoke, PpcBell, PpcReceive, PpcAck,
     PpcDiscard, PpcReturn, PpcFlush, nand
<1>9. QED
  BY <1>2, <1>3, <1>4, <1>5, <1>6, <1>7, <1>8 DEF Next, Arm, Main, Irq

(* No step but one of the PowerPC's own loses a request that is answered. *)
LEMMA SomewhereStays ==
    ASSUME Inv, OutInv, IdsInv, HeldReceived, [Next]_vars, ~Halt,
           NEW r \in Request, r.kind \in Answered, Somewhere(r)
    PROVE  panicked' \/ Somewhere(r)' \/ ((PpcDiscard \/ PpcReturn) /\ received = r)
<1>1. CASE AtPost(r)
  BY <1>1, PostStays DEF Somewhere
<1>2. CASE AtPpc(r)
  BY <1>2, PpcStays DEF Somewhere
<1>3. ASSUME NEW i \in 0 .. InSize - 1, InHas(i), inQ[i] = r PROVE panicked' \/ Somewhere(r)'
  BY <1>3, InStays DEF Somewhere
<1>4. ASSUME NEW j \in 0 .. SlowSize - 1, SlowHas(j), slowQ[j] = r PROVE panicked' \/ Somewhere(r)'
  BY <1>4, SlowStays DEF Somewhere
<1>5. CASE nandReq = r
  BY <1>5, NandStays DEF Somewhere
<1>6. QED
  BY <1>1, <1>2, <1>3, <1>4, <1>5 DEF Somewhere, AtArm

-----------------------------------------------------------------------------
(* Each part of RestInv holds on. *)
LEMMA PokeSomewhere == ASSUME Inv, PpcPoke PROVE Somewhere(request)'
<1>1. /\ inQ' = inQ /\ UNCHANGED <<inHead, irq, request>> /\ inQ[ppcMsg.tail] = request
      /\ ppcMsg'.tail = Succ(ppcMsg.tail, InSize) /\ ~IsFull(inHead, ppcMsg.tail, InSize)
  BY DEF PpcPoke, PpcAt, Inv, PpcInv, armCpu, TypeOK, TypeRings
<1>2. PICK i \in 0 .. InSize - 1 : i = ppcMsg.tail
  BY IdTypes
<1>3. Occupied(i, inHead, Succ(ppcMsg.tail, InSize))
  BY <1>1, <1>2, OccupiedPut, IdTypes
<1>4. irq = "advance" => i # inHead
  BY <1>2 DEF Inv, HeldInv, InEmpty
<1>5. InHas(i)'
  BY <1>1, <1>3, <1>4 DEF InHas
<1>6. QED
  BY <1>1, <1>2, <1>5 DEF Somewhere, AtArm

LEMMA PanicStays == ASSUME [Next]_vars, panicked PROVE panicked'
<1>1. ~\E c \in Contexts : Runs(c)
  BY DEF Runs
<1>2. ~Arm
  BY <1>1 DEF Arm, Main, MainTake, ProcessSlow, ProcessMute, ProcessNand, ProcessBoot, MainFlush,
     MainAdvance, MainLeave, MainIdle, MainKill, MainRecheck, MainWait, MainRestore, MainRuns, Irq,
     IrqEnter, IrqTimer, IrqNand, IrqBell, IrqProcessIn, IrqDrained, IrqAdvance, IrqSdhc, IrqRuns,
     Post, PostKill, PostWrite, PostRead, PostPoke, PostRestore, Contexts
<1>3. CASE NandComplete \/ CardChange \/ Alarm \/ PpcCall \/ PpcShutdown \/ UNCHANGED vars
  BY <1>3 DEF NandComplete, CardChange, Alarm, PpcCall, Call, PpcShutdown, vars, armCpu
<1>4. CASE PpcRun
  BY <1>4 DEF PpcRun, PpcInit, PpcWrite, PpcPoke, PpcBell, PpcReceive, PpcAck,
     PpcDiscard, PpcReturn, PpcFlush, armCpu
<1>5. QED
  BY <1>2, <1>3, <1>4 DEF Next

(* The PowerPC rings for a request only when it has published it. *)
LEMMA OnlyPokeRings ==
    ASSUME [Next]_vars, ppc' = "bell"
    PROVE  ppc = "bell" \/ PpcPoke
<1>1. ASSUME NEW c \in Contexts, Post(c) PROVE ppc' = ppc
  BY <1>1 DEF Post, PostKill, PostWrite, PostRead, PostPoke, PostRestore, ppcCpu
<1>2. CASE ProcessBoot \/ IrqTimer
  BY <1>2 DEF ProcessBoot, IrqTimer, GeckoReceive, GeckoGiveUp, GeckoComplete, PowerpcHang,
     PowerpcBoot, ppcCpu
<1>3. CASE MainTake \/ ProcessSlow \/ ProcessMute \/ ProcessNand \/ MainFlush \/ MainAdvance
           \/ MainLeave \/ MainIdle \/ MainKill \/ MainRecheck \/ MainWait \/ MainRestore
  BY <1>3 DEF MainTake, ProcessSlow, ProcessMute, ProcessNand, MainFlush, MainAdvance, MainLeave,
     MainIdle, MainKill, MainRecheck, MainWait, MainRestore, ppcCpu
<1>4. CASE IrqEnter \/ IrqNand \/ IrqBell \/ IrqProcessIn \/ IrqDrained \/ IrqAdvance \/ IrqSdhc
  BY <1>4 DEF IrqEnter, IrqNand, IrqBell, IrqProcessIn, IrqDrained, IrqAdvance, IrqSdhc, ppcCpu
<1>5. CASE NandComplete \/ CardChange \/ Alarm \/ UNCHANGED vars
  BY <1>5 DEF NandComplete, CardChange, Alarm, vars, ppcCpu
<1>6. CASE PpcCall \/ PpcShutdown \/ PpcRun
  BY <1>6 DEF PpcCall, Call, PpcShutdown, PpcRun, PpcInit, PpcWrite, PpcBell, PpcReceive, PpcAck,
     PpcDiscard, PpcReturn, PpcFlush
<1>7. QED
  BY <1>1, <1>2, <1>3, <1>4, <1>5, <1>6 DEF Next, Arm, Main, Irq

LEMMA AwaitedStep ==
    ASSUME Inv, OutInv, IdsInv, HeldReceived, Awaited, [Next]_vars
    PROVE  Awaited'
<1> SUFFICES ASSUME ~panicked', (ppc = "bell" \/ Waited(ppc))', request'.kind \in Answered
             PROVE  Somewhere(request)'
  BY DEF Awaited
<1>1. ~panicked
  BY PanicStays
<1>2. ~Halt /\ ~PpcCall /\ ~PpcInit /\ ~PpcReturn
  BY DEF Halt, Stopped, Waited, PpcCall, Call, PpcInit, PpcReturn
<1>3. CASE PpcPoke
  BY <1>3, PokeSomewhere
<1>4. CASE ~PpcPoke
  <2>1. ppc = "bell" \/ Waited(ppc)
    <3>1. CASE PpcBell
      BY <3>1 DEF PpcBell, PpcAt
    <3>2. CASE ~PpcBell
      BY <1>2, <1>4, <3>2, OnlyPokeRings, SteadyPpc
    <3>3. QED
      BY <3>1, <3>2
  <2>2. request' = request
    <3>1. CASE PpcBell
      BY <3>1 DEF PpcBell, Waited
    <3>2. CASE ~PpcBell
      BY <1>2, <3>2, SteadyPpc DEF Steady
    <3>3. QED
      BY <3>1, <3>2
  <2>3. request \in Request
    BY <2>1 DEF Inv, PpcInv, Waited
  <2>4. PICK r \in Request : r = request
    BY <2>3
  <2>5. r.kind \in Answered /\ Somewhere(r)
    BY <1>1, <2>1, <2>2, <2>4 DEF Awaited
  <2>6. ~(PpcDiscard /\ received = r)
    BY <2>4 DEF PpcDiscard, Matches
  <2>7. Somewhere(r)'
    BY <1>2, <2>5, <2>6, SomewhereStays
  <2>8. QED
    BY <2>2, <2>4, <2>7 DEF Somewhere, AtArm, AtPost, AtPpc
<1>5. QED
  BY <1>3, <1>4

LEMMA HeldReceivedStep == ASSUME Inv, OutInv, HeldReceived, [Next]_vars PROVE HeldReceived'
<1> USE DEF HeldReceived
<1>1. CASE PpcReceive
  BY <1>1 DEF PpcReceive, rings
<1>2. ASSUME NEW d \in Contexts, PostWrite(d), ppc = "ack" PROVE HeldReceived'
  <2>1. /\ outQ' = [outQ EXCEPT ![armMsg.tail] = reply[d]] /\ UNCHANGED <<ppc, outHead, received>>
    BY <1>2, PostWriteOut DEF PostWrite, ppcCpu
  <2>2. outHead # armMsg.tail
    BY <1>2 DEF Inv, PpcInv, OutInv, HasReceived
  <2>3. outQ \in [0 .. OutSize - 1 -> Request \cup {None}] /\ outHead \in 0 .. OutSize - 1
    BY CarrierTypes
  <2>4. QED
    BY <2>1, <2>2, <2>3
<1>3. ASSUME ~(ppc' = "ack" /\ ~(ppc = "ack" /\ UNCHANGED <<received, outHead>> /\ outQ' = outQ))
      PROVE  HeldReceived'
  BY <1>3
<1>4. ASSUME NEW c \in Contexts, Post(c) PROVE HeldReceived'
  <2>1. CASE PostWrite(c)
    BY <1>2, <2>1 DEF PostWrite, ppcCpu
  <2>2. CASE PostKill(c) \/ PostRead(c) \/ PostPoke(c) \/ PostRestore(c)
    BY <1>3, <2>2 DEF PostKill, PostRead, PostPoke, PostRestore, ppcCpu, rings
  <2>3. QED
    BY <1>4, <2>1, <2>2 DEF Post
<1>5. CASE ProcessBoot \/ IrqTimer
  BY <1>3, <1>5 DEF ProcessBoot, IrqTimer, GeckoReceive, GeckoGiveUp, GeckoComplete, PowerpcHang,
     PowerpcBoot, ppcCpu, rings
<1>6. CASE MainTake \/ ProcessSlow \/ ProcessMute \/ ProcessNand \/ MainFlush \/ MainAdvance
           \/ MainLeave \/ MainIdle \/ MainKill \/ MainRecheck \/ MainWait \/ MainRestore
  BY <1>3, <1>6 DEF MainTake, ProcessSlow, ProcessMute, ProcessNand, MainFlush, MainAdvance, MainLeave,
     MainIdle, MainKill, MainRecheck, MainWait, MainRestore, ppcCpu, rings
<1>7. CASE IrqEnter \/ IrqNand \/ IrqBell \/ IrqProcessIn \/ IrqDrained \/ IrqAdvance \/ IrqSdhc
  BY <1>3, <1>7 DEF IrqEnter, IrqNand, IrqBell, IrqProcessIn, IrqDrained, IrqAdvance, IrqSdhc, ppcCpu, rings
<1>8. CASE NandComplete \/ CardChange \/ Alarm \/ UNCHANGED vars
  BY <1>3, <1>8 DEF NandComplete, CardChange, Alarm, vars, ppcCpu, rings
<1>9. CASE \/ PpcCall \/ PpcShutdown \/ PpcInit \/ PpcWrite \/ PpcPoke \/ PpcBell
           \/ PpcAck \/ PpcDiscard \/ PpcReturn \/ PpcFlush
  BY <1>3, <1>9 DEF PpcCall, Call, PpcShutdown, PpcInit, PpcWrite, PpcPoke, PpcBell, PpcAck,
     PpcDiscard, PpcReturn, PpcFlush, PpcAt
<1>10. QED
  BY <1>1, <1>4, <1>5, <1>6, <1>7, <1>8, <1>9 DEF Next, Arm, Main, Irq, PpcRun

LEMMA AsksExchangeStep == ASSUME AsksExchange, [Next]_vars PROVE AsksExchange'
<1> USE DEF AsksExchange
<1>1. CASE PpcCall
  BY <1>1 DEF PpcCall, Call
<1>2. CASE request' \in {request, None}
  BY <1>2
<1>3. CASE Steady \/ Halt \/ PpcInit \/ PpcReturn \/ PpcBell
  BY <1>2, <1>3 DEF Steady, Halt, PpcInit, PpcReturn, PpcBell
<1>4. QED
  BY <1>1, <1>3, CallSteps

(* process_in gives the slow queue no request it does itself. *)
LEMMA SlowKindsStep == ASSUME Inv, IdsInv, SlowKinds, [Next]_vars PROVE SlowKinds'
<1>1. ASSUME \A j \in 0 .. SlowSize - 1 : SlowHas(j)' => SlowHas(j) /\ slowQ'[j] = slowQ[j]
      PROVE  SlowKinds'
  BY <1>1 DEF SlowKinds
<1>2. CASE Waits
  BY <1>1, <1>2, WaitsWaiting DEF Waiting, SlowHas
<1>3. CASE PpcCall \/ PpcWrite \/ PpcPoke \/ IrqAdvance
  BY <1>1, <1>3 DEF PpcCall, Call, PpcWrite, PpcPoke, IrqAdvance, SlowHas, rings, armCpu
<1>4. CASE ProcessSlow \/ ProcessMute \/ ProcessNand \/ ProcessBoot
  BY <1>1, <1>4 DEF ProcessSlow, ProcessMute, ProcessNand, ProcessBoot, SlowHas, rings
<1>5. CASE MainAdvance \/ MainLeave
  <2>1. /\ slowQ' = slowQ /\ slowHead' = Succ(slowHead, SlowSize) /\ slowTail' = slowTail
        /\ slowHead # slowTail
    BY <1>5 DEF MainAdvance, MainLeave, Inv, HeldInv, SlowEmpty
  <2>2. ASSUME NEW j \in 0 .. SlowSize - 1, SlowHas(j)' PROVE SlowHas(j)
    <3>1. Occupied(j, Succ(slowHead, SlowSize), slowTail)
      BY <2>1, <2>2 DEF SlowHas
    <3>2. Occupied(j, slowHead, slowTail) /\ j # slowHead
      BY <2>1, <3>1, OccupiedGet, IdTypes
    <3>3. QED
      BY <3>2 DEF SlowHas
  <2>3. QED
    BY <1>1, <2>1, <2>2
<1>6. ASSUME NEW q \in Request, q.kind \notin FastKinds, EnqueueSlow(q), UNCHANGED <<slowHead, main>>
      PROVE  SlowKinds'
  BY <1>6, EnqueuePlaces DEF SlowKinds
<1>7. CASE IrqTimer \/ IrqSdhc
  <2>1. UNCHANGED <<slowQ, slowTail>> \/ \E kind \in ArmKinds : EnqueueSlow(FromArm(kind))
    BY <1>7 DEF IrqTimer, IrqSdhc, GeckoReceive, GeckoGiveUp, GeckoComplete, ArmKinds
  <2>2. UNCHANGED <<slowHead, main>>
    BY <1>7 DEF IrqTimer, IrqSdhc
  <2>3. \A kind \in ArmKinds : FromArm(kind).kind \notin FastKinds
    BY DEF FromArm, ArmKinds, FastKinds
  <2>4. QED
    BY <1>1, <1>6, <2>1, <2>2, <2>3, FromArmType DEF SlowHas
<1>8. CASE IrqProcessIn
  <2>1. inQ[inHead] \in Request /\ UNCHANGED <<slowHead, main>>
    BY <1>8, OccupiedEnds, IdTypes DEF IrqProcessIn, InEmpty, Inv, SlotsInv
  <2>2. \/ UNCHANGED <<slowQ, slowTail>>
        \/ inQ[inHead].kind \notin FastKinds /\ EnqueueSlow(inQ[inHead])
    BY <1>8 DEF IrqProcessIn
  <2>3. QED
    BY <1>1, <1>6, <2>1, <2>2 DEF SlowHas
<1>9. QED
  BY <1>2, <1>3, <1>4, <1>5, <1>7, <1>8 DEF Next, Arm, Main, Irq, PpcRun, Waits

(* The steps that touch none of the devices. *)
LEMMA DeviceSteps ==
    ASSUME [Next]_vars
    PROVE  \/ /\ UNCHANGED <<nandReq, nandBusy, nandFlag, gecko, uploads, timerFlag>>
              /\ irq' = "timer" => UNCHANGED <<irq, flags>>
           \/ ProcessNand \/ IrqEnter \/ IrqTimer \/ IrqNand \/ NandComplete \/ Alarm
<1> USE DEF nand, devices
<1>1. ASSUME NEW c \in Contexts, Post(c) PROVE UNCHANGED <<irq, flags, nand, devices>>
  BY <1>1 DEF Post, PostKill, PostWrite, PostRead, PostPoke, PostRestore
<1>2. CASE MainTake \/ ProcessSlow \/ ProcessMute \/ ProcessBoot \/ MainFlush \/ MainAdvance
           \/ MainLeave \/ MainIdle \/ MainKill \/ MainRecheck \/ MainWait \/ MainRestore
  BY <1>2 DEF MainTake, ProcessSlow, ProcessMute, ProcessBoot, MainFlush, MainAdvance, MainLeave,
     MainIdle, MainKill, MainRecheck, MainWait, MainRestore
<1>3. CASE IrqBell \/ IrqProcessIn \/ IrqDrained \/ IrqAdvance \/ IrqSdhc
  BY <1>3 DEF IrqBell, IrqProcessIn, IrqDrained, IrqAdvance, IrqSdhc
<1>4. CASE CardChange \/ UNCHANGED vars \/ PpcCall \/ PpcShutdown
  BY <1>4 DEF CardChange, vars, armCpu, PpcCall, Call, PpcShutdown
<1>5. CASE PpcRun
  BY <1>5 DEF PpcRun, PpcInit, PpcWrite, PpcPoke, PpcBell, PpcReceive, PpcAck,
     PpcDiscard, PpcReturn, PpcFlush, armCpu
<1>6. QED
  BY <1>1, <1>2, <1>3, <1>4, <1>5 DEF Next, Arm, Main, Irq

(* The alarm is raised when there is work, and only its handler does it. *)
LEMMA TimerDueStep == ASSUME Inv, TimerDue, [Next]_vars PROVE TimerDue'
<1> USE DEF TimerDue, UploadDue
<1>1. CASE IrqEnter
  BY <1>1 DEF IrqEnter, Pending, devices
<1>2. CASE IrqTimer
  BY <1>2 DEF IrqTimer
<1>3. CASE ProcessNand \/ IrqNand \/ NandComplete
  BY <1>3 DEF ProcessNand, IrqNand, NandComplete, devices, armCpu
<1>4. CASE Alarm
  BY <1>4 DEF Alarm, armCpu
<1>5. QED
  BY <1>1, <1>2, <1>3, <1>4, DeviceSteps

(* A request of the NAND driver is with the controller, or its interrupt is. *)
LEMMA NandDueStep == ASSUME Inv, NandDue, [Next]_vars PROVE NandDue'
<1> USE DEF NandDue
<1>1. CASE ProcessNand
  BY <1>1 DEF ProcessNand
<1>2. CASE IrqNand
  BY <1>2 DEF IrqNand
<1>3. CASE NandComplete
  BY <1>3 DEF NandComplete
<1>4. CASE IrqEnter \/ IrqTimer \/ Alarm
  BY <1>4 DEF IrqEnter, IrqTimer, Alarm, nand
<1>5. QED
  BY <1>1, <1>2, <1>3, <1>4, DeviceSteps

LEMMA RestInit == Init => RestInv
BY NoneAssumption, SizesAssumption DEF Init, RestInv, Awaited, Waited, HeldReceived, AsksExchange,
   SlowKinds, SlowHas, Occupied, TimerDue, NandDue

LEMMA RestKept ==
    Inv /\ OutInv /\ IdsInv /\ RestInv /\ [Next]_vars => RestInv'
BY AwaitedStep, HeldReceivedStep, AsksExchangeStep, SlowKindsStep, TimerDueStep, NandDueStep
   DEF RestInv

-----------------------------------------------------------------------------
(* Who cannot go on. *)

(* The handler goes on, unless ipc_post spins. *)
LEMMA HandlerReady ==
    ASSUME Inv, RestInv, ~panicked, irq # "off", ~Flooded
    PROVE  Ready
<1>1. Runs("irq") /\ "irq" \in Contexts
  BY DEF Runs, Contexts
<1>2. CASE Posting("irq")
  BY <1>1, <1>2 DEF Flooded, Ready, CanPost, Spinning
<1>3. CASE ~Posting("irq")
  BY <1>1, <1>3 DEF Ready, CanIrq, IrqRuns, RestInv, TimerDue
<1>4. QED
  BY <1>2, <1>3

(* So does the main loop, until it sleeps with nothing pending. *)
LEMMA MainReady ==
    ASSUME Inv, RestInv, IdsInv, ~panicked, irq = "off", ~Flooded, main # "left"
    PROVE  Ready \/ (main = "wait" /\ Pending = {})
<1>1. Runs("main") /\ "main" \in Contexts
  BY DEF Runs, Contexts
<1>2. CASE Posting("main")
  BY <1>1, <1>2 DEF Flooded, Ready, CanPost, Spinning
<1>3. CASE ~Posting("main") /\ main = "process"
  <2>1. served = slowQ[slowHead] /\ slowHead # slowTail
    BY <1>3 DEF IdsInv, ServedIsFirst, Inv, HeldInv, SlowEmpty
  <2>2. Occupied(slowHead, slowHead, slowTail)
    BY <2>1, OccupiedEnds, IdTypes
  <2>3. SlowHas(slowHead)
    BY <1>3, <2>2 DEF SlowHas
  <2>4. served.kind \notin FastKinds
    BY <2>1, <2>3, IdTypes DEF RestInv, SlowKinds
  <2>5. QED
    BY <1>1, <1>3, <2>4 DEF Ready, CanMain, MainRuns
<1>4. CASE ~Posting("main") /\ main # "process"
  <2>1. main \in {"loop", "idle", "advance", "flush", "leave", "recheck", "wait", "restore"}
    BY <1>4 DEF Inv, TypeOK, TypeArm
  <2>2. QED
    BY <1>1, <1>4, <2>1 DEF Ready, CanMain, MainRuns, Flooded
<1>5. QED
  BY <1>2, <1>3, <1>4

(* When the ARM sleeps, a request that is answered has its reply waiting. *)
LEMMA ReplyWaits ==
    ASSUME Inv, RestInv, ~panicked, main = "wait", irq = "off", Pending = {}, ~nandBusy, InEmpty,
           ppc = "receive", request.kind \in Answered
    PROVE  armMsg.tail # outHead
<1>1. request \in Request /\ outHead = ppcMsg.head
  BY DEF Inv, PpcInv
<1>2. Somewhere(request)
  BY DEF RestInv, Awaited, Waited
<1>3. ASSUME NEW i \in 0 .. InSize - 1, InHas(i) PROVE FALSE
  BY <1>3, IdTypes DEF InHas, InEmpty, Occupied
<1>4. ASSUME NEW j \in 0 .. SlowSize - 1, SlowHas(j) PROVE FALSE
  BY <1>4, IdTypes DEF SlowHas, Inv, NoLostWakeup, SlowEmpty, Occupied
<1>5. nandReq = None
  BY DEF RestInv, NandDue, Pending
<1>6. ~AtArm(request)
  BY <1>1, <1>3, <1>4, <1>5, NoneAssumption DEF AtArm
<1>7. \A c \in Contexts : ~Posting(c)
  BY DEF Inv, ControlInv, Contexts
<1>8. ~AtPost(request)
  BY <1>7 DEF AtPost, Posting
<1>9. AtPpc(request)
  BY <1>2, <1>6, <1>8 DEF Somewhere
<1>10. PICK i \in 0 .. OutSize - 1 : Occupied(i, ppcMsg.head, armMsg.tail)
  BY <1>9 DEF AtPpc
<1>11. armMsg.tail \in 0 .. OutSize - 1 /\ ppcMsg.head \in 0 .. OutSize - 1
  BY CarrierTypes DEF Message
<1>12. QED
  BY <1>1, <1>10, <1>11 DEF Occupied

LEMMA StopsWell ==
    ASSUME ExchangeKinds \cap {"mute", "poke"} = {},
           Inv, IdsInv, CallInv, RestInv, NoLostBell
    PROVE  StopsOnlyAtRest
<1> SUFFICES ASSUME ~Ready, ~Flooded, ~panicked, main # "left" PROVE AtRest
  BY DEF StopsOnlyAtRest
<1>1. irq = "off"
  BY HandlerReady
<1>2. main = "wait" /\ Pending = {}
  BY <1>1, MainReady
<1>3. SlowEmpty
  BY <1>2 DEF Inv, NoLostWakeup
<1>4. ~bell /\ ~nandBusy
  BY <1>2 DEF Pending, Ready, CanDevice
<1>5. ppc \notin {"init", "idle", "poke", "bell", "ack", "match"}
  BY DEF Ready, CanPpc
<1>6. InEmpty
  BY <1>1, <1>2, <1>4, <1>5 DEF NoLostBell
<1>7. armMsg.head = inHead
  BY DEF Inv, RegistersInv
<1>8. ppc # "room"
  <2>1. SUFFICES ASSUME ppc = "room" PROVE ~IsFull(armMsg.head, inTail, InSize)
    BY DEF Ready, CanPpc
  <2>2. inTail = armMsg.head
    BY <1>6, <1>7, <2>1 DEF InEmpty, Inv, PpcInv
  <2>3. Succ(inTail, InSize) # inTail
    BY SuccValue, IdTypes
  <2>4. QED
    BY <2>2, <2>3 DEF IsFull
<1>9. ppc # "flush"
  <2>1. SUFFICES ASSUME ppc = "flush" PROVE armMsg.head = inTail
    BY DEF Ready, CanPpc
  <2>2. QED
    BY <1>6, <1>7, <2>1 DEF InEmpty, Inv, PpcInv
<1>10. ppc # "receive"
  <2>1. SUFFICES ASSUME ppc = "receive" PROVE armMsg.tail # outHead
    BY DEF Ready, CanPpc
  <2>2. request \in Request /\ request.tag # 0
    BY <2>1, NoneAssumption DEF Inv, PpcInv, CallInv, OneCall, Waited
  <2>3. request.kind \in Answered
    BY <2>2, KindsAssumption, NoneAssumption DEF RestInv, AsksExchange, Answered
  <2>4. QED
    BY <1>1, <1>2, <1>4, <1>6, <2>1, <2>3, ReplyWaits
<1>11. ppc \in {"reset", "off"}
  BY <1>5, <1>8, <1>9, <1>10, CarrierTypes
<1>12. QED
  BY <1>1, <1>2, <1>3, <1>6, <1>11 DEF AtRest

(***************************************************************************)
(* The two processors stop together only where they should, for rings of   *)
(* every size: at rest, or because the client does not read its replies,   *)
(* or sent more slow requests than fit, or the ARM has left.  No wait of   *)
(* theirs is for one another: not the spins in ipc_vpost, ipc_post,        *)
(* ipc_receive and ipc_flush, not irq_wait.  What the client waits for is  *)
(* to be of a kind that is answered, and the PowerPC is not to be stopped  *)
(* between publishing a request and ringing for it.                        *)
(***************************************************************************)
THEOREM StopsProperly ==
    ASSUME ExchangeKinds \cap {"mute", "poke"} = {}
    PROVE  Spec /\ RingsOnce => []StopsOnlyAtRest
<1>1. Init => NoLostBell /\ RestInv
  BY RestInit DEF Init, NoLostBell, InEmpty
<1>2. Inv /\ NoLostBell /\ [Next]_vars /\ [ppc = "bell" => ppc' \notin {"init", "reset"}]_ppc
      => NoLostBell'
  BY BellStep
<1>3. Inv /\ OutInv /\ IdsInv /\ RestInv /\ [Next]_vars => RestInv'
  BY RestKept
<1>4. Inv /\ IdsInv /\ CallInv /\ RestInv /\ NoLostBell => StopsOnlyAtRest
  BY StopsWell
<1>5. QED
  BY <1>1, <1>2, <1>3, <1>4, CallInvariant, PTL DEF Spec, RingsOnce

(* And so it does as the runs state it, if the guards are what enables. *)
THEOREM StopsProperlyEnabled ==
    ASSUME ExchangeKinds \cap {"mute", "poke"} = {}
    PROVE  Spec /\ RingsOnce /\ []GuardsSuffice => []StopsAtRestOrFlooded
<1>1. GuardsSuffice /\ StopsOnlyAtRest => StopsAtRestOrFlooded
  BY DEF StopsAtRestOrFlooded
<1>2. QED
  BY <1>1, StopsProperly, PTL
=============================================================================
