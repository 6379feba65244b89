----------------------------- MODULE NandProofs -----------------------------
(***************************************************************************)
(* Proofs about Nand, for flashes of every size, every minimum page and    *)
(* every number of requests.                                               *)
(***************************************************************************)
EXTENDS Nand, TLAPS

(* What nand_ipc works on; a request it starts it has claimed. *)
MainInv ==
    /\ main = "check" => serving \in Request
    /\ main = "start" => /\ serving \in Request /\ serving.op \in Started
                         /\ current = serving

(* Nobody reads beyond the flash. *)
Inside(r) == r.op = "read" => r.page \in Pages

InsideInv ==
    /\ \A i \in DOMAIN waiting : Inside(waiting[i])
    /\ serving # None => Inside(serving)
    /\ current # None => Inside(current)

(* A command that changes the flash has passed the guard, and still would. *)
GuardInv ==
    chip # None /\ chip.op \in {"write", "erase"} => ~Forbidden(chip)

(* The interrupt is the end of the command. *)
OneInv == irqFlag => chip = None

(***************************************************************************)
(* The one buffer belongs to the request under way: it holds the data of a *)
(* write until the flash has them, and what a read or an identification    *)
(* has read until the interrupt has handed it over, unless the controller  *)
(* reports an error.                                                       *)
(***************************************************************************)
BufferInv ==
    /\ irqFlag /\ current # None /\ current.op = "read" /\ ~error =>
          buffer = flash[current.page]
    /\ irqFlag /\ current # None /\ current.op = "info" /\ ~error => buffer = Mix
    /\ irqFlag /\ current # None /\ current.op = "write" =>
          current.page \in Pages /\ (~error => flash[current.page] \in {buffer, Mix})
    /\ irqFlag /\ current # None /\ current.op = "erase" /\ ~error =>
          \A q \in Block(current.page) : flash[q] = Blank

Inv ==
    /\ TypeOK
    /\ MainInv
    /\ InsideInv
    /\ InterruptHasRequest
    /\ GuardInv
    /\ OneInv
    /\ BufferInv

-----------------------------------------------------------------------------
LEMMA InitInv == Init => Inv
<1> SUFFICES ASSUME Init PROVE Inv
  OBVIOUS
<1> USE GeometryAssumption, BoundsAssumption DEF Init
<1>1. TypeOK
  <2>1. flash \in [Pages -> Contents] /\ buffer \in Contents
    BY DEF Contents
  <2>2. minPage \in 0 .. DefaultMin /\ nextId \in 1 .. MaxRequests + 1
    OBVIOUS
  <2>3. waiting \in Seq(Request) /\ replies \in Seq(Reply)
    OBVIOUS
  <2>4. QED
    BY <2>1, <2>2, <2>3 DEF TypeOK, Damages
<1>2. MainInv /\ InsideInv /\ InterruptHasRequest /\ GuardInv /\ OneInv /\ BufferInv
  BY DEF MainInv, InsideInv, InterruptHasRequest, GuardInv, BufferInv, OneInv
<1>3. QED
  BY <1>1, <1>2 DEF Inv

LEMMA SendStep ==
    ASSUME Inv, NEW r \in Request, r.id = nextId, Inside(r), Send(r) PROVE Inv'
<1> USE DEF Inv, Send, driver, hardware
<1>1. TypeOK'
  BY BoundsAssumption DEF TypeOK
<1>2. InsideInv'
  BY DEF InsideInv, TypeOK, Inside
<1>3. MainInv' /\ InterruptHasRequest' /\ GuardInv' /\ OneInv' /\ BufferInv'
  BY DEF MainInv, InterruptHasRequest, GuardInv, BufferInv, OneInv, Forbidden
<1>4. QED
  BY <1>1, <1>2, <1>3

LEMMA AskStep == ASSUME Inv, Ask PROVE Inv'
<1> USE DEF Asked, Request, Contents, Started, Immediate, Inside
<1>1. CASE \E r \in Request : r.id = nextId /\ Inside(r) /\ Send(r)
  BY <1>1, SendStep
<1>2. ASSUME nextId <= MaxRequests PROVE nextId \in 1 .. MaxRequests
  BY <1>2, BoundsAssumption DEF Inv, TypeOK
<1>3. 0 \in 0 .. NumPages /\ Pages \subseteq 0 .. NumPages
  BY GeometryAssumption DEF Pages
<1>4. ASSUME NEW op \in {"info", "reset", "getmin", "unknown"},
             Send(Asked(op, 0, Blank, nextId))
      PROVE  Inv'
  <2>1. Asked(op, 0, Blank, nextId) \in Request
    BY <1>2, <1>3, <1>4 DEF Send
  <2>2. QED
    BY <1>1, <1>4, <2>1
<1>5. ASSUME NEW p \in Pages, Send(Asked("read", p, Blank, nextId)) PROVE Inv'
  <2>1. Asked("read", p, Blank, nextId) \in Request
    BY <1>2, <1>3, <1>5 DEF Send
  <2>2. QED
    BY <1>1, <1>5, <2>1
<1>6. ASSUME NEW p \in 0 .. NumPages, NEW text \in Texts,
             Send(Asked("write", p, text, nextId))
      PROVE  Inv'
  <2>1. Asked("write", p, text, nextId) \in Request
    BY <1>2, <1>3, <1>6 DEF Send
  <2>2. QED
    BY <1>1, <1>6, <2>1
<1>7. ASSUME NEW p \in 0 .. NumPages, NEW op \in {"erase", "setmin"},
             Send(Asked(op, p, Blank, nextId))
      PROVE  Inv'
  <2>1. Asked(op, p, Blank, nextId) \in Request
    BY <1>2, <1>3, <1>7 DEF Send
  <2>2. QED
    BY <1>1, <1>7, <2>1
<1>8. QED
  BY <1>4, <1>5, <1>6, <1>7 DEF Ask

LEMMA TakeStep == ASSUME Inv, Take PROVE Inv'
<1> USE DEF Inv, Take, hardware
<1>1. Head(waiting) \in Request /\ Tail(waiting) \in Seq(Request)
  BY DEF TypeOK
<1>2. TypeOK'
  BY <1>1 DEF TypeOK
<1>3. InsideInv'
  BY DEF InsideInv, TypeOK, Inside
<1>4. MainInv' /\ InterruptHasRequest' /\ GuardInv' /\ OneInv' /\ BufferInv'
  BY <1>1 DEF MainInv, InterruptHasRequest, GuardInv, BufferInv, OneInv, Forbidden
<1>5. QED
  BY <1>2, <1>3, <1>4

(* A reply to a request is a reply. *)
LEMMA AnswerType ==
    ASSUME TypeOK, NEW r \in Request, NEW err \in Errors, NEW text \in Contents,
           NEW bits \in Damages, Answer(r, err, text, bits)
    PROVE  replies' \in Seq(Reply)
BY DEF TypeOK, Answer, Reply, Request

LEMMA RefuseStep == ASSUME Inv, Refuse PROVE Inv'
<1> USE DEF Inv, Refuse, Return, client, hardware
<1>1. replies' \in Seq(Reply)
  BY AnswerType DEF MainInv, Errors, Contents, Damages
<1>2. TypeOK'
  BY <1>1 DEF TypeOK
<1>3. MainInv' /\ InsideInv' /\ InterruptHasRequest' /\ GuardInv' /\ OneInv' /\ BufferInv'
  BY DEF MainInv, InsideInv, InterruptHasRequest, GuardInv, BufferInv, OneInv, Forbidden
<1>4. QED
  BY <1>2, <1>3

LEMMA AnswerNowStep == ASSUME Inv, AnswerNow PROVE Inv'
<1> USE DEF Inv, AnswerNow, Return, client, hardware
<1>1. replies' \in Seq(Reply)
  BY AnswerType DEF MainInv, Errors, Contents, Damages
<1>2. TypeOK'
  BY <1>1 DEF TypeOK
<1>3. MainInv' /\ InsideInv' /\ InterruptHasRequest' /\ GuardInv' /\ OneInv' /\ BufferInv'
  BY DEF MainInv, InsideInv, InterruptHasRequest, GuardInv, BufferInv, OneInv, Forbidden
<1>4. QED
  BY <1>2, <1>3

(***************************************************************************)
(* The minimum moves only while no request is under way, and so never      *)
(* above a page that is about to change.                                   *)
(***************************************************************************)
LEMMA SetMinPageStep == ASSUME Inv, SetMinPage PROVE Inv'
<1> USE DEF Inv, SetMinPage, Return, client, hardware
<1>1. replies' \in Seq(Reply)
  BY AnswerType DEF MainInv, Errors, Contents, Damages
<1>2. serving.page \in 0 .. DefaultMin
  BY GeometryAssumption DEF MainInv, Request
<1>3. TypeOK'
  BY <1>1, <1>2 DEF TypeOK
<1>4. chip = None /\ ~irqFlag
  BY DEF InterruptHasRequest, TypeOK
<1>5. MainInv' /\ InsideInv' /\ InterruptHasRequest' /\ GuardInv' /\ OneInv' /\ BufferInv'
  BY <1>4 DEF MainInv, InsideInv, InterruptHasRequest, GuardInv, BufferInv, OneInv
<1>6. QED
  BY <1>3, <1>5

LEMMA IgnoreStep == ASSUME Inv, Ignore PROVE Inv'
<1> USE DEF Inv, Ignore, Return, client, hardware
<1>1. TypeOK'
  BY DEF TypeOK
<1>2. MainInv' /\ InsideInv' /\ InterruptHasRequest' /\ GuardInv' /\ OneInv' /\ BufferInv'
  BY DEF MainInv, InsideInv, InterruptHasRequest, GuardInv, BufferInv, OneInv, Forbidden
<1>3. QED
  BY <1>1, <1>2

LEMMA ClaimStep == ASSUME Inv, Claim PROVE Inv'
<1> USE DEF Inv, Claim, client, hardware
<1>1. serving \in Request /\ serving # None
  BY NoneAssumption DEF MainInv
<1>2. TypeOK'
  BY <1>1 DEF TypeOK, Request, Damages
<1>3. chip = None /\ ~irqFlag
  BY DEF InterruptHasRequest, TypeOK
<1>4. InsideInv'
  BY <1>1 DEF InsideInv, Inside
<1>5. MainInv' /\ InterruptHasRequest' /\ GuardInv' /\ OneInv' /\ BufferInv'
  BY <1>1, <1>3 DEF MainInv, InterruptHasRequest, GuardInv, BufferInv, OneInv
<1>6. QED
  BY <1>2, <1>4, <1>5

LEMMA StartStep == ASSUME Inv, Start PROVE Inv'
<1> USE DEF Inv, Start, Return, client
<1>1. /\ serving \in Request /\ serving.op \in Started /\ current = serving
      /\ current # None
  BY NoneAssumption DEF MainInv
<1>2. chip' \in Command /\ chip' # None
  BY <1>1, NoneAssumption DEF Command, Request
<1>3. TypeOK'
  BY <1>2 DEF TypeOK
<1>4. GuardInv'
  BY DEF GuardInv, Forbidden
<1>5. MainInv' /\ InsideInv' /\ InterruptHasRequest' /\ OneInv' /\ BufferInv'
  BY <1>1 DEF MainInv, InsideInv, Inside, InterruptHasRequest, BufferInv, OneInv
<1>6. QED
  BY <1>3, <1>4, <1>5

LEMMA StartNothingStep == ASSUME Inv, StartNothing PROVE Inv'
<1> USE DEF Inv, StartNothing, Return, client, hardware
<1>1. TypeOK'
  BY DEF TypeOK
<1>2. MainInv' /\ InsideInv' /\ InterruptHasRequest' /\ GuardInv' /\ OneInv' /\ BufferInv'
  BY DEF MainInv, InsideInv, InterruptHasRequest, GuardInv, BufferInv, OneInv, Forbidden
<1>3. QED
  BY <1>1, <1>2

(***************************************************************************)
(* The controller works for current_request, on a page of the flash.       *)
(***************************************************************************)
LEMMA Working ==
    ASSUME Inv, chip # None
    PROVE  /\ current \in Request /\ main # "start"
           /\ chip.op = current.op /\ chip.page = current.page
           /\ chip.op # "info" => chip.page \in Pages
<1>1. chip \in Command /\ current \in Request /\ current # None /\ main # "start"
  BY DEF Inv, TypeOK, InterruptHasRequest
<1>2. chip.op = current.op /\ chip.page = current.page
  BY DEF Inv, InterruptHasRequest
<1>3. CASE chip.op = "read"
  BY <1>1, <1>2, <1>3 DEF Inv, InsideInv, Inside
<1>4. CASE chip.op \in {"write", "erase"}
  <2>1. ~Forbidden(chip) /\ chip.page \in 0 .. NumPages /\ minPage \in 0 .. DefaultMin
    BY <1>1, <1>4 DEF Inv, GuardInv, Command, TypeOK
  <2>2. QED
    BY <1>1, <1>2, <1>4, <2>1, GeometryAssumption DEF Forbidden, Pages
<1>5. QED
  BY <1>1, <1>2, <1>3, <1>4 DEF Command, Started

LEMMA ChipReadStep == ASSUME Inv, ChipRead PROVE Inv'
<1> USE DEF Inv, ChipRead, Raise, Runs, client, driver
<1>1. chip.page \in Pages /\ current.page = chip.page /\ current.op = "read"
  BY Working
<1>2. TypeOK'
  BY <1>1 DEF TypeOK, Contents
<1>3. InterruptHasRequest'
  BY Working DEF InterruptHasRequest
<1>4. MainInv' /\ InsideInv' /\ GuardInv' /\ OneInv' /\ BufferInv'
  BY <1>1 DEF MainInv, InsideInv, Inside, GuardInv, BufferInv, OneInv
<1>5. QED
  BY <1>2, <1>3, <1>4

LEMMA ChipInfoStep == ASSUME Inv, ChipInfo PROVE Inv'
<1> USE DEF Inv, ChipInfo, Raise, Runs, client, driver
<1>1. current.op = "info"
  BY Working
<1>2. TypeOK'
  BY DEF TypeOK, Contents, Damages
<1>3. InterruptHasRequest'
  BY Working DEF InterruptHasRequest
<1>4. MainInv' /\ InsideInv' /\ GuardInv' /\ OneInv' /\ BufferInv'
  BY <1>1 DEF MainInv, InsideInv, Inside, GuardInv, BufferInv, OneInv
<1>5. QED
  BY <1>2, <1>3, <1>4

LEMMA ChipWriteStep == ASSUME Inv, ChipWrite PROVE Inv'
<1> USE DEF Inv, ChipWrite, Raise, Runs, client, driver
<1>1. chip.page \in Pages /\ current.page = chip.page /\ current.op = "write"
  BY Working
<1>2. Written(flash[chip.page], buffer) \in {buffer, Mix}
  BY DEF Written
<1>3. flash' \in [Pages -> Contents] /\ error' \in BOOLEAN
  BY <1>1, <1>2 DEF TypeOK, Contents
<1>4. TypeOK'
  BY <1>3 DEF TypeOK
<1>5. InterruptHasRequest'
  BY Working DEF InterruptHasRequest
<1>6. BufferInv'
  BY <1>1, <1>2 DEF BufferInv, TypeOK
<1>7. MainInv' /\ InsideInv' /\ GuardInv' /\ OneInv'
  BY DEF MainInv, InsideInv, Inside, GuardInv, OneInv
<1>8. QED
  BY <1>4, <1>5, <1>6, <1>7

LEMMA ChipEraseStep == ASSUME Inv, ChipErase PROVE Inv'
<1> USE DEF Inv, ChipErase, Raise, Runs, client, driver
<1>1. chip.page \in Pages /\ current.page = chip.page /\ current.op = "erase"
  BY Working
<1>2. flash' \in [Pages -> Contents] /\ error' \in BOOLEAN
  BY <1>1 DEF TypeOK, Contents
<1>3. TypeOK'
  BY <1>2 DEF TypeOK
<1>4. InterruptHasRequest'
  BY Working DEF InterruptHasRequest
<1>5. BufferInv'
  BY <1>1 DEF BufferInv, Block
<1>6. MainInv' /\ InsideInv' /\ GuardInv' /\ OneInv'
  BY DEF MainInv, InsideInv, Inside, GuardInv, OneInv
<1>7. QED
  BY <1>3, <1>4, <1>5, <1>6

LEMMA VerdictType ==
    ASSUME NEW content, NEW bits \in Damages
    PROVE  Verdict(content, bits) \in Errors
BY DEF Verdict, Errors, Damages

LEMMA IrqReadStep == ASSUME Inv, IrqRead PROVE Inv'
<1> USE DEF Inv, IrqRead, client
<1>1. /\ damage' \in Damages
      /\ Answer(current, Verdict(buffer, damage), buffer, damage')
  BY DEF TypeOK, Damages
<1>2. current \in Request /\ Verdict(buffer, damage) \in Errors /\ buffer \in Contents
  BY VerdictType DEF TypeOK
<1>3. replies' \in Seq(Reply)
  BY <1>1, <1>2, AnswerType
<1>4. TypeOK'
  BY <1>1, <1>3 DEF TypeOK
<1>5. chip = None /\ main # "start"
  BY DEF InterruptHasRequest, OneInv
<1>6. MainInv' /\ InsideInv' /\ InterruptHasRequest' /\ GuardInv' /\ OneInv' /\ BufferInv'
  BY <1>5 DEF MainInv, InsideInv, Inside, InterruptHasRequest, GuardInv, BufferInv, OneInv
<1>7. QED
  BY <1>4, <1>6

LEMMA IrqOtherStep == ASSUME Inv, IrqOther PROVE Inv'
<1> USE DEF Inv, IrqOther, client
<1>1. current \in Request /\ buffer \in Contents
  BY DEF TypeOK
<1>2. replies' \in Seq(Reply)
  BY <1>1, AnswerType DEF Errors, Damages
<1>3. TypeOK'
  BY <1>2 DEF TypeOK
<1>4. chip = None /\ main # "start"
  BY DEF InterruptHasRequest, OneInv
<1>5. MainInv' /\ InsideInv' /\ InterruptHasRequest' /\ GuardInv' /\ OneInv' /\ BufferInv'
  BY <1>4 DEF MainInv, InsideInv, Inside, InterruptHasRequest, GuardInv, BufferInv, OneInv
<1>6. QED
  BY <1>3, <1>5

LEMMA StutterInv == ASSUME Inv, UNCHANGED vars PROVE Inv'
<1> USE DEF Inv, vars, client, driver, hardware
<1>1. TypeOK'
  BY DEF TypeOK
<1>2. MainInv' /\ InsideInv' /\ InterruptHasRequest' /\ GuardInv' /\ OneInv' /\ BufferInv'
  BY DEF MainInv, InsideInv, Inside, InterruptHasRequest, GuardInv, BufferInv, OneInv, Forbidden
<1>3. QED
  BY <1>1, <1>2

LEMMA NextInv == Inv /\ [Next]_vars => Inv'
<1> SUFFICES ASSUME Inv, [Next]_vars PROVE Inv'
  OBVIOUS
<1>1. CASE Ask
  BY <1>1, AskStep
<1>2. CASE Main
  BY <1>2, TakeStep, RefuseStep, AnswerNowStep, SetMinPageStep, IgnoreStep, ClaimStep,
     StartStep, StartNothingStep
     DEF Main
<1>3. CASE Chip
  BY <1>3, ChipReadStep, ChipInfoStep, ChipWriteStep, ChipEraseStep DEF Chip
<1>4. CASE Irq
  BY <1>4, IrqReadStep, IrqOtherStep DEF Irq
<1>5. CASE UNCHANGED vars
  BY <1>5, StutterInv
<1>6. QED
  BY <1>1, <1>2, <1>3, <1>4, <1>5 DEF Next

(* In every reachable state the invariant holds. *)
THEOREM Invariant == Spec => []Inv
BY InitInv, NextInv, PTL DEF Spec

(* Type correctness; among others the minimum never exceeds the default. *)
THEOREM TypeCorrect == Spec => []TypeOK
<1>1. Inv => TypeOK
  BY DEF Inv
<1>2. QED
  BY <1>1, Invariant, PTL

(***************************************************************************)
(* nand_irq always finds the request its interrupt belongs to: nand_ipc    *)
(* never replaces current_request while the controller works.              *)
(***************************************************************************)
THEOREM InterruptsMatched == Spec => []InterruptHasRequest
<1>1. Inv => InterruptHasRequest
  BY DEF Inv
<1>2. QED
  BY <1>1, Invariant, PTL

-----------------------------------------------------------------------------
(* Only the controller changes the flash, and only where the guard let it. *)
LEMMA ProtectedStep ==
    ASSUME Inv, [Next]_vars, NEW q \in Pages, flash'[q] # flash[q]
    PROVE  \E p \in Block(q) : p >= minPage
<1>1. ChipWrite \/ ChipErase
  BY DEF Next, Ask, Send, Main, Take, Refuse, AnswerNow, SetMinPage, Ignore, Claim, Start,
         StartNothing, Chip, ChipRead, ChipInfo, Irq, IrqRead, IrqOther, vars, hardware
<1>2. chip # None /\ chip.op \in {"write", "erase"}
  BY <1>1 DEF ChipWrite, ChipErase, Runs
<1>3. chip.page \in Pages /\ ~Forbidden(chip)
  BY <1>2, Working DEF Inv, GuardInv
<1>4. chip.page >= minPage
  BY <1>2, <1>3, GeometryAssumption DEF Forbidden, Pages, Inv, TypeOK
<1>5. chip.page \in Block(q)
  <2>1. CASE ChipWrite
    <3>1. q = chip.page
      BY <2>1 DEF ChipWrite, Inv, TypeOK
    <3>2. QED
      BY <3>1 DEF Block
  <2>2. CASE ChipErase
    <3>1. q \in Block(chip.page)
      BY <2>2 DEF ChipErase
    <3>2. QED
      BY <1>3, <3>1 DEF Block
  <2>3. QED
    BY <1>1, <2>1, <2>2
<1>6. QED
  BY <1>4, <1>5

(***************************************************************************)
(* boot1 and boot2 are safe for every flash: a page changes only if its    *)
(* block reaches up to the minimum in force at that moment.                *)
(***************************************************************************)
THEOREM BootProtected == Spec => Protected
<1>1. Inv /\ [Next]_vars =>
        [\A q \in Pages : flash'[q] # flash[q] => \E p \in Block(q) : p >= minPage]_vars
  BY ProtectedStep
<1>2. QED
  BY <1>1, Invariant, PTL DEF Spec, Protected

-----------------------------------------------------------------------------
(***************************************************************************)
(* A reply of nand_irq to a read the controller has done hands over the    *)
(* page, unless it says that it cannot.                                    *)
(***************************************************************************)
LEMMA IrqReadTruthful ==
    ASSUME Inv, IrqRead PROVE Truthful(replies'[Len(replies')])
<1> DEFINE r == replies'[Len(replies')]
<1>1. /\ r.op = "read" /\ r.page = current.page /\ r.text = buffer
      /\ r.err = Verdict(buffer, damage) /\ r.damage = damage'
  BY DEF IrqRead, Answer, Inv, TypeOK
<1>2. ~error => buffer = flash[current.page]
  BY DEF IrqRead, Inv, BufferInv
<1>3. r.err # "failed" /\ buffer # Blank => damage' = "none"
  BY <1>1 DEF IrqRead, Verdict, Inv, TypeOK, Damages
<1>4. QED
  BY <1>1, <1>2, <1>3 DEF Truthful

LEMMA IrqOtherTruthful ==
    ASSUME Inv, IrqOther PROVE Truthful(replies'[Len(replies')])
<1> DEFINE r == replies'[Len(replies')]
<1>1. /\ r.op = current.op /\ r.page = current.page /\ r.text = buffer
      /\ r.err = "ok" => ~error
  BY DEF IrqOther, Answer, Inv, TypeOK
<1>2. current.op # "read"
  BY DEF IrqOther
<1>3. ASSUME current.op = "write", ~error PROVE flash[current.page] \in {buffer, Mix}
  BY <1>3 DEF IrqOther, Inv, BufferInv
<1>4. ASSUME current.op = "erase", ~error PROVE \A q \in Block(current.page) : flash[q] = Blank
  BY <1>4 DEF IrqOther, Inv, BufferInv
<1>5. ASSUME current.op = "info", ~error PROVE buffer = Mix
  BY <1>5 DEF IrqOther, Inv, BufferInv
<1>6. QED
  BY <1>1, <1>2, <1>3, <1>4, <1>5 DEF Truthful

(* What nand_ipc itself answers is no read, write or erasure done. *)
LEMMA AtOnceTruthful ==
    ASSUME Inv, Refuse \/ AnswerNow \/ SetMinPage PROVE Truthful(replies'[Len(replies')])
<1> DEFINE r == replies'[Len(replies')]
<1>1. r.err = "failed" \/ r.op \in {"reset", "getmin", "setmin"}
  BY DEF Refuse, AnswerNow, SetMinPage, Answer, Inv, TypeOK
<1>2. QED
  BY <1>1 DEF Truthful

(***************************************************************************)
(* Replies are truthful for every flash and every order of requests, though *)
(* all share one buffer and any command can fail; of the reply to a read   *)
(* the controller reports as failed, RepliesTruthful claims nothing,       *)
(* because nand_irq overwrites that report (nand.c:84).                    *)
(***************************************************************************)
THEOREM RepliesAreTruthful == Spec => RepliesTruthful
<1>1. Inv /\ [Next]_vars => [replies' # replies => Truthful(replies'[Len(replies')])]_vars
  <2> SUFFICES ASSUME Inv, [Next]_vars, replies' # replies
               PROVE  Truthful(replies'[Len(replies')])
    OBVIOUS
  <2>1. Refuse \/ AnswerNow \/ SetMinPage \/ IrqRead \/ IrqOther
    BY DEF Next, Ask, Send, Main, Take, Ignore, Claim, Start, StartNothing, Chip, ChipRead,
           ChipInfo, ChipWrite, ChipErase, Irq, vars
  <2>2. QED
    BY <2>1, IrqReadTruthful, IrqOtherTruthful, AtOnceTruthful
<1>2. QED
  BY <1>1, Invariant, PTL DEF Spec, RepliesTruthful

-----------------------------------------------------------------------------
(***************************************************************************)
(* Every id is in one place at a time: waiting, at nand_ipc, under way, or *)
(* answered.                                                               *)
(***************************************************************************)
Open(id) ==
    /\ id < nextId
    /\ \A i \in DOMAIN waiting : waiting[i].id # id
    /\ \A i \in DOMAIN replies : replies[i].id # id

IdsInv ==
    /\ \A i \in DOMAIN waiting : waiting[i].id < nextId
    /\ \A i \in DOMAIN replies : replies[i].id < nextId
    /\ \A i, j \in DOMAIN waiting : waiting[i].id = waiting[j].id => i = j
    /\ \A i \in DOMAIN replies, j \in DOMAIN waiting : replies[i].id # waiting[j].id
    /\ main = "check" => Open(serving.id)
    /\ current # None => Open(current.id)
    /\ main = "check" /\ current # None => serving.id # current.id
    /\ AnsweredOnce

LEMMA InitIds == Init => IdsInv
BY DEF Init, IdsInv, AnsweredOnce

(* A request that is answered was open, and is no longer. *)
LEMMA AnswerIds ==
    ASSUME Inv, IdsInv, NEW r \in Request, NEW err, NEW text, NEW bits, Open(r.id),
           Answer(r, err, text, bits), UNCHANGED client
    PROVE  /\ \A i \in DOMAIN replies' : replies'[i].id < nextId
           /\ \A i \in DOMAIN replies', j \in DOMAIN waiting : replies'[i].id # waiting[j].id
           /\ AnsweredOnce'
           /\ \A id : id # r.id /\ Open(id) => Open(id)'
<1>1. /\ replies \in Seq(Reply)
      /\ replies' = Append(replies, [id |-> r.id, op |-> r.op, page |-> r.page,
                                     err |-> err, text |-> text, damage |-> bits])
      /\ waiting' = waiting /\ nextId' = nextId
  BY DEF Answer, Inv, TypeOK, client
<1>2. /\ DOMAIN replies' = 1 .. Len(replies) + 1
      /\ DOMAIN replies = 1 .. Len(replies)
      /\ \A i \in DOMAIN replies : replies'[i] = replies[i]
      /\ replies'[Len(replies) + 1].id = r.id
  BY <1>1
<1>3. \A i \in DOMAIN replies' : i \in DOMAIN replies \/ i = Len(replies) + 1
  BY <1>1, <1>2
<1>4. QED
  BY <1>1, <1>2, <1>3 DEF IdsInv, Open, AnsweredOnce

LEMMA SendIds ==
    ASSUME Inv, IdsInv, NEW r, r.id = nextId, Send(r)
    PROVE  IdsInv'
<1>1. waiting \in Seq(Request) /\ nextId \in Nat
  BY BoundsAssumption DEF Inv, TypeOK
<1>2. /\ DOMAIN waiting' = 1 .. Len(waiting) + 1
      /\ DOMAIN waiting = 1 .. Len(waiting)
      /\ \A i \in DOMAIN waiting : waiting'[i] = waiting[i]
      /\ waiting'[Len(waiting) + 1] = r
  BY <1>1 DEF Send
<1>3. \A i \in DOMAIN waiting' : i \in DOMAIN waiting \/ i = Len(waiting) + 1
  BY <1>1, <1>2
<1>4. /\ nextId' = nextId + 1
      /\ UNCHANGED <<replies, main, serving, current>>
  BY DEF Send, driver
<1>5. /\ main = "check" => serving.id \in Nat
      /\ current # None => current.id \in Nat
      /\ \A i \in DOMAIN waiting : waiting[i].id \in Nat
      /\ \A i \in DOMAIN replies : replies[i].id \in Nat
  <2>1. \A q \in Request \cup Reply : q.id \in Nat
    BY BoundsAssumption DEF Request, Reply
  <2>2. main = "check" => serving \in Request
    BY DEF Inv, MainInv
  <2>3. current # None => current \in Request
    BY DEF Inv, TypeOK
  <2>4. /\ \A i \in DOMAIN waiting : waiting[i] \in Request
        /\ \A i \in DOMAIN replies : replies[i] \in Reply
    BY DEF Inv, TypeOK
  <2>5. QED
    BY <2>1, <2>2, <2>3, <2>4
<1>6. QED
  BY <1>1, <1>2, <1>3, <1>4, <1>5 DEF IdsInv, Open, AnsweredOnce

LEMMA TakeIds == ASSUME Inv, IdsInv, Take PROVE IdsInv'
<1>1. /\ waiting \in Seq(Request) /\ waiting # <<>>
      /\ serving' = waiting[1] /\ waiting' = Tail(waiting)
      /\ UNCHANGED <<nextId, replies, current>>
  BY DEF Take, Inv, TypeOK
<1>2. /\ DOMAIN waiting = 1 .. Len(waiting) /\ Len(waiting) \in Nat \ {0}
      /\ DOMAIN waiting' = 1 .. Len(waiting) - 1
      /\ \A i \in DOMAIN waiting' : waiting'[i] = waiting[i + 1]
  BY <1>1
<1>3. 1 \in DOMAIN waiting /\ \A i \in DOMAIN waiting' : i + 1 \in DOMAIN waiting /\ i + 1 # 1
  BY <1>2
<1>4. \A i, j \in DOMAIN waiting' : i + 1 = j + 1 => i = j
  BY <1>2
<1>5. QED
  BY <1>1, <1>2, <1>3, <1>4 DEF IdsInv, Open, AnsweredOnce

(***************************************************************************)
(* Every step keeps each id in one place.                                  *)
(***************************************************************************)
LEMMA NextIds == ASSUME Inv, IdsInv, [Next]_vars PROVE IdsInv'
<1>1. CASE Ask
  BY <1>1, SendIds DEF Ask, Asked
<1>2. CASE Take
  BY <1>2, TakeIds
<1>3. CASE Refuse \/ AnswerNow \/ SetMinPage
  <2>1. PICK err, text, bits : Answer(serving, err, text, bits)
    BY <1>3 DEF Refuse, AnswerNow, SetMinPage
  <2>2. /\ main = "check" /\ main' = "idle" /\ UNCHANGED <<client, current>>
    BY <1>3 DEF Refuse, AnswerNow, SetMinPage, Return
  <2>3. serving \in Request /\ Open(serving.id)
    BY <2>2 DEF Inv, MainInv, IdsInv
  <2>4. QED
    BY <2>1, <2>2, <2>3, AnswerIds DEF IdsInv, client
<1>4. CASE Irq
  <2>1. PICK err, text, bits : Answer(current, err, text, bits)
    BY <1>4 DEF Irq, IrqRead, IrqOther
  <2>2. /\ current # None /\ current' = None /\ UNCHANGED <<client, serving, main>>
    BY <1>4 DEF Irq, IrqRead, IrqOther
  <2>3. current \in Request /\ Open(current.id)
    BY <2>2 DEF Inv, TypeOK, IdsInv
  <2>4. QED
    BY <2>1, <2>2, <2>3, AnswerIds DEF IdsInv, client
<1>5. CASE Claim
  <2>1. /\ main = "check" /\ main' = "start" /\ current' = serving
        /\ UNCHANGED <<waiting, nextId, replies>>
    BY <1>5 DEF Claim, client
  <2>2. QED
    BY <2>1 DEF IdsInv, Open, AnsweredOnce
<1>6. CASE Ignore \/ Start \/ StartNothing
  <2>1. main' = "idle" /\ UNCHANGED <<waiting, nextId, replies, current>>
    BY <1>6 DEF Ignore, Start, StartNothing, Return, client
  <2>2. QED
    BY <2>1 DEF IdsInv, Open, AnsweredOnce
<1>7. CASE Chip \/ UNCHANGED vars
  <2>1. UNCHANGED <<waiting, nextId, replies, main, serving, current>>
    BY <1>7 DEF Chip, ChipRead, ChipInfo, ChipWrite, ChipErase, vars, client, driver
  <2>2. QED
    BY <2>1 DEF IdsInv, Open, AnsweredOnce
<1>8. QED
  BY <1>1, <1>2, <1>3, <1>4, <1>5, <1>6, <1>7 DEF Next, Main

(* No request is answered twice, however many are sent. *)
THEOREM NeverAnsweredTwice == Spec => []AnsweredOnce
<1>1. IdsInv => AnsweredOnce
  BY DEF IdsInv
<1>2. Inv /\ IdsInv /\ [Next]_vars => IdsInv'
  BY NextIds
<1>3. QED
  BY <1>1, <1>2, InitIds, Invariant, PTL DEF Spec
=============================================================================
