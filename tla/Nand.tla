-------------------------------- MODULE Nand --------------------------------
(***************************************************************************)
(* The NAND driver (mini/nand.c): nand_ipc on the main loop, nand_irq in   *)
(* the interrupt handler, and the flash controller between them.           *)
(*                                                                         *)
(* One request is under way at a time: current_request.  nand_ipc claims   *)
(* it, copies a write's data to the one buffer ipc_data and starts the     *)
(* controller; nand_irq answers it and lets it go.  nand_min_page guards   *)
(* boot1 and boot2 against writes and erasures.                            *)
(*                                                                         *)
(* More than one request may wait: a PowerPC program that is stopped and   *)
(* started again does not wait for its predecessor's.  MiniIpc models how  *)
(* requests come here and replies go back; here they are a queue and a     *)
(* sequence.                                                               *)
(***************************************************************************)
EXTENDS Integers, Sequences, FiniteSets

CONSTANTS
    NumPages,      \* NAND_MAX_PAGE, nand.h:23
    BlockSize,     \* BLOCK_SIZE, nand.h:22: pages erased together
    DefaultMin,    \* 0x200, nand.c:62: boot1 and boot2 end here
    Texts,         \* what a client writes on a page
    Blank,         \* what an erased page holds
    Mix,           \* any other data: a page written twice without an erasure,
                   \* an identification, a page that arrived in part
    MaxRequests,   \* bound: requests in all
    MaxWaiting,    \* bound: requests waiting in the slow queue
    None           \* no request

ASSUME GeometryAssumption ==
    /\ NumPages \in Nat /\ BlockSize \in Nat \ {0}
    /\ DefaultMin \in 0 .. NumPages

ASSUME BoundsAssumption == MaxRequests \in Nat /\ MaxWaiting \in Nat

ASSUME ContentsAssumption ==
    Blank \notin Texts /\ Mix \notin Texts /\ Blank # Mix /\ None \notin Texts \cup {Blank, Mix}

Pages == 0 .. NumPages - 1
Contents == Texts \cup {Blank, Mix}

(* The pages erased together with p. *)
Block(p) == {q \in Pages : q \div BlockSize = p \div BlockSize}

(***************************************************************************)
(* The requests.  info stands for GETID and STATUS; page is the argument   *)
(* of SETMINPAGE too; unknown for a request code without a case.  Nobody   *)
(* reads beyond the flash, but writes and erasures may ask for it.         *)
(***************************************************************************)
Started == {"info", "read", "write", "erase"}     \* by the controller
Immediate == {"reset", "getmin", "setmin", "unknown"}

Request == [op : Started \cup Immediate, page : 0 .. NumPages, text : Contents,
            id : 1 .. MaxRequests]

Command == [op : Started, page : 0 .. NumPages]

ASSUME NoneAssumption == None \notin Request \cup Command

Asked(op, page, text, id) == [op |-> op, page |-> page, text |-> text, id |-> id]

Errors == {"ok", "corrected", "failed"}
Damages == {"none", "one", "many"}

VARIABLES
    waiting,   \* requests in the slow queue
    nextId,    \* of the next request
    serving,   \* main loop: the request nand_ipc works on
    main,      \* "idle", "check" or "start"
    current,   \* current_request; None stands for code 0
    buffer,    \* ipc_data
    damage,    \* bits of it that are wrong by the ECC words in ipc_ecc
    minPage,   \* nand_min_page
    chip,      \* the command the controller works on
    irqFlag,   \* its interrupt
    error,     \* NAND_ERROR
    flash,     \* what the pages hold
    replies    \* in the order of ipc_post

client == <<waiting, nextId>>
driver == <<serving, main, current, minPage>>
hardware == <<chip, irqFlag, error, flash>>
vars == <<client, driver, hardware, buffer, damage, replies>>

Init ==
    /\ waiting = <<>> /\ nextId = 1
    /\ serving = None /\ main = "idle"
    /\ current = None
    /\ buffer = Blank /\ damage = "none"
    /\ minPage = DefaultMin
    /\ chip = None /\ irqFlag = FALSE /\ error = FALSE
    /\ flash \in [Pages -> {Blank, Mix}]
    /\ replies = <<>>

-----------------------------------------------------------------------------
(* The PowerPC asks. *)
Send(r) ==
    /\ nextId <= MaxRequests /\ Len(waiting) < MaxWaiting
    /\ waiting' = Append(waiting, r)
    /\ nextId' = nextId + 1
    /\ UNCHANGED <<driver, hardware, buffer, damage, replies>>

Ask ==
    \/ \E op \in {"info", "reset", "getmin", "unknown"} : Send(Asked(op, 0, Blank, nextId))
    \/ \E p \in Pages : Send(Asked("read", p, Blank, nextId))
    \/ \E p \in 0 .. NumPages :
        \/ \E text \in Texts : Send(Asked("write", p, text, nextId))
        \/ \E op \in {"erase", "setmin"} : Send(Asked(op, p, Blank, nextId))

(* process_slow hands the next request to nand_ipc. *)
Take ==
    /\ main = "idle" /\ waiting # <<>>
    /\ serving' = Head(waiting) /\ waiting' = Tail(waiting)
    /\ main' = "check"
    /\ UNCHANGED <<nextId, current, minPage, hardware, buffer, damage, replies>>

Answer(r, err, text, bits) ==
    replies' = Append(replies, [id |-> r.id, op |-> r.op, page |-> r.page,
                                err |-> err, text |-> text, damage |-> bits])

Return == main' = "idle" /\ serving' = None

(* Faulty variant: refuse, and go on (the return is missing). *)
RefuseFallThrough ==
    /\ main = "check" /\ current # None
    /\ Answer(serving, "failed", Blank, "none")
    /\ IF serving.op \in Started
       THEN main' = "start" /\ current' = serving /\ UNCHANGED serving
       ELSE Return /\ UNCHANGED current
    /\ UNCHANGED <<client, minPage, hardware, buffer, damage>>

(* A request is under way: refuse this one. *)
Refuse ==
    /\ main = "check" /\ current # None
    /\ Answer(serving, "failed", Blank, "none")
    /\ Return
    /\ UNCHANGED <<client, current, minPage, hardware, buffer, damage>>

(* nand_reset polls the controller; it and GETMINPAGE are answered. *)
AnswerNow ==
    /\ main = "check" /\ current = None /\ serving.op \in {"reset", "getmin"}
    /\ Answer(serving, "ok", Blank, "none")
    /\ Return
    /\ UNCHANGED <<client, current, minPage, hardware, buffer, damage>>

SetMinPage ==
    /\ main = "check" /\ current = None /\ serving.op = "setmin"
    /\ serving.page <= DefaultMin
    /\ minPage' = serving.page
    /\ Answer(serving, "ok", Blank, "none")
    /\ Return
    /\ UNCHANGED <<client, current, hardware, buffer, damage>>

(* A minimum above the default, or an unknown request: no answer. *)
Ignore ==
    /\ main = "check" /\ current = None
    /\ \/ serving.op = "setmin" /\ serving.page > DefaultMin
       \/ serving.op = "unknown"
    /\ Return
    /\ UNCHANGED <<client, current, minPage, hardware, buffer, damage, replies>>

(* current_request = *req, and the data of a write to ipc_data. *)
Claim ==
    /\ main = "check" /\ current = None /\ serving.op \in Started
    /\ current' = serving
    /\ IF serving.op = "write"
       THEN buffer' = serving.text /\ damage' = "none"
       ELSE UNCHANGED <<buffer, damage>>
    /\ main' = "start"
    /\ UNCHANGED <<client, serving, minPage, hardware, replies>>

(* Faulty variant: the guard lets the page below the minimum pass. *)
ForbiddenOffByOne(r) ==
    r.op \in {"write", "erase"} /\ (r.page + 1 < minPage \/ r.page >= NumPages)

(* Faulty variant: the first page that may be written is refused. *)
ForbiddenStrict(r) ==
    r.op \in {"write", "erase"} /\ (r.page <= minPage \/ r.page >= NumPages)

Forbidden(r) == r.op \in {"write", "erase"} /\ (r.page < minPage \/ r.page >= NumPages)

(* nand_get_id, nand_read_page, nand_write_page, nand_erase_block. *)
Start ==
    /\ main = "start" /\ ~Forbidden(serving)
    /\ chip' = [op |-> serving.op, page |-> serving.page]
    /\ irqFlag' = FALSE /\ error' = FALSE
    /\ Return
    /\ UNCHANGED <<client, current, minPage, flash, buffer, damage, replies>>

(* The page is protected, or there is none: no command, and no answer. *)
StartNothing ==
    /\ main = "start" /\ Forbidden(serving)
    /\ Return
    /\ UNCHANGED <<client, current, minPage, hardware, buffer, damage, replies>>

Main ==
    \/ Take \/ Refuse \/ AnswerNow \/ SetMinPage \/ Ignore
    \/ Claim \/ Start \/ StartNothing

-----------------------------------------------------------------------------
(***************************************************************************)
(* The controller and the flash.  A read fills ipc_data, with bit errors   *)
(* perhaps.  Every command can fail.  A read that fails leaves in ipc_data *)
(* what was there, the page, or some of each, and in ipc_ecc words of      *)
(* whatever page or client, so that nand_correct may find anything; a      *)
(* write or an erasure that fails has changed the flash or not.            *)
(***************************************************************************)
Runs(op) == chip # None /\ chip.op = op

Raise == chip' = None /\ irqFlag' = TRUE

ChipRead ==
    /\ Runs("read")
    /\ \/ error' = FALSE /\ buffer' = flash[chip.page]
       \/ error' = TRUE /\ buffer' \in {buffer, flash[chip.page], Mix}
    /\ damage' \in Damages
    /\ Raise
    /\ UNCHANGED <<client, driver, flash, replies>>

ChipInfo ==
    /\ Runs("info")
    /\ \/ error' = FALSE /\ buffer' = Mix
       \/ error' = TRUE /\ buffer' \in {buffer, Mix}
    /\ damage' = "none"
    /\ Raise
    /\ UNCHANGED <<client, driver, flash, replies>>

(* Flash cells are only ever cleared by a write. *)
Written(old, text) == IF old \in {Blank, text} THEN text ELSE Mix

ChipWrite ==
    /\ Runs("write")
    /\ \/ error' = FALSE
          /\ flash' = [flash EXCEPT ![chip.page] = Written(@, buffer)]
       \/ error' = TRUE
          /\ flash' = [flash EXCEPT ![chip.page] = Mix]
    /\ Raise
    /\ UNCHANGED <<client, driver, buffer, damage, replies>>

ChipErase ==
    /\ Runs("erase")
    /\ \/ error' = FALSE
          /\ flash' = [p \in Pages |-> IF p \in Block(chip.page) THEN Blank ELSE flash[p]]
       \/ error' = TRUE /\ UNCHANGED flash
    /\ Raise
    /\ UNCHANGED <<client, driver, buffer, damage, replies>>

Chip == ChipRead \/ ChipInfo \/ ChipWrite \/ ChipErase

-----------------------------------------------------------------------------
(* Faulty variant: pages whose data have two bad bits pass as corrected. *)
VerdictLenient(content, bits) ==
    IF content = Blank \/ bits = "none" THEN "ok" ELSE "corrected"

(***************************************************************************)
(* nand_correct: one bad bit is put right, more are reported; a page whose *)
(* stored ECC is all ones (it was never written) is not looked at.         *)
(***************************************************************************)
Verdict(content, bits) ==
    CASE content = Blank \/ bits = "none" -> "ok"
      [] content # Blank /\ bits = "one" -> "corrected"
      [] OTHER -> "failed"

(***************************************************************************)
(* nand_irq.  What nand_correct says of a read replaces what NAND_ERROR    *)
(* says.                                                                   *)
(***************************************************************************)
IrqRead ==
    /\ irqFlag /\ current # None /\ current.op = "read"
    /\ LET verdict == Verdict(buffer, damage)
           bits == IF damage = "one" /\ buffer # Blank THEN "none" ELSE damage
       IN /\ damage' = bits
          /\ Answer(current, verdict, buffer, bits)
    /\ current' = None /\ irqFlag' = FALSE
    /\ UNCHANGED <<client, serving, main, minPage, chip, error, flash, buffer>>

IrqOther ==
    /\ irqFlag /\ current # None /\ current.op # "read"
    /\ Answer(current, IF error THEN "failed" ELSE "ok", buffer, "none")
    /\ current' = None /\ irqFlag' = FALSE
    /\ UNCHANGED <<client, serving, main, minPage, chip, error, flash, buffer, damage>>

Irq == IrqRead \/ IrqOther

-----------------------------------------------------------------------------
Next == Ask \/ Main \/ Chip \/ Irq

Spec == Init /\ [][Next]_vars

(* The ARM runs, takes its interrupts, and the controller finishes. *)
FairSpec == Spec /\ WF_vars(Main) /\ WF_vars(Chip) /\ WF_vars(Irq)

-----------------------------------------------------------------------------
(***************************************************************************)
(* Properties.                                                             *)
(***************************************************************************)
Reply == [id : 1 .. MaxRequests, op : Started \cup Immediate, page : 0 .. NumPages,
          err : Errors, text : Contents, damage : Damages]

(* Every variable has the type its declaration in nand.c gives it. *)
TypeOK ==
    /\ waiting \in Seq(Request) /\ nextId \in 1 .. MaxRequests + 1
    /\ serving \in Request \cup {None} /\ main \in {"idle", "check", "start"}
    /\ current \in Request \cup {None}
    /\ buffer \in Contents /\ damage \in Damages
    /\ minPage \in 0 .. DefaultMin
    /\ chip \in Command \cup {None} /\ irqFlag \in BOOLEAN /\ error \in BOOLEAN
    /\ flash \in [Pages -> Contents]
    /\ replies \in Seq(Reply)

(***************************************************************************)
(* boot1 and boot2 are safe: whatever is asked in whatever order, a page   *)
(* changes only if its block reaches up to nand_min_page, as it is at that *)
(* moment, long after the guard was passed.                                *)
(***************************************************************************)
Protected ==
    [][\A q \in Pages : flash'[q] # flash[q] => \E p \in Block(q) : p >= minPage]_vars

(***************************************************************************)
(* A reply tells the truth, though every request goes through the same     *)
(* buffer and any command can fail.  A read that is answered without an    *)
(* error hands over what the page holds at that moment; a write or an      *)
(* erasure answered without one has left the page as it should be; GETID   *)
(* and STATUS hand over the controller's answer and nobody's page.         *)
(*                                                                         *)
(* The exception is a read the controller reports as failed: nand_irq      *)
(* drops that (err, nand.c:69, is overwritten in line 84), and what        *)
(* nand_correct says of the stale buffer may well be "ok".  Nothing is     *)
(* claimed of the reply to such a read; of the other commands the claim    *)
(* includes those that fail.  (Bit errors on a page that was never written *)
(* go unnoticed.)                                                          *)
(***************************************************************************)
Truthful(r) ==
    /\ r.op = "read" /\ r.err # "failed" /\ ~error =>
        /\ r.text = flash[r.page]
        /\ r.text # Blank => r.damage = "none"
    /\ r.op = "write" /\ r.err = "ok" => flash[r.page] \in {r.text, Mix}
    /\ r.op = "erase" /\ r.err = "ok" => \A q \in Block(r.page) : flash[q] = Blank
    /\ r.op = "info" /\ r.err = "ok" => r.text = Mix

RepliesTruthful ==
    [][replies' # replies => Truthful(replies'[Len(replies')])]_vars

(* No request is answered twice. *)
AnsweredOnce ==
    \A i, j \in DOMAIN replies : replies[i].id = replies[j].id => i = j

(***************************************************************************)
(* An interrupt of the controller always finds the request it belongs to,  *)
(* and the controller never works for a request that is gone.              *)
(***************************************************************************)
InterruptHasRequest == 
    /\ irqFlag \/ chip # None => current # None /\ main # "start"
    /\ chip # None => chip.op = current.op /\ chip.page = current.page

(***************************************************************************)
(* What the refusal says ("previous IPC request is not done yet",          *)
(* nand.c:297): a request is refused only while the controller works for   *)
(* another, or its interrupt is about to answer it.                        *)
(***************************************************************************)
RefusedOnlyIfBusy ==
    main = "check" /\ current # None => chip # None \/ irqFlag

(***************************************************************************)
(* Every request is answered that is not one of those nand_ipc drops: an   *)
(* unknown code, a minimum above the default, a page that is protected or  *)
(* does not exist.                                                         *)
(***************************************************************************)
Dropped(r) ==
    \/ r.op = "unknown"
    \/ r.op = "setmin" /\ r.page > DefaultMin
    \/ r.op \in {"write", "erase"} /\ (r.page < DefaultMin \/ r.page >= NumPages)

Expected(id) == \E i \in DOMAIN waiting : waiting[i].id = id /\ ~Dropped(waiting[i])

Answered(id) == \E i \in DOMAIN replies : replies[i].id = id

EveryRequestAnswered == \A id \in 1 .. MaxRequests : Expected(id) ~> Answered(id)
=============================================================================
