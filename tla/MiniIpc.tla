------------------------------ MODULE MiniIpc ------------------------------
(***************************************************************************)
(* The request/reply protocol between the PowerPC (libbroadway/ipc.c) and  *)
(* the ARM (mini/ipc.c, with the interrupt entry of mini/irq.c).           *)
(*                                                                         *)
(* Requests travel in inQ, replies in outQ; the ARM's interrupt handler    *)
(* moves requests that take time to slowQ, which the ARM's main loop       *)
(* works off.  The ring indices a processor owns are published in the two  *)
(* halves of its message register: ARMMSG = (inHead, outTail), PPCMSG =    *)
(* (outHead, inTail).  The ARM updates a half of ARMMSG by reading and     *)
(* writing the whole register, from the main loop and from the interrupt   *)
(* handler; irq_kill / irq_restore around ipc_post are what keeps the two  *)
(* apart.                                                                  *)
(*                                                                         *)
(* A request is [kind, tag, id]: kind stands for the request code (what    *)
(* the ARM does with it), tag is the code's tag, and id identifies the     *)
(* request for the properties (it stands for the arguments and the data a  *)
(* reply carries; the ARM copies it, and never looks at it).               *)
(***************************************************************************)
EXTENDS Rings, FiniteSets

CONSTANTS
    InSize, OutSize, SlowSize,   \* slots of the three rings, ipc.h:105-107
    ExchangeKinds,   \* what the PowerPC client sends with ipc_exchange
    PostKinds,       \* what it sends with ipc_post and tag 0, not waiting
    MaxRequests,     \* bound: requests the client sends in all
    MaxCards,        \* bound: SD card insertions and removals
    MaxUploads,      \* bound: programs uploaded over USB Gecko
    None             \* no request

ASSUME SizesAssumption ==
    /\ InSize \in Nat /\ InSize > 1
    /\ OutSize \in Nat /\ OutSize > 1
    /\ SlowSize \in Nat /\ SlowSize > 1

(***************************************************************************)
(* The kinds of request.                                                   *)
(*   fast     answered by the interrupt handler (PING, READ32 ...)         *)
(*   poke     done by the interrupt handler, no reply (WRITE32, SET32 ...) *)
(*   slow     answered by the main loop (GETVERS, SDMMC, AES, KEYS ...)    *)
(*   nand     started by the main loop, answered by the NAND interrupt     *)
(*   mute     the main loop does it and never answers (unknown requests)   *)
(*   ppcboot  IPC_PPC_BOOT from the PowerPC: answered only if it fails     *)
(*   boot2    IPC_BOOT2_RUN: answered, flushed, then the ARM leaves        *)
(*   armboot, armjump, discover   enqueued by the ARM itself               *)
(***************************************************************************)
FastKinds == {"fast", "poke"}
ClientKinds == FastKinds \cup {"slow", "nand", "mute", "ppcboot", "boot2"}
ArmKinds == {"armboot", "armjump", "discover"}

ASSUME KindsAssumption ==
    /\ ExchangeKinds \subseteq ClientKinds
    /\ PostKinds \subseteq ClientKinds

ASSUME BoundsAssumption ==
    MaxRequests \in Nat /\ MaxCards \in Nat /\ MaxUploads \in Nat

Request == [kind : ClientKinds \cup ArmKinds, tag : 0 .. MaxRequests, id : 0 .. MaxRequests]

ASSUME NoneAssumption == None \notin Request

FromArm(kind) == [kind |-> kind, tag |-> 0, id |-> 0]

Contexts == {"main", "irq"}   \* who runs on the ARM

VARIABLES
    armMsg, ppcMsg,     \* the message registers, [head, tail] each
    bell,               \* IN bit of ARMCTRL: the PowerPC rang
    inQ, outQ, slowQ,   \* the slots
    inHead, outTail, slowHead, slowTail,   \* the ARM's indices
    irqOff,             \* I bit of the ARM's CPSR
    post, reply, cookie, copy,     \* ipc_post in progress, per context: where it
                        \* is, req, cookie, what it has read of ARMMSG
    main, served,       \* main loop: where it is; the request it works on
    irq, flags,         \* interrupt handler: where it is; flags it has read
    nandReq, nandBusy, nandFlag,   \* current_request; controller; its IRQ
    cards, cardFlag,    \* SD card events so far; SDHC interrupt
    gecko, uploads, timerFlag,     \* gecko.c: receiving?; alarm interrupt
    panicked,           \* panic2(0, PANIC_IPCOVF)
    inTail, outHead, curTag,       \* the PowerPC's indices, next tag
    ppc, request, received,        \* where it is; what it sends; req_recv
    nextId, firstId,    \* next id; the first of the running program
    done                \* ids in the order in which the ARM executed them

rings == <<armMsg, ppcMsg, inQ, outQ, slowQ, inHead, outTail, slowHead, slowTail>>
posts == <<post, reply, cookie, copy>>
armCpu == <<irqOff, posts, main, served, irq, flags, panicked>>
nand == <<nandReq, nandBusy, nandFlag>>
devices == <<cards, cardFlag, gecko, uploads, timerFlag>>
ppcCpu == <<inTail, outHead, curTag, ppc, request, received, nextId, firstId>>
vars == <<rings, bell, armCpu, nand, devices, ppcCpu, done>>

(* Both sides have initialised; the PowerPC is about to. *)
Init ==
    /\ armMsg = [head |-> 0, tail |-> 0]
    /\ ppcMsg = [head |-> 0, tail |-> 0]
    /\ bell = FALSE
    /\ inQ = [i \in 0 .. InSize - 1 |-> None]
    /\ outQ = [i \in 0 .. OutSize - 1 |-> None]
    /\ slowQ = [i \in 0 .. SlowSize - 1 |-> None]
    /\ inHead = 0 /\ outTail = 0 /\ slowHead = 0 /\ slowTail = 0
    /\ irqOff = FALSE
    /\ post = [c \in Contexts |-> "none"]
    /\ reply = [c \in Contexts |-> None]
    /\ cookie = [c \in Contexts |-> FALSE]
    /\ copy = [c \in Contexts |-> [head |-> 0, tail |-> 0]]
    /\ main = "loop" /\ served = None
    /\ irq = "off" /\ flags = {}
    /\ nandReq = None /\ nandBusy = FALSE /\ nandFlag = FALSE
    /\ cards = 0 /\ cardFlag = FALSE
    /\ gecko = "none" /\ uploads = 0 /\ timerFlag = FALSE
    /\ panicked = FALSE
    /\ inTail = 0 /\ outHead = 0 /\ curTag = 1
    /\ ppc = "init" /\ request = None /\ received = None
    /\ nextId = 1 /\ firstId = 1
    /\ done = <<>>

-----------------------------------------------------------------------------
(***************************************************************************)
(* ipc_post on the ARM, in the context c of the caller.  Each step is one  *)
(* access to state that the PowerPC or the other context can see.          *)
(***************************************************************************)
Runs(c) == ~panicked /\ IF c = "irq" THEN irq # "off" ELSE irq = "off"

Posting(c) == post[c] # "none"

StartPost(c, r) ==
    /\ post' = [post EXCEPT ![c] = "kill"]
    /\ reply' = [reply EXCEPT ![c] = r]
    /\ UNCHANGED <<cookie, copy>>

(* Faulty variant: irq_kill forgotten. *)
NotKilled == FALSE

(* The value irq_kill leaves in the I bit. *)
Killed == TRUE

(* cookie = irq_kill() *)
PostKill(c) ==
    /\ Runs(c) /\ post[c] = "kill"
    /\ post' = [post EXCEPT ![c] = "room"]
    /\ cookie' = [cookie EXCEPT ![c] = irqOff]
    /\ irqOff' = Killed
    /\ UNCHANGED <<rings, reply, copy, bell, main, served, irq, flags, panicked, nand, devices, ppcCpu, done>>

(* Spin while the ring is full, then fill the slot and flush it. *)
PostWrite(c) ==
    /\ Runs(c) /\ post[c] = "room"
    /\ ~IsFull(ppcMsg.head, outTail, OutSize)
    /\ outQ' = [outQ EXCEPT ![outTail] = reply[c]]
    /\ post' = [post EXCEPT ![c] = "read"]
    /\ UNCHANGED <<reply, cookie, copy, armMsg, ppcMsg, inQ, slowQ, inHead, outTail, slowHead, slowTail,
                   bell, irqOff, main, served, irq, flags, panicked, nand, devices, ppcCpu, done>>

(* out_tail++, and the read half of mask32 in poke_outtail. *)
PostRead(c) ==
    /\ Runs(c) /\ post[c] = "read"
    /\ outTail' = Succ(outTail, OutSize)
    /\ post' = [post EXCEPT ![c] = "poke"]
    /\ copy' = [copy EXCEPT ![c] = armMsg]
    /\ UNCHANGED <<reply, cookie, armMsg, ppcMsg, inQ, outQ, slowQ, inHead, slowHead, slowTail,
                   bell, irqOff, main, served, irq, flags, panicked, nand, devices, ppcCpu, done>>

(* The write half of mask32 in poke_outtail. *)
PostPoke(c) ==
    /\ Runs(c) /\ post[c] = "poke"
    /\ armMsg' = [head |-> copy[c].head, tail |-> outTail]
    /\ post' = [post EXCEPT ![c] = "restore"]
    /\ UNCHANGED <<reply, cookie, copy, ppcMsg, inQ, outQ, slowQ, inHead, outTail, slowHead, slowTail,
                   bell, irqOff, main, served, irq, flags, panicked, nand, devices, ppcCpu, done>>

(* Ring the PowerPC (which polls, and does not look), irq_restore(cookie). *)
PostRestore(c) ==
    /\ Runs(c) /\ post[c] = "restore"
    /\ post' = [post EXCEPT ![c] = "none"]
    /\ reply' = [reply EXCEPT ![c] = None]
    /\ cookie' = [cookie EXCEPT ![c] = FALSE]
    /\ copy' = [copy EXCEPT ![c] = [head |-> 0, tail |-> 0]]
    /\ irqOff' = cookie[c]
    /\ UNCHANGED <<rings, bell, main, served, irq, flags, panicked, nand, devices, ppcCpu, done>>

Post(c) == PostKill(c) \/ PostWrite(c) \/ PostRead(c) \/ PostPoke(c) \/ PostRestore(c)

-----------------------------------------------------------------------------
(***************************************************************************)
(* The PowerPC's reset line, driven by the ARM.  A reset processor loses   *)
(* its program; the message registers and the rings keep their contents.   *)
(***************************************************************************)
PowerpcHang ==
    /\ ppc' = "reset" /\ request' = None /\ received' = None
    /\ UNCHANGED <<inTail, outHead, curTag, nextId, firstId>>

PowerpcBoot ==
    /\ ppc' = "init" /\ request' = None /\ received' = None
    /\ UNCHANGED <<inTail, outHead, curTag, nextId, firstId>>

(***************************************************************************)
(* ipc_process_slow: the main loop.                                        *)
(***************************************************************************)
MainRuns == Runs("main") /\ ~Posting("main")

SlowEmpty == slowHead = slowTail

(* process_slow(&slow_queue[slow_queue_head]), up to the reply if any. *)
MainTake ==
    /\ MainRuns /\ main = "loop" /\ ~SlowEmpty
    /\ served' = slowQ[slowHead]
    /\ main' = "process"
    /\ UNCHANGED <<rings, bell, irqOff, posts, irq, flags, panicked, nand, devices, ppcCpu, done>>

Execute(r) == done' = Append(done, r.id)

(* A request that the main loop answers itself. *)
ProcessSlow ==
    /\ MainRuns /\ main = "process" /\ served.kind \in {"slow", "boot2"}
    /\ Execute(served)
    /\ StartPost("main", served)
    /\ main' = IF served.kind = "boot2" THEN "flush" ELSE "advance"
    /\ UNCHANGED <<rings, bell, irqOff, served, irq, flags, panicked, nand, devices, ppcCpu>>

(* A request without a reply; sdmmc_needs_discover is one of them. *)
ProcessMute ==
    /\ MainRuns /\ main = "process" /\ served.kind \in {"mute", "discover", "armjump"}
    /\ Execute(served)
    /\ main' = IF served.kind = "armjump" THEN "leave" ELSE "advance"
    /\ UNCHANGED <<rings, bell, irqOff, posts, served, irq, flags, panicked, nand, devices, ppcCpu>>

(* nand_ipc: start the controller, or refuse while a request is under way. *)
ProcessNand ==
    /\ MainRuns /\ main = "process" /\ served.kind = "nand"
    /\ Execute(served)
    /\ main' = "advance"
    /\ IF nandReq = None
       THEN nandReq' = served /\ nandBusy' = TRUE /\ UNCHANGED posts
       ELSE StartPost("main", served) /\ UNCHANGED <<nandReq, nandBusy>>
    /\ UNCHANGED <<rings, bell, irqOff, served, irq, flags, panicked, nandFlag, devices, ppcCpu>>

(***************************************************************************)
(* powerpc_ipc: the program is started; or its header is refused, before   *)
(* the PowerPC is stopped; or a segment is, when it is stopped already.    *)
(* Only a request of the PowerPC's own is answered, and only on failure.   *)
(***************************************************************************)
ProcessBoot ==
    /\ MainRuns /\ main = "process" /\ served.kind \in {"armboot", "ppcboot"}
    /\ Execute(served)
    /\ main' = "advance"
    /\ \/ PowerpcBoot /\ UNCHANGED posts
       \/ /\ PowerpcHang \/ UNCHANGED ppcCpu
          /\ IF served.kind = "ppcboot" THEN StartPost("main", served) ELSE UNCHANGED posts
    /\ UNCHANGED <<rings, bell, irqOff, served, irq, flags, panicked, nand, devices>>

(* Faulty variant: leave without waiting. *)
MainLeaveAtOnce ==
    /\ MainRuns /\ main = "flush"
    /\ main' = "leave"
    /\ UNCHANGED <<rings, bell, irqOff, posts, served, irq, flags, panicked, nand, devices, ppcCpu, done>>

(* ipc_flush: wait until the PowerPC has taken every reply. *)
MainFlush ==
    /\ MainRuns /\ main = "flush"
    /\ ppcMsg.head = outTail
    /\ main' = "leave"
    /\ UNCHANGED <<rings, bell, irqOff, posts, served, irq, flags, panicked, nand, devices, ppcCpu, done>>

(* Faulty variant: the head stays where it is. *)
MainStay ==
    /\ MainRuns /\ main = "advance"
    /\ served' = None
    /\ main' = "loop"
    /\ UNCHANGED <<rings, bell, irqOff, posts, irq, flags, panicked, nand, devices, ppcCpu, done>>

(* slow_queue_head++, only now that the slot is no longer needed. *)
MainAdvance ==
    /\ MainRuns /\ main = "advance"
    /\ slowHead' = Succ(slowHead, SlowSize)
    /\ served' = None
    /\ main' = "loop"
    /\ UNCHANGED <<armMsg, ppcMsg, inQ, outQ, slowQ, inHead, outTail, slowTail,
                   bell, irqOff, posts, irq, flags, panicked, nand, devices, ppcCpu, done>>

(* A vector was returned: ipc_shutdown, irq_shutdown, jump to it. *)
MainLeave ==
    /\ MainRuns /\ main = "leave"
    /\ slowHead' = Succ(slowHead, SlowSize)
    /\ main' = "left"
    /\ irqOff' = TRUE
    /\ bell' = FALSE
    /\ UNCHANGED <<armMsg, ppcMsg, inQ, outQ, slowQ, inHead, outTail, slowTail,
                   posts, served, irq, flags, panicked, nand, devices, ppcCpu, done>>

(* Nothing to do: irq_kill, look again, sleep, irq_restore. *)
MainIdle ==
    /\ MainRuns /\ main = "loop" /\ SlowEmpty
    /\ main' = "idle"
    /\ UNCHANGED <<rings, bell, irqOff, posts, served, irq, flags, panicked, nand, devices, ppcCpu, done>>

MainKill ==
    /\ MainRuns /\ main = "idle"
    /\ irqOff' = Killed
    /\ main' = "recheck"
    /\ UNCHANGED <<rings, bell, posts, served, irq, flags, panicked, nand, devices, ppcCpu, done>>

(* Faulty variant: sleep without looking again. *)
MainSleepBlindly ==
    /\ MainRuns /\ main = "recheck"
    /\ main' = "wait"
    /\ UNCHANGED <<rings, bell, irqOff, posts, served, irq, flags, panicked, nand, devices, ppcCpu, done>>

MainRecheck ==
    /\ MainRuns /\ main = "recheck"
    /\ main' = IF SlowEmpty THEN "wait" ELSE "restore"
    /\ UNCHANGED <<rings, bell, irqOff, posts, served, irq, flags, panicked, nand, devices, ppcCpu, done>>

(***************************************************************************)
(* The interrupt controller: an interrupt stays pending until its source   *)
(* is served (bell, NAND_CMD, SDHC and alarm flags).                       *)
(***************************************************************************)
Pending ==
    {f \in {"timer", "nand", "ipc", "sdhc"} :
        \/ f = "timer" /\ timerFlag
        \/ f = "nand" /\ nandFlag
        \/ f = "ipc" /\ bell
        \/ f = "sdhc" /\ cardFlag}

(* irq_wait: sleep until an interrupt is pending, masked or not. *)
MainWait ==
    /\ MainRuns /\ main = "wait" /\ Pending # {}
    /\ main' = "restore"
    /\ UNCHANGED <<rings, bell, irqOff, posts, served, irq, flags, panicked, nand, devices, ppcCpu, done>>

MainRestore ==
    /\ MainRuns /\ main = "restore"
    /\ irqOff' = FALSE
    /\ main' = "loop"
    /\ UNCHANGED <<rings, bell, posts, served, irq, flags, panicked, nand, devices, ppcCpu, done>>

Main ==
    \/ MainTake \/ ProcessSlow \/ ProcessMute \/ ProcessNand \/ ProcessBoot
    \/ MainFlush \/ MainAdvance \/ MainLeave
    \/ MainIdle \/ MainKill \/ MainRecheck \/ MainWait \/ MainRestore

-----------------------------------------------------------------------------
(***************************************************************************)
(* irq_handler: it reads the flags once and serves the timer, the NAND,    *)
(* the IPC and the SDHC interrupt in this order.                           *)
(***************************************************************************)
IrqRuns == Runs("irq") /\ ~Posting("irq")

IrqEnter ==
    /\ Runs("main") /\ ~irqOff /\ Pending # {}
    /\ irq' = "timer"
    /\ flags' = Pending
    /\ irqOff' = TRUE
    /\ UNCHANGED <<rings, bell, posts, main, served, panicked, nand, devices, ppcCpu, done>>

(* Into the slow queue: from process_in, and ipc_enqueue_slow. *)
SlowFull == IsFull(slowHead, slowTail, SlowSize)

EnqueueSlow(r) ==
    IF SlowFull
    THEN panicked' = TRUE /\ UNCHANGED <<slowQ, slowTail>>
    ELSE /\ slowQ' = [slowQ EXCEPT ![slowTail] = r]
         /\ slowTail' = Succ(slowTail, SlowSize)
         /\ UNCHANGED panicked

(***************************************************************************)
(* gecko_timer, at the ticks that change something: the length of a        *)
(* PowerPC program is complete and the PowerPC is stopped; the transfer    *)
(* times out or turns out wrong; or the program (ARM or PowerPC) is        *)
(* complete, and a request to start it is enqueued.                        *)
(***************************************************************************)
GeckoReceive ==
    /\ gecko = "none" /\ uploads < MaxUploads
    /\ gecko' = "loading" /\ uploads' = uploads + 1
    /\ PowerpcHang
    /\ UNCHANGED <<slowQ, slowTail, panicked>>

GeckoGiveUp ==
    /\ gecko = "loading"
    /\ gecko' = "none"
    /\ UNCHANGED <<slowQ, slowTail, panicked, uploads, ppcCpu>>

GeckoComplete ==
    /\ gecko = "loading"
    /\ \E kind \in {"armboot", "armjump"} : EnqueueSlow(FromArm(kind))
    /\ gecko' = "none"
    /\ UNCHANGED <<uploads, ppcCpu>>

IrqTimer ==
    /\ IrqRuns /\ irq = "timer"
    /\ IF "timer" \in flags
       THEN /\ GeckoReceive \/ GeckoGiveUp \/ GeckoComplete
            /\ timerFlag' = FALSE
       ELSE UNCHANGED <<slowQ, slowTail, panicked, ppcCpu, gecko, uploads, timerFlag>>
    /\ irq' = "nand"
    /\ UNCHANGED <<armMsg, ppcMsg, inQ, outQ, inHead, outTail, slowHead,
                   bell, irqOff, posts, main, served, flags, nand, cards, cardFlag, done>>

(* nand_irq: answer current_request and forget it. *)
IrqNand ==
    /\ IrqRuns /\ irq = "nand"
    /\ IF "nand" \in flags
       THEN /\ nandFlag' = FALSE
            /\ nandReq' = None
            /\ IF nandReq # None THEN StartPost("irq", nandReq) ELSE UNCHANGED posts
       ELSE UNCHANGED <<nandFlag, nandReq, posts>>
    /\ irq' = IF "ipc" \in flags THEN "bell" ELSE "sdhc"
    /\ UNCHANGED <<rings, bell, irqOff, main, served, flags, panicked, nandBusy, devices, ppcCpu, done>>

(* ipc_irq, outer loop: clear the bell before looking at the ring. *)
IrqBell ==
    /\ IrqRuns /\ irq = "bell"
    /\ irq' = IF bell THEN "drain" ELSE "sdhc"
    /\ bell' = FALSE
    /\ UNCHANGED <<rings, irqOff, posts, main, served, flags, panicked, nand, devices, ppcCpu, done>>

InEmpty == ppcMsg.tail = inHead

(* process_in: do a fast request, or pass a slow one on. *)
IrqProcessIn ==
    /\ IrqRuns /\ irq = "drain" /\ ~InEmpty
    /\ LET r == inQ[inHead] IN
       IF r.kind \in FastKinds
       THEN /\ Execute(r)
            /\ IF r.kind = "fast" THEN StartPost("irq", r) ELSE UNCHANGED posts
            /\ UNCHANGED <<slowQ, slowTail, panicked>>
       ELSE EnqueueSlow(r) /\ UNCHANGED <<done, posts>>
    /\ irq' = "advance"
    /\ UNCHANGED <<armMsg, ppcMsg, inQ, outQ, inHead, outTail, slowHead,
                   bell, irqOff, main, served, flags, nand, devices, ppcCpu>>

IrqDrained ==
    /\ IrqRuns /\ irq = "drain" /\ InEmpty
    /\ irq' = "bell"
    /\ UNCHANGED <<rings, bell, irqOff, posts, main, served, flags, panicked, nand, devices, ppcCpu, done>>

(* Faulty variant: one request for each bell. *)
IrqAdvanceOnce ==
    /\ IrqRuns /\ irq = "advance"
    /\ inHead' = Succ(inHead, InSize)
    /\ armMsg' = [armMsg EXCEPT !.head = inHead']
    /\ irq' = "bell"
    /\ UNCHANGED <<ppcMsg, inQ, outQ, slowQ, outTail, slowHead, slowTail,
                   bell, irqOff, posts, main, served, flags, panicked, nand, devices, ppcCpu, done>>

(***************************************************************************)
(* in_head++ and poke_inhead.  No other code of the ARM runs during it, so *)
(* its read and its write of ARMMSG are one step.                          *)
(***************************************************************************)
IrqAdvance ==
    /\ IrqRuns /\ irq = "advance"
    /\ inHead' = Succ(inHead, InSize)
    /\ armMsg' = [armMsg EXCEPT !.head = inHead']
    /\ irq' = "drain"
    /\ UNCHANGED <<ppcMsg, inQ, outQ, slowQ, outTail, slowHead, slowTail,
                   bell, irqOff, posts, main, served, flags, panicked, nand, devices, ppcCpu, done>>

(* sdhc_irq on a card change, and the return from the interrupt. *)
IrqSdhc ==
    /\ IrqRuns /\ irq = "sdhc"
    /\ IF "sdhc" \in flags
       THEN EnqueueSlow(FromArm("discover")) /\ cardFlag' = FALSE
       ELSE UNCHANGED <<slowQ, slowTail, panicked, cardFlag>>
    /\ irq' = "off"
    /\ flags' = {}
    /\ irqOff' = FALSE
    /\ UNCHANGED <<armMsg, ppcMsg, inQ, outQ, inHead, outTail, slowHead,
                   bell, posts, main, served, nand, cards, gecko, uploads, timerFlag, ppcCpu, done>>

Irq ==
    \/ IrqEnter \/ IrqTimer \/ IrqNand \/ IrqBell
    \/ IrqProcessIn \/ IrqDrained \/ IrqAdvance \/ IrqSdhc

-----------------------------------------------------------------------------
(***************************************************************************)
(* The hardware around the ARM.                                            *)
(***************************************************************************)
NandComplete ==
    /\ nandBusy
    /\ nandBusy' = FALSE /\ nandFlag' = TRUE
    /\ UNCHANGED <<rings, bell, armCpu, nandReq, devices, ppcCpu, done>>

CardChange ==
    /\ cards < MaxCards
    /\ cards' = cards + 1 /\ cardFlag' = TRUE
    /\ UNCHANGED <<rings, bell, armCpu, nand, gecko, uploads, timerFlag, ppcCpu, done>>

(* The alarm, when gecko_timer has something to do. *)
Alarm ==
    /\ ~timerFlag
    /\ gecko = "loading" \/ uploads < MaxUploads
    /\ timerFlag' = TRUE
    /\ UNCHANGED <<rings, bell, armCpu, nand, cards, cardFlag, gecko, uploads, ppcCpu, done>>

-----------------------------------------------------------------------------
(***************************************************************************)
(* The PowerPC: one thread, interrupts not used for IPC.  It alone writes  *)
(* PPCMSG, so the read and the write of its mask32 are one step.           *)
(***************************************************************************)
PpcAt(pc) == ppc = pc

(* Faulty variant: start at the first slot. *)
PpcInitAtZero ==
    /\ PpcAt("init")
    /\ inTail' = 0 /\ outHead' = 0
    /\ curTag' = 1
    /\ firstId' = nextId
    /\ ppc' = "idle"
    /\ UNCHANGED <<rings, bell, armCpu, nand, devices, request, received, nextId, done>>

(* ipc_initialize: take up the ring where the message register is. *)
PpcInit ==
    /\ PpcAt("init")
    /\ inTail' = ppcMsg.tail /\ outHead' = ppcMsg.head
    /\ curTag' = 1
    /\ firstId' = nextId
    /\ ppc' = "idle"
    /\ UNCHANGED <<rings, bell, armCpu, nand, devices, request, received, nextId, done>>

(* ipc_exchange, or ipc_post with tag 0. *)
Call(kind, tag) ==
    /\ PpcAt("idle") /\ nextId <= MaxRequests
    /\ request' = [kind |-> kind, tag |-> tag, id |-> nextId]
    /\ nextId' = nextId + 1
    /\ received' = None
    /\ ppc' = "room"
    /\ UNCHANGED <<rings, bell, armCpu, nand, devices, inTail, outHead, curTag, firstId, done>>

PpcCall ==
    \/ \E kind \in ExchangeKinds : Call(kind, curTag)
    \/ \E kind \in PostKinds : Call(kind, 0)

(* ipc_vpost: spin while the ring is full, then fill the slot. *)
PpcWrite ==
    /\ PpcAt("room")
    /\ ~IsFull(armMsg.head, inTail, InSize)
    /\ inQ' = [inQ EXCEPT ![inTail] = request]
    /\ ppc' = "poke"
    /\ UNCHANGED <<armMsg, ppcMsg, outQ, slowQ, inHead, outTail, slowHead, slowTail,
                   bell, armCpu, nand, devices, inTail, outHead, curTag, request,
                   received, nextId, firstId, done>>

(* in_tail++, poke_intail *)
PpcPoke ==
    /\ PpcAt("poke")
    /\ inTail' = Succ(inTail, InSize)
    /\ ppcMsg' = [ppcMsg EXCEPT !.tail = inTail']
    /\ ppc' = "bell"
    /\ UNCHANGED <<armMsg, inQ, outQ, slowQ, inHead, outTail, slowHead, slowTail,
                   bell, armCpu, nand, devices, outHead, curTag, request,
                   received, nextId, firstId, done>>

PpcBell ==
    /\ PpcAt("bell")
    /\ bell' = TRUE
    /\ ppc' = IF request.tag = 0 THEN "idle" ELSE "receive"
    /\ request' = IF request.tag = 0 THEN None ELSE request
    /\ UNCHANGED <<rings, armCpu, nand, devices, inTail, outHead, curTag,
                   received, nextId, firstId, done>>

(* ipc_receive: spin while the ring is empty, then copy the slot. *)
PpcReceive ==
    /\ PpcAt("receive")
    /\ armMsg.tail # outHead
    /\ received' = outQ[outHead]
    /\ ppc' = "ack"
    /\ UNCHANGED <<rings, bell, armCpu, nand, devices, inTail, outHead, curTag,
                   request, nextId, firstId, done>>

(* out_head++, poke_outhead *)
PpcAck ==
    /\ PpcAt("ack")
    /\ outHead' = Succ(outHead, OutSize)
    /\ ppcMsg' = [ppcMsg EXCEPT !.head = outHead']
    /\ ppc' = "match"
    /\ UNCHANGED <<armMsg, inQ, outQ, slowQ, inHead, outTail, slowHead, slowTail,
                   bell, armCpu, nand, devices, inTail, curTag, request,
                   received, nextId, firstId, done>>

(* Faulty variant: only the code is compared. *)
MatchesCode == received.kind = request.kind

(* ipc_receive_tagged: is it the reply to the request? *)
Matches == received.kind = request.kind /\ received.tag = request.tag

PpcDiscard ==
    /\ PpcAt("match") /\ ~Matches
    /\ ppc' = "receive"
    /\ received' = None
    /\ UNCHANGED <<rings, bell, armCpu, nand, devices, inTail, outHead, curTag,
                   request, nextId, firstId, done>>

PpcReturn ==
    /\ PpcAt("match") /\ Matches
    /\ curTag' = curTag + 1
    /\ request' = None
    /\ ppc' = "idle"
    /\ UNCHANGED <<rings, bell, armCpu, nand, devices, inTail, outHead,
                   received, nextId, firstId, done>>

(* ipc_shutdown, and the wait of ipc_flush in it; the program ends. *)
PpcShutdown ==
    /\ PpcAt("idle")
    /\ ppc' = "flush"
    /\ UNCHANGED <<rings, bell, armCpu, nand, devices, inTail, outHead, curTag,
                   request, received, nextId, firstId, done>>

PpcFlush ==
    /\ PpcAt("flush")
    /\ armMsg.head = inTail
    /\ ppc' = "off"
    /\ UNCHANGED <<rings, bell, armCpu, nand, devices, inTail, outHead, curTag,
                   request, received, nextId, firstId, done>>

PpcRun ==
    \/ PpcInit \/ PpcWrite \/ PpcPoke \/ PpcBell
    \/ PpcReceive \/ PpcAck \/ PpcDiscard \/ PpcReturn \/ PpcFlush

-----------------------------------------------------------------------------
Arm == Main \/ Irq \/ \E c \in Contexts : Post(c)

Next == Arm \/ NandComplete \/ CardChange \/ Alarm \/ PpcCall \/ PpcShutdown \/ PpcRun

Spec == Init /\ [][Next]_vars

(***************************************************************************)
(* Both processors run; the ARM takes a pending interrupt when it is       *)
(* enabled between two instructions; the NAND controller finishes.  The    *)
(* client need not call, and cards and uploads need not come.              *)
(***************************************************************************)
Fairness ==
    /\ WF_vars(Arm) /\ SF_vars(IrqEnter)
    /\ WF_vars(NandComplete)
    /\ WF_vars(PpcRun)

FairSpec == Spec /\ Fairness

-----------------------------------------------------------------------------
(***************************************************************************)
(* Properties.                                                             *)
(***************************************************************************)
Message == [head : 0 .. InSize - 1, tail : 0 .. OutSize - 1]

TypeRings ==
    /\ armMsg \in Message
    /\ ppcMsg \in [head : 0 .. OutSize - 1, tail : 0 .. InSize - 1]
    /\ inQ \in [0 .. InSize - 1 -> Request \cup {None}]
    /\ outQ \in [0 .. OutSize - 1 -> Request \cup {None}]
    /\ slowQ \in [0 .. SlowSize - 1 -> Request \cup {None}]
    /\ inHead \in 0 .. InSize - 1 /\ outTail \in 0 .. OutSize - 1
    /\ slowHead \in 0 .. SlowSize - 1 /\ slowTail \in 0 .. SlowSize - 1

TypeArm ==
    /\ irqOff \in BOOLEAN /\ panicked \in BOOLEAN /\ bell \in BOOLEAN
    /\ post \in [Contexts -> {"none", "kill", "room", "read", "poke", "restore"}]
    /\ reply \in [Contexts -> Request \cup {None}]
    /\ cookie \in [Contexts -> BOOLEAN]
    /\ copy \in [Contexts -> Message]
    /\ main \in {"loop", "idle", "process", "advance", "flush", "leave", "left",
                 "recheck", "wait", "restore"}
    /\ served \in Request \cup {None}
    /\ irq \in {"off", "timer", "nand", "bell", "drain", "advance", "sdhc"}
    /\ flags \subseteq {"timer", "nand", "ipc", "sdhc"}

TypeDevices ==
    /\ nandReq \in Request \cup {None}
    /\ nandBusy \in BOOLEAN /\ nandFlag \in BOOLEAN
    /\ cards \in 0 .. MaxCards /\ cardFlag \in BOOLEAN
    /\ gecko \in {"none", "loading"} /\ timerFlag \in BOOLEAN
    /\ uploads \in 0 .. MaxUploads

TypePpc ==
    /\ inTail \in 0 .. InSize - 1 /\ outHead \in 0 .. OutSize - 1
    /\ ppc \in {"reset", "init", "idle", "room", "poke", "bell", "receive", "ack", "match",
               "flush", "off"}
    /\ request \in Request \cup {None} /\ received \in Request \cup {None}
    /\ nextId \in 1 .. MaxRequests + 1 /\ firstId \in 1 .. MaxRequests + 1
    /\ curTag \in 1 .. MaxRequests + 1
    /\ done \in Seq(0 .. MaxRequests)

(* Every variable has the type its declaration in ipc.c gives it. *)
TypeOK == TypeRings /\ TypeArm /\ TypeDevices /\ TypePpc

(***************************************************************************)
(* The three rings, as the queues they stand for.  A message is in the     *)
(* ring from the moment its producer has published the new tail until its  *)
(* consumer has moved the head past it.                                    *)
(***************************************************************************)
InFlight == Contents(inQ, inHead, ppcMsg.tail, InSize)
OutFlight == Contents(outQ, ppcMsg.head, armMsg.tail, OutSize)
SlowWaiting == Contents(slowQ, slowHead, slowTail, SlowSize)

In == INSTANCE BoundedFifo
        WITH Capacity <- InSize - 1, queue <- InFlight, Message <- Request
Out == INSTANCE BoundedFifo
        WITH Capacity <- OutSize - 1, queue <- OutFlight, Message <- Request
Slow == INSTANCE BoundedFifo
        WITH Capacity <- SlowSize - 1, queue <- SlowWaiting, Message <- Request

(***************************************************************************)
(* Requests reach the ARM in order, none lost, repeated or overwritten     *)
(* while it waits (ipc_vpost against process_in and poke_inhead).          *)
(***************************************************************************)
InIsFifo == In!Spec

(* The same for replies: ipc_post from two contexts against ipc_receive. *)
OutIsFifo == Out!Spec

(* The same for the slow queue: interrupt handler against main loop. *)
SlowIsFifo == Slow!Spec

(* All three: no context and no processor spoils a ring another one uses. *)
RingsAreFifos == InIsFifo /\ OutIsFifo /\ SlowIsFifo

(***************************************************************************)
(* ARMMSG is what the ARM's own indices say, except while ipc_post is      *)
(* between its out_tail++ and its poke_outtail: no half of the register    *)
(* is undone by a read-modify-write of the other one.                      *)
(***************************************************************************)
Publishing == \E c \in Contexts : post[c] = "poke"

RegistersAgree ==
    /\ armMsg.head = inHead
    /\ armMsg.tail # outTail => Publishing

(***************************************************************************)
(* The ARM is never inside ipc_post, past its irq_kill, in both contexts.  *)
(***************************************************************************)
InPost(c) == post[c] \in {"room", "read", "poke", "restore"}

PostExclusive == ~(InPost("main") /\ irq # "off")

(***************************************************************************)
(* The main loop sleeps only if no slow request waits: a request enqueued  *)
(* by an interrupt just before irq_wait is not slept over.                 *)
(***************************************************************************)
NoLostWakeup == main = "wait" => SlowEmpty

(***************************************************************************)
(* A published request is never left behind: the PowerPC is about to ring, *)
(* the bell rings, or the interrupt handler will look at the ring again.   *)
(***************************************************************************)
NoLostBell ==
    InEmpty \/ bell \/ ppc = "bell" \/ irq \in {"drain", "advance"} \/ main = "left"

(* Neither processor sleeps over a request, in the ring or in the queue. *)
NothingLost == NoLostWakeup /\ NoLostBell

(* ipc_exchange returns the reply to the request it has sent. *)
OwnReply == PpcAt("match") /\ Matches => received.id = request.id

(***************************************************************************)
(* When ipc_exchange returns, the ARM has done all the client sent before, *)
(* register writes nobody waits for included; so it has when ipc_shutdown  *)
(* returns.                                                                *)
(***************************************************************************)
AllDone(ids) == \A id \in ids : \E i \in DOMAIN done : done[i] = id

EarlierDone ==
    /\ PpcAt("match") /\ Matches => AllDone(firstId .. request.id)
    /\ PpcAt("off") => AllDone(firstId .. nextId - 1)

(* No request is executed twice. *)
ExecutedOnce ==
    \A i, j \in DOMAIN done : done[i] = done[j] /\ done[i] # 0 => i = j

(***************************************************************************)
(* When the ARM has left for boot2 the PowerPC has read the reply ("post   *)
(* first so that the memory protection doesn't kill IPC", boot2.c:323).    *)
(***************************************************************************)
RepliedBeforeLeaving ==
    main = "left" /\ served.kind = "boot2" =>
        \A k \in DOMAIN OutFlight : OutFlight[k].id # served.id

(***************************************************************************)
(* A client that posts requests and does not read the replies can stop the *)
(* ARM for good: in the spins of ipc_post (interrupts off) and ipc_flush,  *)
(* or, with too many slow requests, in panic2.  Nothing else stops it but  *)
(* its leaving, or a client that is done or waits for an answer that is    *)
(* never sent, while the ARM sleeps.                                       *)
(***************************************************************************)
AtRest ==
    /\ ppc \in {"idle", "reset", "off"}
    /\ InEmpty /\ SlowEmpty
    /\ main = "wait" /\ irq = "off"

Unread == ppcMsg.head # outTail

Flooded ==
    \/ IsFull(ppcMsg.head, outTail, OutSize) /\ \E c \in Contexts : post[c] = "room"
    \/ Unread /\ main = "flush"

(***************************************************************************)
(* The guards of the steps, without ENABLED: who is able to go on.         *)
(***************************************************************************)
Spinning(c) == post[c] = "room" /\ IsFull(ppcMsg.head, outTail, OutSize)

UploadDue == gecko = "loading" \/ uploads < MaxUploads

CanPost(c) == Runs(c) /\ Posting(c) /\ ~Spinning(c)

CanMain ==
    /\ MainRuns
    /\ \/ main \in {"loop", "idle", "advance", "leave", "recheck", "restore"}
       \/ main = "process" /\ served.kind \notin FastKinds
       \/ main = "flush" /\ ~Unread
       \/ main = "wait" /\ Pending # {}

CanIrq ==
    \/ Runs("main") /\ ~irqOff /\ Pending # {}
    \/ IrqRuns /\ (irq = "timer" /\ "timer" \in flags => UploadDue)

CanDevice == nandBusy \/ cards < MaxCards \/ (~timerFlag /\ UploadDue)

CanPpc ==
    \/ ppc \in {"init", "idle", "poke", "bell", "ack", "match"}
    \/ ppc = "room" /\ ~IsFull(armMsg.head, inTail, InSize)
    \/ ppc = "receive" /\ armMsg.tail # outHead
    \/ ppc = "flush" /\ armMsg.head = inTail

Ready == CanMain \/ CanIrq \/ CanDevice \/ CanPpc \/ \E c \in Contexts : CanPost(c)

(* Ready says what ENABLED says, and can be proved about. *)
GuardsSuffice == Ready <=> ENABLED Next

(* The two processors stop only at rest, or as said above. *)
StopsOnlyAtRest == Ready \/ AtRest \/ Flooded \/ panicked \/ main = "left"

(* The same, with ENABLED for the guards. *)
StopsAtRestOrFlooded == GuardsSuffice /\ StopsOnlyAtRest

(* Every call of ipc_exchange returns, and every ipc_post. *)
CallReturns == (request # None) ~> (request = None)
=============================================================================
