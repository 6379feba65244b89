------------------------------- MODULE PpcIrq -------------------------------
(***************************************************************************)
(* The interrupt layer of the PowerPC (libbroadway/irq.c, exception.c,     *)
(* input.c): the sources of the Hollywood are handed from one processor to *)
(* the other with ARMIRQMASK, which both change by reading it and writing  *)
(* it back (mini/irq.c: irq_enable, irq_disable); the program, its handler *)
(* and the polling of the buttons clear the same flags.                    *)
(*                                                                         *)
(* The program runs only while no handler does, and handlers do not nest.  *)
(***************************************************************************)
EXTENDS Naturals, FiniteSets

CONSTANTS
    Sources,     \* interrupt sources of the Hollywood
    Mine,        \* those the program enables and disables
    ArmBoot,     \* those the ARM enables before it starts the PowerPC
    ArmOwn,      \* those the ARM enables and disables later
    Handled,     \* those with a handler on the PowerPC
    Gpio,        \* IRQ_HW_GPIO1B, which gpio_read polls
    MaxOps, MaxEvents, MaxNesting, MaxReboots,   \* bounds
    None

ASSUME IrqAssumption ==
    /\ Mine \subseteq Sources /\ ArmBoot \subseteq Sources /\ Handled \subseteq Sources
    /\ ArmOwn \subseteq Sources \ Mine
    /\ Gpio \in Sources /\ None \notin Sources
    /\ MaxOps \in Nat /\ MaxEvents \in Nat /\ MaxNesting \in Nat /\ MaxReboots \in Nat

VARIABLES
    armMask,     \* HW_ARMIRQMASK
    ppcMask,     \* HW_PPCIRQMASK
    ppcFlag,     \* HW_PPCIRQFLAG
    bwMask,      \* IRQ_BW_HW in HW_BWIRQMASK; its flag follows the sources
    ee,          \* external interrupts are enabled (MSR)
    nested,      \* the was_on of every irq_disable without its irq_restore
    main,        \* where the program is
    irq,         \* where the handler is
    arm,         \* where the ARM is
    button,      \* a press that the GPIO's own flag holds
    reset_pressed,
    due,         \* sources whose handler has yet to run
    ops, events, reboots,   \* bounded
    raced,       \* history: ARMIRQMASK was written between a read and a write
    rebooted     \* history: irq_initialize or irq_shutdown emptied PPCIRQMASK

masks == <<armMask, ppcMask, ppcFlag, bwMask>>
bounds == <<ops, events, reboots>>
vars == <<armMask, ppcMask, ppcFlag, bwMask, ee, nested, main, irq, arm, button,
          reset_pressed, due, ops, events, reboots, raced, rebooted>>

At(pc, s) == [pc |-> pc, s |-> s, mask |-> {}]
Read(pc, s) == [pc |-> pc, s |-> s, mask |-> armMask]
Idle == [pc |-> "idle", s |-> None, mask |-> {}]
HandlerIdle == [pc |-> "idle", s |-> None, todo |-> {}]

(* A read-modify-write of ARMIRQMASK, and whether it undid another. *)
Reading(actor) == actor.pc \in {"take", "give", "own", "disown"}
Runs == irq.pc = "idle"
Starts == main.pc = "idle" /\ Runs /\ ops < MaxOps /\ ops' = ops + 1
Goes(pc) == main.pc = pc /\ Runs

(* All flags are cleared: what was pending is forgotten. *)
ClearAll == ppcFlag' = {} /\ due' = {}

(* Faulty variant: every flag. *)
ClearEvery(s) == ppcFlag' = {}

(* write32(HW_PPCIRQFLAG, IRQF(s)) *)
Clear(s) == ppcFlag' = ppcFlag \ {s}

-----------------------------------------------------------------------------
(* The program. *)

(* irq_initialize, up to its irq_enable. *)
Initialize ==
    /\ Goes("start")
    /\ ppcMask' = {} /\ bwMask' = FALSE /\ ClearAll
    /\ rebooted' = (rebooted \/ ppcMask # {})
    /\ main' = At("enable", None)
    /\ UNCHANGED <<armMask, ee, nested, irq, arm, button, reset_pressed, bounds, raced>>

(* irq_enable: MSR first, and the flags after that. *)
EnableMsr ==
    /\ main.pc \in {"enable", "enable again"} /\ Runs
    /\ ee' = TRUE
    /\ main' = At(IF main.pc = "enable" THEN "wipe" ELSE "wipe again", None)
    /\ UNCHANGED <<masks, nested, irq, arm, button, reset_pressed, due, bounds, raced, rebooted>>
EnableWipe ==
    /\ main.pc \in {"wipe", "wipe again"} /\ Runs
    /\ ClearAll
    /\ main' = IF main.pc = "wipe again" THEN At("enable", None) ELSE Idle
    /\ UNCHANGED <<armMask, ppcMask, bwMask, ee, nested, irq, arm, button, reset_pressed,
                   bounds, raced, rebooted>>

(* irq_disable: the flags first, and MSR after that. *)
Disable ==
    /\ Starts /\ Cardinality(DOMAIN nested) < MaxNesting
    /\ ClearAll
    /\ main' = At("disable", None)
    /\ UNCHANGED <<armMask, ppcMask, bwMask, ee, nested, irq, arm, button, reset_pressed,
                   events, reboots, raced, rebooted>>
DisableMsr ==
    /\ Goes("disable")
    /\ ee' = FALSE
    /\ nested' = [i \in 1 .. Cardinality(DOMAIN nested) + 1 |->
                    IF i \in DOMAIN nested THEN nested[i] ELSE ee]
    /\ main' = Idle
    /\ UNCHANGED <<masks, irq, arm, button, reset_pressed, due, bounds, raced, rebooted>>

(* irq_restore enables twice if interrupts were on, and once if they were not. *)
Restore ==
    /\ main.pc = "idle" /\ Runs /\ DOMAIN nested # {}
    /\ LET n == Cardinality(DOMAIN nested)
       IN  /\ nested' = [i \in 1 .. n - 1 |-> nested[i]]
           /\ main' = At(IF nested[n] THEN "enable again" ELSE "enable", None)
    /\ UNCHANGED <<masks, ee, irq, arm, button, reset_pressed, due, bounds, raced, rebooted>>

BwEnable ==
    /\ Starts /\ bwMask' = TRUE
    /\ UNCHANGED <<armMask, ppcMask, ppcFlag, ee, nested, main, irq, arm, button,
                   reset_pressed, due, events, reboots, raced, rebooted>>
BwDisable ==
    /\ Starts /\ bwMask' = FALSE
    /\ UNCHANGED <<armMask, ppcMask, ppcFlag, ee, nested, main, irq, arm, button,
                   reset_pressed, due, events, reboots, raced, rebooted>>

(* irq_hw_enable: the source is taken from the ARM, *)
HwEnable(s) ==
    /\ Starts
    /\ main' = Read("take", s)
    /\ UNCHANGED <<masks, ee, nested, irq, arm, button, reset_pressed, due, events, reboots,
                   raced, rebooted>>
Take ==
    /\ Goes("take")
    /\ armMask' = main.mask \ {main.s}
    /\ raced' = (raced \/ Reading(arm))
    /\ main' = At("mask", main.s)
    /\ UNCHANGED <<ppcMask, ppcFlag, bwMask, ee, nested, irq, arm, button, reset_pressed, due,
                   bounds, rebooted>>
(* given to the PowerPC, *)
Mask ==
    /\ Goes("mask")
    /\ ppcMask' = ppcMask \cup {main.s}
    /\ main' = At("ack", main.s)
    /\ UNCHANGED <<armMask, ppcFlag, bwMask, ee, nested, irq, arm, button, reset_pressed, due,
                   bounds, raced, rebooted>>
(* and what it had pending is forgotten. *)
Ack ==
    /\ Goes("ack")
    /\ Clear(main.s) /\ due' = due \ {main.s}
    /\ main' = Idle
    /\ UNCHANGED <<armMask, ppcMask, bwMask, ee, nested, irq, arm, button, reset_pressed,
                   bounds, raced, rebooted>>

(* Faulty variant: the source stays with the PowerPC. *)
HwDisableNot(s) ==
    /\ Starts
    /\ main' = Read("give", s)
    /\ UNCHANGED <<masks, ee, nested, irq, arm, button, reset_pressed, due, events, reboots,
                   raced, rebooted>>

(* irq_hw_disable: the source is taken from the PowerPC and given to the ARM, *)
(* whether the ARM had it before or not.                                      *)
HwDisable(s) ==
    /\ Starts
    /\ ppcMask' = ppcMask \ {s} /\ due' = due \ {s}
    /\ main' = At("read", s)
    /\ UNCHANGED <<armMask, ppcFlag, bwMask, ee, nested, irq, arm, button, reset_pressed,
                   events, reboots, raced, rebooted>>
GiveRead ==
    /\ Goes("read")
    /\ main' = Read("give", main.s)
    /\ UNCHANGED <<masks, ee, nested, irq, arm, button, reset_pressed, due, bounds, raced, rebooted>>
Give ==
    /\ Goes("give")
    /\ armMask' = main.mask \cup {main.s}
    /\ raced' = (raced \/ Reading(arm))
    /\ main' = At("ack", main.s)
    /\ UNCHANGED <<ppcMask, ppcFlag, bwMask, ee, nested, irq, arm, button, reset_pressed, due,
                   bounds, rebooted>>

(* gpio_read: the flag and the button are looked at, and both cleared. *)
GpioRead ==
    /\ Starts
    /\ main' = IF Gpio \in ppcFlag THEN At(IF button THEN "gpio" ELSE "ack", Gpio) ELSE Idle
    /\ UNCHANGED <<masks, ee, nested, irq, arm, button, reset_pressed, due, events, reboots,
                   raced, rebooted>>
GpioSeen ==
    /\ Goes("gpio")
    /\ button' = FALSE
    /\ main' = At("ack", Gpio)
    /\ UNCHANGED <<masks, ee, nested, irq, arm, reset_pressed, due, bounds, raced, rebooted>>

(* irq_shutdown; its irq_disable comes last. *)
Shutdown ==
    /\ Starts
    /\ ppcMask' = {} /\ bwMask' = FALSE /\ ClearAll
    /\ rebooted' = (rebooted \/ ppcMask # {})
    /\ main' = At("disable", None)
    /\ UNCHANGED <<armMask, ee, nested, irq, arm, button, reset_pressed, events, reboots, raced>>

(* The ARM stops the program wherever it is and starts another. *)
Reboot ==
    /\ reboots < MaxReboots /\ reboots' = reboots + 1
    /\ main' = At("start", None) /\ irq' = HandlerIdle
    /\ ee' = FALSE /\ nested' = [i \in {} |-> FALSE] /\ reset_pressed' = FALSE /\ due' = {}
    /\ rebooted' = TRUE
    /\ UNCHANGED <<masks, arm, button, ops, events, raced>>

Main ==
    \/ Initialize \/ EnableMsr \/ EnableWipe
    \/ Disable \/ DisableMsr \/ Restore \/ Shutdown
    \/ BwEnable \/ BwDisable
    \/ \E s \in Mine : HwEnable(s) \/ HwDisable(s)
    \/ Take \/ Mask \/ Ack \/ GiveRead \/ Give
    \/ GpioRead \/ GpioSeen

-----------------------------------------------------------------------------
(* The handler (exception 0x500). *)

(* irq_handler and _irq_bw_handler_hardware: what is pending and enabled. *)
Enter ==
    /\ ee /\ bwMask /\ Runs /\ ppcFlag \cap ppcMask # {}
    /\ irq' = [pc |-> "next", s |-> None, todo |-> ppcFlag \cap ppcMask]
    /\ UNCHANGED <<masks, ee, nested, main, arm, button, reset_pressed, due, bounds, raced, rebooted>>

(* The handlers of the sources: only the reset and the buttons leave a trace. *)
Handles(s) ==
    IF s \in Handled
    THEN /\ reset_pressed' = (reset_pressed \/ s # Gpio)
         /\ button' = IF s = Gpio THEN FALSE ELSE button
    ELSE UNCHANGED <<reset_pressed, button>>

(* The handler of a source runs, if there is one; *)
Exec(s) ==
    /\ irq.pc = "next" /\ s \in irq.todo
    /\ irq' = [irq EXCEPT !.pc = "ack", !.s = s]
    /\ due' = due \ {s}
    /\ Handles(s)
    /\ UNCHANGED <<masks, ee, nested, main, arm, bounds, raced, rebooted>>
(* then its flag is cleared. *)
Acked ==
    /\ irq.pc = "ack"
    /\ Clear(irq.s)
    /\ irq' = [pc |-> "next", s |-> None, todo |-> irq.todo \ {irq.s}]
    /\ UNCHANGED <<armMask, ppcMask, bwMask, ee, nested, main, arm, button, reset_pressed, due,
                   bounds, raced, rebooted>>
Leave ==
    /\ irq.pc = "next" /\ irq.todo = {}
    /\ irq' = HandlerIdle
    /\ UNCHANGED <<masks, ee, nested, main, arm, button, reset_pressed, due, bounds, raced, rebooted>>
Handler == Enter \/ (\E s \in Sources : Exec(s)) \/ Acked \/ Leave

-----------------------------------------------------------------------------
(* The ARM, and the sources (external). *)

ArmRead(s) ==
    /\ arm.pc = "idle" /\ ops < MaxOps /\ ops' = ops + 1
    /\ \E pc \in {"own", "disown"} : arm' = Read(pc, s)
    /\ UNCHANGED <<masks, ee, nested, main, irq, button, reset_pressed, due, events, reboots,
                   raced, rebooted>>
ArmWrite ==
    /\ arm.pc # "idle"
    /\ armMask' = IF arm.pc = "own" THEN arm.mask \cup {arm.s} ELSE arm.mask \ {arm.s}
    /\ raced' = (raced \/ Reading(main))
    /\ arm' = Idle
    /\ UNCHANGED <<ppcMask, ppcFlag, bwMask, ee, nested, main, irq, button, reset_pressed, due,
                   bounds, rebooted>>
Arm == (\E s \in ArmOwn : ArmRead(s)) \/ ArmWrite

(* An interrupt that comes after its handler and before its flag is cleared is *)
(* cleared with it, as is one the program is about to clear.                   *)
Raise(s) ==
    /\ events < MaxEvents /\ events' = events + 1
    /\ ppcFlag' = ppcFlag \cup {s}
    /\ button' = (button \/ s = Gpio)
    /\ due' = IF s \notin ppcMask \/ (irq.pc = "ack" /\ irq.s = s)
                 \/ (main.pc \in {"ack", "gpio"} /\ main.s = s)
              THEN due ELSE due \cup {s}
    /\ UNCHANGED <<armMask, ppcMask, bwMask, ee, nested, main, irq, arm, reset_pressed, ops,
                   reboots, raced, rebooted>>

-----------------------------------------------------------------------------
Init ==
    /\ armMask = ArmBoot /\ ppcMask = {} /\ ppcFlag = {} /\ bwMask = FALSE
    /\ ee = FALSE /\ nested = [i \in {} |-> FALSE]
    /\ main = At("start", None) /\ irq = HandlerIdle /\ arm = Idle
    /\ button = FALSE /\ reset_pressed = FALSE /\ due = {}
    /\ ops = 0 /\ events = 0 /\ reboots = 0
    /\ raced = FALSE /\ rebooted = FALSE

Next == Main \/ Handler \/ Arm \/ Reboot \/ \E s \in Sources : Raise(s)

Spec == Init /\ [][Next]_vars

(* Handlers run to their end, and the program to that of its calls and of its *)
(* critical sections.                                                          *)
Continues ==
    \/ Initialize \/ EnableMsr \/ EnableWipe \/ DisableMsr \/ Restore
    \/ Take \/ Mask \/ Ack \/ GiveRead \/ Give \/ GpioSeen
FairSpec == Spec /\ WF_vars(Handler) /\ WF_vars(Continues)

-----------------------------------------------------------------------------
Pcs == {"idle", "start", "enable", "enable again", "wipe", "wipe again", "disable", "take",
        "mask", "ack", "read", "give", "gpio"}
(* Every variable has its type. *)
TypeOK ==
    /\ armMask \subseteq Sources /\ ppcMask \subseteq Mine /\ ppcFlag \subseteq Sources
    /\ due \subseteq ppcMask
    /\ main \in [pc : Pcs, s : Mine \cup {Gpio, None}, mask : SUBSET Sources]
    /\ irq \in [pc : {"idle", "next", "ack"}, s : Sources \cup {None}, todo : SUBSET Sources]
    /\ arm \in [pc : {"idle", "own", "disown"}, s : ArmOwn \cup {None}, mask : SUBSET Sources]
    /\ main.pc \in {"take", "mask", "read", "give"} => main.s \in Mine
    /\ arm.pc # "idle" => arm.s \in ArmOwn

(* A source belongs to one processor: never to both, and, if the ARM began with *)
(* it, never to neither, between the calls of irq_hw_enable and irq_hw_disable  *)
(* (irq.c:258-276).  Exceptions: the two processors changed ARMIRQMASK at the   *)
(* same time; irq_initialize and irq_shutdown give nothing back.                *)
OwnedByOne ==
    main.pc \in {"idle", "start", "enable", "wipe"} /\ ~raced =>
        /\ armMask \cap ppcMask = {}
        /\ ~rebooted => ArmBoot \ ArmOwn \subseteq armMask \cup ppcMask

(* The handler of a source the PowerPC has enabled runs, once it interrupts,    *)
(* unless irq_enable, irq_disable, a call for this source or the end of the     *)
(* handler before clears its flag (irq.c, irq_handler clears flag by flag).     *)
InterruptServed == \A s \in Sources : s \in due ~> (s \notin due \/ ~bwMask)
=============================================================================
