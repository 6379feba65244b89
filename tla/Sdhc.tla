-------------------------------- MODULE Sdhc --------------------------------
(***************************************************************************)
(* The ARM's driver of the SD host controller (mini/sdhc.c): the main loop *)
(* executes one command at a time and waits for bits of intr_status, which *)
(* the interrupt handler sets while the controller works.                  *)
(*                                                                         *)
(* One processor runs both: an interrupt that is pending is handled before *)
(* the main loop's next step, and the handler is not interrupted, so it is *)
(* one step.  The controller may raise an interrupt between any two steps. *)
(***************************************************************************)
EXTENDS Naturals, FiniteSets

CONSTANTS
    Command,      \* what the card layer executes
    Quirks,       \* what a controller may do, see quirks
    MaxChanges    \* bound: insertions and removals of cards

(* data: it transfers blocks; busy: the card is busy after its response;   *)
(* boundaries: DMA boundaries its buffer crosses; fits: its number of      *)
(* blocks is accepted.                                                     *)
ASSUME CommandAssumption ==
    /\ Command \subseteq [data : BOOLEAN, busy : BOOLEAN, boundaries : Nat, fits : BOOLEAN]
    /\ \A c \in Command : ~(c.data /\ c.busy)
    /\ Quirks \subseteq {"late", "busy", "cards"}
    /\ MaxChanges \in Nat

(* COMMAND_COMPLETE, TRANSFER_COMPLETE, DMA_INTERRUPT, ERROR_INTERRUPT,    *)
(* CARD_REMOVAL and CARD_INSERTION.                                        *)
Bits == {"CC", "TC", "DMA", "ERR", "CARD"}

(***************************************************************************)
(* quirks is what this controller and this slot may do, beyond failing:    *)
(*   late    a command may outlast the driver's timeouts                   *)
(*   busy    the end of a busy signal raises TRANSFER_COMPLETE             *)
(*   cards   cards come and go while commands are executed                 *)
(***************************************************************************)
VARIABLES
    quirks,       \* chosen once
    ctl,          \* what the controller does
    running,      \* the command it does it for
    left,         \* DMA boundaries left in the transfer
    nintr,        \* SDHC_NINTR_STATUS
    eintr,        \* SDHC_EINTR_STATUS: a timeout, another error, or none
    changes,      \* card changes so far
    intrStatus,   \* intr_status
    pc,           \* where the main loop is
    cmd,          \* the command it executes, or executed last
    want,         \* the interrupt it waits for: of the command or the transfer
    loaded,       \* the value of intr_status in intr_status &= ~status
    status,       \* what sdhc_wait_intr found
    result,       \* c_error
    happened      \* what the controller has done of this command

controller == <<ctl, running, left, nintr, eintr>>
waiting == <<want, loaded, status>>
world == <<quirks, changes>>
vars == <<world, controller, intrStatus, pc, cmd, waiting, result, happened>>

Init ==
    /\ ctl = "idle" /\ left = 0 /\ nintr = {} /\ eintr = "none"
    /\ quirks \in SUBSET Quirks /\ changes = 0
    /\ intrStatus = {}
    /\ pc = "idle" /\ cmd \in Command /\ running = cmd
    /\ want = "command" /\ loaded = {} /\ status = {}
    /\ result = "none" /\ happened = {}

-----------------------------------------------------------------------------
(* The main loop. *)
Runs(at) == pc = at /\ nintr = {}

Return(r) == pc' = "idle" /\ result' = r

(* sdhc_host_reset, when a card is discovered or given up. *)
HostReset ==
    /\ Runs("idle")
    /\ ctl' = "idle" /\ left' = 0 /\ nintr' = {} /\ eintr' = "none"
    /\ UNCHANGED <<running, world, intrStatus, pc, cmd, waiting, result, happened>>

(* sdhc_exec_command, until it waits for the controller to be ready. *)
Exec ==
    /\ Runs("idle")
    /\ cmd' \in Command
    /\ intrStatus' = {}
    /\ IF cmd'.fits THEN pc' = "inhibit" /\ result' = "none"
                    ELSE Return("invalid")
    /\ UNCHANGED <<controller, world, waiting, happened>>

(* Nothing will come of the controller that has not come already. *)
Settled == ctl \in {"idle", "paused", "dead"}

(* sdhc_wait_state gives up. *)
StillInhibited ==
    /\ Runs("inhibit")
    /\ ctl # "idle" /\ (Settled \/ "late" \in quirks)
    /\ Return("inhibited")
    /\ UNCHANGED <<controller, world, intrStatus, cmd, waiting, happened>>

Start ==
    /\ Runs("inhibit")
    /\ ctl = "idle"
    /\ ctl' = "command" /\ running' = cmd /\ left' = cmd.boundaries
    /\ want' = "command" /\ pc' = "wait"
    /\ happened' = {}
    /\ UNCHANGED <<nintr, eintr, world, intrStatus, cmd, loaded, status, result>>

(* What sdhc_wait_intr is to return, and errors. *)
Mask == {"ERR"} \cup IF want = "command" THEN {"CC"} ELSE {"TC", "DMA"}

(* sdhc_wait_intr's loop ends, up to the load in intr_status &= ~status.   *)
Wake ==
    /\ Runs("wait")
    /\ intrStatus # {}
    /\ status' = intrStatus \cap Mask
    /\ loaded' = intrStatus
    /\ pc' = "store"
    /\ UNCHANGED <<controller, world, intrStatus, cmd, want, result, happened>>

(* Faulty variant: the command is tried again, and again. *)
TimeOutRetries ==
    /\ Runs("wait")
    /\ intrStatus = {} /\ (Settled \/ "late" \in quirks)
    /\ pc' = "inhibit"
    /\ UNCHANGED <<controller, world, intrStatus, cmd, waiting, result, happened>>

TimeOut ==
    /\ Runs("wait")
    /\ intrStatus = {} /\ (Settled \/ "late" \in quirks)
    /\ status' = {"TIMEOUT"}
    /\ loaded' = intrStatus
    /\ pc' = "store"
    /\ UNCHANGED <<controller, world, intrStatus, cmd, want, result, happened>>

(* The store of intr_status &= ~status. *)
Stored == intrStatus' = loaded \ status

(* The rest of sdhc_wait_intr and what its callers make of it. *)
WaitFails ==
    /\ Runs("store") /\ Stored
    /\ "ERR" \in status
    /\ ctl' = "idle"
    /\ Return("timeout")
    /\ UNCHANGED <<running, left, nintr, eintr, world, cmd, waiting, happened>>

WaitEndsForNothing ==
    /\ Runs("store") /\ Stored
    /\ "ERR" \notin status /\ status \cap {"CC", "TC", "DMA"} = {}
    /\ Return("timeout")
    /\ UNCHANGED <<controller, world, cmd, waiting, happened>>

(* Faulty variant: a command that is complete is looked at before errors. *)
CommandDoneFirst ==
    /\ Runs("store") /\ Stored
    /\ "CC" \in status
    /\ IF cmd.data THEN want' = "transfer" /\ pc' = "wait" /\ UNCHANGED result
                   ELSE Return("ok") /\ UNCHANGED want
    /\ UNCHANGED <<controller, world, cmd, loaded, status, happened>>

CommandDone ==
    /\ Runs("store") /\ Stored
    /\ "ERR" \notin status /\ "CC" \in status
    /\ IF cmd.data THEN want' = "transfer" /\ pc' = "wait" /\ UNCHANGED result
                   ELSE Return("ok") /\ UNCHANGED want
    /\ UNCHANGED <<controller, world, cmd, loaded, status, happened>>

TransferDone ==
    /\ Runs("store") /\ Stored
    /\ "ERR" \notin status /\ "TC" \in status
    /\ Return("ok")
    /\ UNCHANGED <<controller, world, cmd, waiting, happened>>

(* SDHC_DMA_ADDR is written back: the controller goes on. *)
Resume ==
    /\ Runs("store") /\ Stored
    /\ "ERR" \notin status /\ "TC" \notin status /\ "DMA" \in status
    /\ ctl' = IF ctl = "paused" THEN "data" ELSE ctl
    /\ pc' = "wait"
    /\ UNCHANGED <<running, left, nintr, eintr, world, cmd, waiting, result, happened>>

ExecGoesOn ==
    \/ StillInhibited \/ Start \/ Wake \/ TimeOut
    \/ WaitFails \/ WaitEndsForNothing \/ CommandDone \/ TransferDone \/ Resume

Main == HostReset \/ Exec \/ ExecGoesOn

-----------------------------------------------------------------------------
Wakeups == {"CC", "TC", "DMA"}

(* The handler resets the controller for every error ... *)
ErrorResets == TRUE

(* ... and passes timeouts on, and all bits that come with a completion. *)
PassedOn ==
    IF ("ERR" \in nintr /\ eintr = "timeout") \/ nintr \cap Wakeups # {} THEN nintr ELSE {}

(* sdhc_intr; the request it enqueues for a card is SdDisk's CardIrq. *)
Intr ==
    /\ nintr # {}
    /\ nintr' = {}
    /\ IF "ERR" \in nintr
       THEN eintr' = "none" /\ ctl' = IF ErrorResets THEN "idle" ELSE ctl
       ELSE UNCHANGED <<ctl, eintr>>
    /\ intrStatus' = intrStatus \cup PassedOn
    /\ UNCHANGED <<running, left, world, pc, cmd, waiting, result, happened>>

-----------------------------------------------------------------------------
(* The controller and the card. *)
software == <<world, intrStatus, pc, cmd, waiting, result>>

Raise(bits) == nintr' = nintr \cup bits

(* The response is there; a busy card, or its data, come next. *)
CommandCompletes ==
    /\ ctl = "command"
    /\ ctl' = CASE running.data -> "data"
                [] running.busy -> "busy"
                [] OTHER -> "idle"
    /\ Raise({"CC"})
    /\ happened' = happened \cup {"CC"}
    /\ UNCHANGED <<left, eintr, running, software>>

BusyEnds ==
    /\ ctl = "busy"
    /\ ctl' = "idle"
    /\ Raise(IF "busy" \in quirks THEN {"TC"} ELSE {})
    /\ UNCHANGED <<left, eintr, running, happened, software>>

(* A DMA boundary: the controller waits for a new address. *)
Boundary ==
    /\ ctl = "data" /\ left > 0
    /\ ctl' = "paused" /\ left' = left - 1
    /\ Raise({"DMA"})
    /\ UNCHANGED <<eintr, running, happened, software>>

TransferCompletes ==
    /\ ctl = "data" /\ left = 0
    /\ ctl' = "idle"
    /\ Raise({"TC"})
    /\ happened' = happened \cup {"TC"}
    /\ UNCHANGED <<left, eintr, running, software>>

(***************************************************************************)
(* A command or a transfer fails: the controller stops until it is reset.  *)
(* A damaged response comes with COMMAND_COMPLETE.                         *)
(***************************************************************************)
Fails ==
    /\ ctl \in {"command", "data"}
    /\ ctl' = "failed"
    /\ \/ Raise({"ERR"})
       \/ ctl = "command" /\ Raise({"ERR", "CC"})
    /\ eintr' \in {"timeout", "other"}
    /\ UNCHANGED <<left, running, happened, software>>

(* Without a clock nothing happens any more. *)
Dies ==
    /\ ctl = "command"
    /\ ctl' = "dead"
    /\ UNCHANGED <<left, nintr, eintr, running, happened, software>>

CardChange ==
    /\ "cards" \in quirks /\ changes < MaxChanges
    /\ changes' = changes + 1
    /\ Raise({"CARD"})
    /\ UNCHANGED <<quirks, ctl, running, left, eintr, intrStatus, pc, cmd, waiting, result, happened>>

Works == CommandCompletes \/ BusyEnds \/ Boundary \/ TransferCompletes \/ Fails \/ Dies

Next == Main \/ Intr \/ Works \/ CardChange

Spec == Init /\ [][Next]_vars

(***************************************************************************)
(* A command in execution goes on, interrupts are handled, and the         *)
(* controller works.  Nobody has to execute commands or change cards.      *)
(***************************************************************************)
FairSpec == Spec /\ WF_vars(ExecGoesOn) /\ WF_vars(Intr) /\ WF_vars(Works)

-----------------------------------------------------------------------------
(* Every variable has its type; MaxChanges bounds the card changes. *)
TypeOK ==
    /\ ctl \in {"idle", "command", "busy", "data", "paused", "failed", "dead"}
    /\ running \in Command /\ left \in Nat /\ nintr \subseteq Bits /\ eintr \in {"none", "timeout", "other"}
    /\ quirks \subseteq Quirks /\ changes \in 0 .. MaxChanges
    /\ intrStatus \subseteq Bits
    /\ pc \in {"idle", "inhibit", "wait", "store"} /\ cmd \in Command
    /\ want \in {"command", "transfer"}
    /\ loaded \subseteq Bits /\ status \subseteq Bits \cup {"TIMEOUT"}
    /\ result \in {"none", "ok", "timeout", "inhibited", "invalid"}
    /\ happened \subseteq {"CC", "TC"}

(***************************************************************************)
(* With a controller that answers in time and interrupts for commands only,*)
(* a command that sdhc_exec_command reports as successful was completed,   *)
(* its data included, whatever else fails: never is the completion of      *)
(* another command taken for its own, though interrupts are lost.          *)
(***************************************************************************)
Punctual == quirks = {}

Completed == "CC" \in happened /\ (cmd.data => "TC" \in happened)

SuccessIsOwn == Punctual /\ result = "ok" => Completed

(***************************************************************************)
(* No error leaves the controller stopped: it is reset before the main     *)
(* loop runs on, though only timeouts are passed on to it.                 *)
(***************************************************************************)
ErrorsReset == nintr = {} => ctl # "failed"

(* sdhc_exec_command returns, whatever the controller, the card and the interrupts do. *)
ExecReturns == pc # "idle" ~> pc = "idle"
=============================================================================
