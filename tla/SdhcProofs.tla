----------------------------- MODULE SdhcProofs -----------------------------
(***************************************************************************)
(* Proofs about Sdhc, for every set of commands.                           *)
(***************************************************************************)
EXTENDS Sdhc, TLAPS

Executing == pc \in {"wait", "store"}

Quiet == nintr = {} /\ ctl \in {"idle", "busy", "paused", "dead"}

(* A completion is one of the command in execution, or comes with an error. *)
Own(bits) ==
    /\ "CC" \in bits => "CC" \in happened \/ "ERR" \in bits
    /\ "TC" \in bits => "TC" \in happened
    /\ "CARD" \notin bits

(* Between commands the controller has nothing to say. *)
BetweenInv ==
    /\ pc \in {"idle", "inhibit"} => Quiet
    /\ pc = "inhibit" => intrStatus = {}

(* What the controller has done, and still does, of the command. *)
ControllerInv ==
    /\ pc # "idle" => result = "none"
    /\ Executing =>
        /\ running = cmd
        /\ Own(nintr) /\ Own(intrStatus)
        /\ ctl \in {"command", "dead"} => happened = {} /\ nintr = {} /\ intrStatus = {}
        /\ ctl \in {"data", "paused"} => running.data /\ "CC" \in happened
        /\ ctl = "busy" => ~running.data
        /\ "TC" \in happened => ctl = "idle"

(* COMMAND_COMPLETE comes first, and is seen first. *)
WaitInv ==
    /\ pc = "wait" /\ want = "command" =>
        /\ ctl \in {"data", "paused"} => "CC" \in intrStatus \cup nintr
        /\ intrStatus \cap {"TC", "DMA"} # {} => "CC" \in intrStatus
        /\ nintr \cap {"TC", "DMA"} # {} => "CC" \in intrStatus \cup nintr
    /\ Executing /\ want = "transfer" =>
        /\ cmd.data /\ "CC" \in happened
        /\ "CC" \notin intrStatus \cup nintr

StoreInv ==
    pc = "store" =>
        /\ \/ status = {"TIMEOUT"} /\ Quiet
           \/ status = loaded \cap Mask /\ status # {}
        /\ Own(loaded)
        /\ "CC" \in loaded => want = "command"
        /\ status \cap {"TC", "DMA"} # {} => want = "transfer"

OwnInv == result = "ok" => Completed

-----------------------------------------------------------------------------
(* A controller that has stopped says so, until sdhc_intr resets it. *)
FailedInv == ctl = "failed" => "ERR" \in nintr

(* Types and the state after errors, whatever the controller may do. *)
BaseInv == TypeOK /\ FailedInv

LEMMA BaseInit == Init => BaseInv
BY CommandAssumption DEF Init, BaseInv, TypeOK, FailedInv, Bits, Wakeups

LEMMA BaseNext == BaseInv /\ [Next]_vars => BaseInv'
<1> SUFFICES ASSUME BaseInv, [Next]_vars PROVE BaseInv'
  OBVIOUS
<1> USE CommandAssumption DEF BaseInv, TypeOK, FailedInv, Bits, Wakeups, controller, waiting, world, software
<1>1. CASE HostReset
  BY <1>1 DEF HostReset, Runs
<1>2. CASE Exec
  BY <1>2 DEF Exec, Runs, Return
<1>3. CASE StillInhibited
  BY <1>3 DEF StillInhibited, Runs, Return
<1>4. CASE Start
  BY <1>4 DEF Start, Runs
<1>5. CASE Wake
  BY <1>5 DEF Wake, Runs, Mask
<1>6. CASE TimeOut
  BY <1>6 DEF TimeOut, Runs
<1>7. CASE WaitFails
  BY <1>7 DEF WaitFails, Runs, Return, Stored
<1>8. CASE WaitEndsForNothing
  BY <1>8 DEF WaitEndsForNothing, Runs, Return, Stored
<1>9. CASE CommandDone
  BY <1>9 DEF CommandDone, Runs, Return, Stored
<1>10. CASE TransferDone
  BY <1>10 DEF TransferDone, Runs, Return, Stored
<1>11. CASE Resume
  BY <1>11 DEF Resume, Runs, Stored
<1>12. CASE Intr
  <2>1. PassedOn \subseteq Bits
    BY DEF PassedOn
  <2>2. intrStatus' \subseteq Bits /\ nintr' = {}
    BY <1>12, <2>1 DEF Intr
  <2>3. eintr' \in {"none", "timeout", "other"} /\ ctl' \in {ctl, "idle"} /\ ctl' # "failed"
    BY <1>12 DEF Intr, ErrorResets
  <2>4. QED
    BY <1>12, <2>2, <2>3 DEF Intr
<1>13. CASE CommandCompletes
  BY <1>13 DEF CommandCompletes, Raise
<1>14. CASE BusyEnds
  BY <1>14 DEF BusyEnds, Raise
<1>15. CASE Boundary
  BY <1>15 DEF Boundary, Raise
<1>16. CASE TransferCompletes
  BY <1>16 DEF TransferCompletes, Raise
<1>17. CASE Fails
  BY <1>17 DEF Fails, Raise
<1>18. CASE Dies
  BY <1>18 DEF Dies
<1>19. CASE CardChange
  BY <1>19 DEF CardChange, Raise
<1>20. CASE UNCHANGED vars
  BY <1>20 DEF vars
<1>21. QED
  BY <1>1, <1>2, <1>3, <1>4, <1>5, <1>6, <1>7, <1>8, <1>9, <1>10, <1>11, <1>12, <1>13, <1>14, <1>15, <1>16, <1>17, <1>18, <1>19, <1>20
     DEF Next, Main, ExecGoesOn, Works

(* The registers, intr_status and the state of every command have their types, *)
(* for every set of commands, and though interrupts are late or lost.           *)
THEOREM TypeCorrect == Spec => []TypeOK
<1>1. BaseInv => TypeOK
  BY DEF BaseInv
<1>2. QED
  BY <1>1, BaseInit, BaseNext, PTL DEF Spec

(* sdhc_intr resets the controller after every error, before the main loop goes on. *)
THEOREM ControllerIsReset == Spec => []ErrorsReset
<1>1. BaseInv => ErrorsReset
  BY DEF BaseInv, FailedInv, ErrorsReset
<1>2. QED
  BY <1>1, BaseInit, BaseNext, PTL DEF Spec

-----------------------------------------------------------------------------
(* What holds of a punctual controller besides. *)
WorkInv == BetweenInv /\ ControllerInv /\ WaitInv /\ StoreInv /\ OwnInv

Inv == BaseInv /\ (Punctual => WorkInv)

LEMMA InvInit == Init => Inv
BY BaseInit DEF Init, Inv, BaseInv, WorkInv, BetweenInv, Quiet, ControllerInv, Executing,
                WaitInv, StoreInv, OwnInv

(* A controller does not change its nature. *)
LEMMA SameQuirks == [Next]_vars => quirks' = quirks
BY DEF vars, Next, Main, ExecGoesOn, Works, HostReset, Exec, StillInhibited, Start, Wake,
       TimeOut, WaitFails, WaitEndsForNothing, CommandDone, TransferDone, Resume, Intr,
       CommandCompletes, BusyEnds, Boundary, TransferCompletes, Fails, Dies, CardChange,
       world, software

(* With a punctual controller every step keeps the rest. *)
LEMMA WorkNext == ASSUME BaseInv, WorkInv, Punctual, [Next]_vars PROVE WorkInv'
<1>0. Punctual' /\ quirks = {}
  BY SameQuirks DEF Punctual
<1> USE CommandAssumption, <1>0 DEF BaseInv, WorkInv, TypeOK, Bits, Wakeups, controller, waiting, world, software
<1>1. CASE HostReset
  <2> USE <1>1 DEF HostReset, Runs
  <2>1. BetweenInv'
    BY DEF BetweenInv, Quiet
  <2>2. ControllerInv'
    BY DEF ControllerInv, Executing, Own
  <2>3. WaitInv'
    BY DEF WaitInv, Executing
  <2>4. StoreInv'
    BY DEF StoreInv, Own, Quiet, Mask
  <2>5. OwnInv'
    BY DEF OwnInv, Completed
  <2>6. QED
    BY <2>1, <2>2, <2>3, <2>4, <2>5
<1>2. CASE Exec
  <2> USE <1>2 DEF Exec, Runs, Return
  <2>1. BetweenInv'
    BY DEF BetweenInv, Quiet
  <2>2. ControllerInv'
    BY DEF ControllerInv, Executing, Own
  <2>3. WaitInv'
    BY DEF WaitInv, Executing
  <2>4. StoreInv'
    BY DEF StoreInv, Own, Quiet, Mask
  <2>5. OwnInv'
    BY DEF OwnInv, Completed
  <2>6. QED
    BY <2>1, <2>2, <2>3, <2>4, <2>5
<1>3. CASE StillInhibited
  <2> USE <1>3 DEF StillInhibited, Runs, Return
  <2>1. BetweenInv'
    BY DEF BetweenInv, Quiet
  <2>2. ControllerInv'
    BY DEF ControllerInv, Executing, Own
  <2>3. WaitInv'
    BY DEF WaitInv, Executing
  <2>4. StoreInv'
    BY DEF StoreInv, Own, Quiet, Mask
  <2>5. OwnInv'
    BY DEF OwnInv, Completed
  <2>6. QED
    BY <2>1, <2>2, <2>3, <2>4, <2>5
<1>4. CASE Start
  <2> USE <1>4 DEF Start, Runs
  <2>1. BetweenInv'
    BY DEF BetweenInv, Quiet
  <2>2. ControllerInv'
    BY DEF ControllerInv, Executing, Own, BetweenInv, Quiet
  <2>3. WaitInv'
    BY DEF WaitInv, Executing, BetweenInv, Quiet
  <2>4. StoreInv'
    BY DEF StoreInv, Own, Quiet, Mask
  <2>5. OwnInv'
    BY DEF OwnInv, Completed, ControllerInv, Executing, Own
  <2>6. QED
    BY <2>1, <2>2, <2>3, <2>4, <2>5
<1>5. CASE Wake
  <2> USE <1>5 DEF Wake, Runs, Mask
  <2>1. BetweenInv'
    BY DEF BetweenInv, Quiet
  <2>2. ControllerInv'
    BY DEF ControllerInv, Executing, Own
  <2>3. WaitInv'
    BY DEF WaitInv, Executing
  <2>4. StoreInv'
    <3>1. Own(intrStatus) /\ Own(loaded')
      BY DEF ControllerInv, Executing, Own
    <3>2. "CC" \in intrStatus => want = "command"
      BY DEF WaitInv, Executing
    <3>3. intrStatus \cap Mask # {}
      <4>1. PICK b \in intrStatus : TRUE
        OBVIOUS
      <4>2. b \in {"CC", "TC", "DMA", "ERR"}
        BY <3>1, <4>1 DEF Own
      <4>3. CASE want = "command"
        BY <4>1, <4>2, <4>3 DEF WaitInv
      <4>4. CASE want = "transfer"
        BY <3>2, <4>1, <4>2, <4>4
      <4>5. QED
        BY <4>3, <4>4
    <3>4. QED
      BY <3>1, <3>2, <3>3 DEF StoreInv, Own
  <2>5. OwnInv'
    BY DEF OwnInv, Completed
  <2>6. QED
    BY <2>1, <2>2, <2>3, <2>4, <2>5
<1>6. CASE TimeOut
  <2> USE <1>6 DEF TimeOut, Runs
  <2>1. BetweenInv'
    BY DEF BetweenInv, Quiet
  <2>2. ControllerInv'
    BY DEF ControllerInv, Executing, Own
  <2>3. WaitInv'
    BY DEF WaitInv, Executing
  <2>4. StoreInv'
    BY DEF StoreInv, Own, Quiet, Mask, Settled
  <2>5. OwnInv'
    BY DEF OwnInv, Completed
  <2>6. QED
    BY <2>1, <2>2, <2>3, <2>4, <2>5
<1>7. CASE WaitFails
  <2> USE <1>7 DEF WaitFails, Runs, Return, Stored
  <2>1. BetweenInv'
    BY DEF BetweenInv, Quiet
  <2>2. ControllerInv'
    BY DEF ControllerInv, Executing, Own
  <2>3. WaitInv'
    BY DEF WaitInv, Executing
  <2>4. StoreInv'
    BY DEF StoreInv, Own, Quiet, Mask
  <2>5. OwnInv'
    BY DEF OwnInv, Completed
  <2>6. QED
    BY <2>1, <2>2, <2>3, <2>4, <2>5
<1>8. CASE WaitEndsForNothing
  <2> USE <1>8 DEF WaitEndsForNothing, Runs, Return, Stored
  <2>1. BetweenInv'
    BY DEF BetweenInv, Quiet, StoreInv, Own, Mask
  <2>2. ControllerInv'
    BY DEF ControllerInv, Executing, Own
  <2>3. WaitInv'
    BY DEF WaitInv, Executing
  <2>4. StoreInv'
    BY DEF StoreInv, Own, Quiet, Mask
  <2>5. OwnInv'
    BY DEF OwnInv, Completed
  <2>6. QED
    BY <2>1, <2>2, <2>3, <2>4, <2>5
<1>9. CASE CommandDone
  <2> USE <1>9 DEF CommandDone, Runs, Return, Stored
  <2>1. BetweenInv'
    BY DEF BetweenInv, Quiet, ControllerInv, Executing, Own, StoreInv, Mask, FailedInv
  <2>2. ControllerInv'
    BY DEF ControllerInv, Executing, Own, StoreInv, Quiet, Mask
  <2>3. WaitInv'
    BY DEF WaitInv, Executing, StoreInv, Own, Quiet, Mask
  <2>4. StoreInv'
    BY DEF StoreInv, Own, Quiet, Mask
  <2>5. OwnInv'
    BY DEF OwnInv, Completed, StoreInv, Own, Quiet, Mask
  <2>6. QED
    BY <2>1, <2>2, <2>3, <2>4, <2>5
<1>10. CASE TransferDone
  <2> USE <1>10 DEF TransferDone, Runs, Return, Stored
  <2>1. BetweenInv'
    BY DEF BetweenInv, Quiet, ControllerInv, Executing, Own, StoreInv, Mask
  <2>2. ControllerInv'
    BY DEF ControllerInv, Executing, Own
  <2>3. WaitInv'
    BY DEF WaitInv, Executing
  <2>4. StoreInv'
    BY DEF StoreInv, Own, Quiet, Mask
  <2>5. OwnInv'
    BY DEF OwnInv, Completed, WaitInv, Executing, StoreInv, Own, Quiet, Mask
  <2>6. QED
    BY <2>1, <2>2, <2>3, <2>4, <2>5
<1>11. CASE Resume
  <2> USE <1>11 DEF Resume, Runs, Stored
  <2>1. BetweenInv'
    BY DEF BetweenInv, Quiet
  <2>2. ControllerInv'
    BY DEF ControllerInv, Executing, Own, StoreInv, Quiet, Mask
  <2>3. WaitInv'
    BY DEF WaitInv, Executing, StoreInv, Own, Quiet, Mask
  <2>4. StoreInv'
    BY DEF StoreInv, Own, Quiet, Mask
  <2>5. OwnInv'
    BY DEF OwnInv, Completed
  <2>6. QED
    BY <2>1, <2>2, <2>3, <2>4, <2>5
<1>12. CASE Intr
  <2> USE <1>12 DEF Intr, PassedOn, ErrorResets
  <2>1. BetweenInv'
    BY DEF BetweenInv, Quiet
  <2>2. ControllerInv'
    BY DEF ControllerInv, Executing, Own
  <2>3. WaitInv'
    BY DEF WaitInv, Executing
  <2>4. StoreInv'
    BY DEF StoreInv, Own, Quiet, Mask
  <2>5. OwnInv'
    BY DEF OwnInv, Completed
  <2>6. QED
    BY <2>1, <2>2, <2>3, <2>4, <2>5
<1>13. CASE CommandCompletes
  <2> USE <1>13 DEF CommandCompletes, Raise
  <2>1. BetweenInv'
    BY DEF BetweenInv, Quiet
  <2>2. ControllerInv'
    BY DEF ControllerInv, Executing, Own
  <2>3. WaitInv'
    BY DEF WaitInv, Executing, ControllerInv, Own
  <2>4. StoreInv'
    BY DEF StoreInv, Own, Quiet, Mask
  <2>5. OwnInv'
    BY DEF OwnInv, Completed
  <2>6. QED
    BY <2>1, <2>2, <2>3, <2>4, <2>5
<1>14. CASE BusyEnds
  <2> USE <1>14 DEF BusyEnds, Raise
  <2>1. BetweenInv'
    BY DEF BetweenInv, Quiet
  <2>2. ControllerInv'
    BY DEF ControllerInv, Executing, Own
  <2>3. WaitInv'
    BY DEF WaitInv, Executing
  <2>4. StoreInv'
    BY DEF StoreInv, Own, Quiet, Mask
  <2>5. OwnInv'
    BY DEF OwnInv, Completed
  <2>6. QED
    BY <2>1, <2>2, <2>3, <2>4, <2>5
<1>15. CASE Boundary
  <2> USE <1>15 DEF Boundary, Raise
  <2>1. BetweenInv'
    BY DEF BetweenInv, Quiet
  <2>2. ControllerInv'
    BY DEF ControllerInv, Executing, Own
  <2>3. WaitInv'
    BY DEF WaitInv, Executing
  <2>4. StoreInv'
    BY DEF StoreInv, Own, Quiet, Mask
  <2>5. OwnInv'
    BY DEF OwnInv, Completed
  <2>6. QED
    BY <2>1, <2>2, <2>3, <2>4, <2>5
<1>16. CASE TransferCompletes
  <2> USE <1>16 DEF TransferCompletes, Raise
  <2>1. BetweenInv'
    BY DEF BetweenInv, Quiet
  <2>2. ControllerInv'
    BY DEF ControllerInv, Executing, Own
  <2>3. WaitInv'
    BY DEF WaitInv, Executing
  <2>4. StoreInv'
    BY DEF StoreInv, Own, Quiet, Mask
  <2>5. OwnInv'
    BY DEF OwnInv, Completed
  <2>6. QED
    BY <2>1, <2>2, <2>3, <2>4, <2>5
<1>17. CASE Fails
  <2> USE <1>17 DEF Fails, Raise
  <2>1. BetweenInv'
    BY DEF BetweenInv, Quiet
  <2>2. ControllerInv'
    BY DEF ControllerInv, Executing, Own
  <2>3. WaitInv'
    BY DEF WaitInv, Executing, ControllerInv, Own
  <2>4. StoreInv'
    BY DEF StoreInv, Own, Quiet, Mask
  <2>5. OwnInv'
    BY DEF OwnInv, Completed
  <2>6. QED
    BY <2>1, <2>2, <2>3, <2>4, <2>5
<1>18. CASE Dies
  <2> USE <1>18 DEF Dies
  <2>1. BetweenInv'
    BY DEF BetweenInv, Quiet
  <2>2. ControllerInv'
    BY DEF ControllerInv, Executing, Own
  <2>3. WaitInv'
    BY DEF WaitInv, Executing
  <2>4. StoreInv'
    BY DEF StoreInv, Own, Quiet, Mask
  <2>5. OwnInv'
    BY DEF OwnInv, Completed
  <2>6. QED
    BY <2>1, <2>2, <2>3, <2>4, <2>5
<1>19. CASE CardChange
  BY <1>19 DEF CardChange
<1>20. CASE UNCHANGED vars
  BY <1>20 DEF vars, BetweenInv, Quiet, ControllerInv, Executing, Own, WaitInv, StoreInv,
     Mask, OwnInv, Completed
<1>21. QED
  BY <1>1, <1>2, <1>3, <1>4, <1>5, <1>6, <1>7, <1>8, <1>9, <1>10, <1>11,
     <1>12, <1>13, <1>14, <1>15, <1>16, <1>17, <1>18, <1>19, <1>20
     DEF Next, Main, ExecGoesOn, Works

LEMMA InvNext == Inv /\ [Next]_vars => Inv'
BY BaseNext, SameQuirks, WorkNext DEF Inv, Punctual

(***************************************************************************)
(* With a controller that is punctual, a command that is reported as       *)
(* successful is one the controller completed, whatever fails, and though  *)
(* interrupts are lost.                                                    *)
(***************************************************************************)
THEOREM SuccessCorrect == Spec => []SuccessIsOwn
<1>1. Inv => SuccessIsOwn
  BY DEF Inv, WorkInv, OwnInv, SuccessIsOwn
<1>2. QED
  BY <1>1, InvInit, InvNext, PTL DEF Spec
=============================================================================
